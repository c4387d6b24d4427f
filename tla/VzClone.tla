------------------------------ MODULE VzClone ------------------------------
(***************************************************************************)
(* Live cloning, scripts/vzclone: a shell script on the source host copies *)
(* an OpenVZ container to the target host over ssh and starts the copy,    *)
(* the source going on.  Any step may fail; a chain of undo functions, of  *)
(* which each calls the next, then puts both hosts back.  pc is the step   *)
(* or the undo function the script is at.                                  *)
(*                                                                         *)
(* The container's files are a stack of deltas (one without ploop), of     *)
(* which a running container writes the top one; the content of a delta is *)
(* a version number, 0 if there is no such file or it is torn.             *)
(*                                                                         *)
(* Each command on the target is an ssh of its own: it may fail without an *)
(* effect, or have its effect and still be reported failed, whatever the   *)
(* commands before and after it do.                                        *)
(***************************************************************************)
EXTENDS Naturals

CONSTANTS
    Options,     \* the options, and kinds of container, the script may meet
    MaxTop,      \* bound: deltas a container may have
    MaxVersion   \* bound: versions of a delta

Delta == 1 .. MaxTop
OptionNames == {"live", "keep", "compact", "snapshot",   \* --live, --keep-dst, ...
                "ploop", "quota", "scripts"}             \* the container's kind
ASSUME OptionsAssumption == Options \subseteq SUBSET OptionNames
ASSUME BoundsAssumption == MaxTop \in Nat \ {0} /\ MaxVersion \in Nat \ {0}

VARIABLES
    opt,     \* the options and kind of the container
    pc,      \* the script's step
    ret,     \* where the chain of undo functions returns to
    state,   \* $state and $mounted: the container's status at the start
    known,   \* $TOP_DELTA, 0 if it is not set
    stuck,   \* vzctl failed and left the source in another status
    src,     \* the container on the source host
    disk,    \* its deltas
    top,     \* its top delta
    files,   \* the dump files on the source host
    image,   \* the deltas when the container was last suspended or stopped
    dst,     \* what the target host holds
    copy,    \* the deltas in the target's private area
    clone,   \* the container on the target host
    orphans  \* auxiliary: which of Tracked are on the target though the script was
             \* told that they were not made, or was to remove them

script == <<opt, state, known>>
source == <<src, disk, top, files, image>>
target == <<dst, copy, clone, orphans>>
vars == <<script, pc, ret, stuck, source, target>>

Live == "live" \in opt
Ploop == "ploop" \in opt
Quota == "quota" \in opt /\ ~Ploop
Has(o) == o \in opt

Kept == {"conf", "scripts", "root", "private", "quotaInit", "quotaOn", "dump", "quotadump"}
Tracked == {"private", "quotaInit", "quotaOn", "clone"}
Content == [Delta -> 0 .. MaxVersion]
NoFiles == [d \in Delta |-> 0]
Status == {"running", "mounted", "stopped"}

Undo == {"undo_conf", "undo_act_scripts", "undo_private", "undo_root",
         "undo_quota_init", "undo_quota_on", "undo_suspend", "undo_dump",
         "undo_copy_dump", "undo_stop", "undo_quota_dump", "undo_copy_quota",
         "undo_undump"}
Step == {"check", "conf", "apply", "scripts", "root", "private", "quotainit",
         "quotaon", "compact", "snapshot", "sync", "suspend", "dump",
         "copydump", "stop", "umount", "sync2", "quotadump", "copyquota",
         "loadquota", "resume", "undump", "restore", "start", "clean",
         "done", "refused", "failed"} \cup Undo

TypeOK ==
    /\ opt \in Options
    /\ pc \in Step
    /\ ret \in {"failed", "snapshot", "sync"}
    /\ state \in Status
    /\ known \in Delta \cup {0}
    /\ stuck \in BOOLEAN
    /\ src \in Status \cup {"suspended"}
    /\ disk \in Content /\ image \in Content /\ copy \in Content
    /\ top \in Delta
    /\ files \in SUBSET {"dump", "quotadump"}
    /\ dst \in SUBSET Kept
    /\ clone \in {"none", "undumped", "running", "mounted"}
    /\ orphans \in SUBSET Tracked

Init ==
    /\ opt \in Options
    /\ pc = "check" /\ ret = "failed" /\ stuck = FALSE
    /\ src \in Status /\ state = src
    /\ known = 0 /\ top = 1
    /\ disk = [NoFiles EXCEPT ![1] = 1] /\ image = disk
    /\ files = {} /\ dst = {} /\ copy = NoFiles /\ clone = "none" /\ orphans = {}

----------------------------------------------------------------------------
(* How a step ends.                                                        *)

Go(next) == pc' = next /\ UNCHANGED ret

\* An error: the undo functions from u on, then exit.
Abort(u) == pc' = u /\ ret' = "failed"

\* A command run on the target adds these things to it; one that is reported
\* failed may have added them all the same.
Remote(at, things, next, undo) ==
    /\ pc = at
    /\ \/ dst' = dst \cup things /\ orphans' = orphans \ things /\ Go(next)
       \/ Abort(undo) /\ UNCHANGED <<dst, orphans>>
       \/ dst' = dst \cup things /\ orphans' = orphans \cup (things \cap Tracked) /\ Abort(undo)
    /\ UNCHANGED <<script, stuck, source, copy, clone>>

\* scp of a file: a part of it may be there if it fails.
Scp(at, file, next, undo) ==
    /\ pc = at
    /\ \/ dst' = dst \cup {file} /\ Go(next)
       \/ dst' \in {dst, dst \cup {file}} /\ Abort(undo)
    /\ UNCHANGED <<script, stuck, source, copy, clone, orphans>>

Skip(at, next) == pc = at /\ Go(next) /\ UNCHANGED <<script, stuck, source, target>>

\* A command on the source host that leaves the container as it is.
Local(at, file, next, undo) ==
    /\ pc = at
    /\ \/ files' = files \cup file /\ Go(next)
       \/ files' \in {files, files \cup file} /\ Abort(undo)
    /\ UNCHANGED <<script, stuck, src, disk, top, image, target>>

\* vzctl is to bring the container back to status s; the script does not look
\* whether it did.
Recover(s) ==
    \/ src' = s /\ UNCHANGED stuck
    \/ src # s /\ UNCHANGED src /\ stuck' = TRUE

\* vzctl brings the container to status s.  If it fails the script does not
\* look what status it left the container in.
Vzctl(at, s, next, undo) ==
    /\ pc = at
    /\ \/ src' = s /\ image' = disk /\ Go(next) /\ UNCHANGED stuck
       \/ Abort(undo) /\ UNCHANGED <<src, image, stuck>>
       \/ src' = s /\ image' = disk /\ stuck' = TRUE /\ Abort(undo)
    /\ UNCHANGED <<script, disk, top, files, target>>

----------------------------------------------------------------------------
(* The steps, in the order of the script.                                  *)

\* Mutant: delta numbers start at 1, not 0.
check_OffByOne ==
    /\ pc = "check"
    /\ state' = src /\ known' = top + 1
    /\ Go("conf")
    /\ UNCHANGED <<opt, stuck, source, target>>

\* Up to --check-only: nothing is changed; a target that has the container is
\* refused, and so is --live for one that does not run.
check ==
    /\ pc = "check"
    /\ state' = src
    /\ \/ /\ ~({"conf", "private"} \subseteq dst)
          /\ Live => src = "running"
          /\ known' = IF Ploop /\ src = "running" THEN top ELSE 0
          /\ Go("conf")
       \/ Abort("refused") /\ UNCHANGED known
    /\ UNCHANGED <<opt, stuck, source, target>>

Prepare ==
    \/ Scp("conf", "conf", "apply", "failed")
    \/ Remote("apply", {}, "scripts", "undo_conf")
    \/ Has("scripts") /\ Scp("scripts", "scripts", "root", "undo_conf")
    \/ ~Has("scripts") /\ Skip("scripts", "root")
    \/ Remote("root", {"root"}, "private", "undo_act_scripts")
    \/ Remote("private", {"private"}, "quotainit", "undo_private")
    \/ Quota /\ Remote("quotainit", {"quotaInit"}, "quotaon", "undo_root")
    \/ Quota /\ Remote("quotaon", {"quotaOn"}, "compact", "undo_quota_init")
    \/ ~Quota /\ Skip("quotainit", "compact")

\* vzctl compact.  When it fails the target is undone, but the script goes on.
Compact ==
    \/ /\ pc = "compact" /\ Ploop /\ Has("compact")
       /\ \/ Go("snapshot")
          \/ pc' = "undo_root" /\ ret' = "snapshot"
       /\ UNCHANGED <<script, stuck, source, target>>
    \/ ~(Ploop /\ Has("compact")) /\ Skip("compact", "snapshot")

\* vzctl snapshot puts a new delta on top; when it fails, as for compact.
Snapshot ==
    \/ /\ pc = "snapshot" /\ Ploop /\ Has("snapshot")
       /\ \/ /\ top < MaxTop
             /\ top' = top + 1
             /\ disk' = [disk EXCEPT ![top + 1] = 1]
             /\ image' = IF src = "running" THEN image ELSE disk'
             /\ Go("sync")
          \/ pc' = "undo_root" /\ ret' = "sync" /\ UNCHANGED <<top, disk, image>>
       /\ UNCHANGED <<script, stuck, src, files, target>>
    \/ ~(Ploop /\ Has("snapshot")) /\ Skip("snapshot", "sync")

\* What rsync finds: a delta that is written meanwhile is copied torn, or as
\* it was at some time.
Found(d) == IF d = top /\ src = "running" THEN 0 .. disk[d] ELSE {disk[d]}

\* rsync --delete of the private area, but for the delta that is excluded.
Rsync(at, excluded, next, undo) ==
    /\ pc = at
    /\ \/ /\ \E c \in Content :
                /\ \A d \in Delta : c[d] \in (IF d = excluded THEN {0} ELSE Found(d))
                /\ copy' = c
          /\ dst' = dst \cup {"private"}
          /\ Go(next)
       \/ /\ copy' \in {copy, NoFiles}
          /\ dst' \in {dst, dst \cup {"private"}}
          /\ Abort(undo)
    /\ orphans' = orphans \ {"private"}
    /\ UNCHANGED <<script, stuck, source, clone>>

\* Mutant: the undo of an earlier step.
sync_UndoRoot == Rsync("sync", known, IF Live THEN "suspend" ELSE "stop", "undo_root")

sync == Rsync("sync", known, IF Live THEN "suspend" ELSE "stop", "undo_quota_on")

\* ploop_copy(): the device's top delta is written to the target's file of
\* that name the script knows, and the container brought to status s.
ploop_copy(at, s, next, undo) ==
    /\ pc = at
    /\ \/ /\ src' = s /\ image' = disk
          /\ copy' = [copy EXCEPT ![known] = disk[top]]
          /\ Go(next) /\ UNCHANGED stuck
       \/ /\ \/ src' = "running" /\ UNCHANGED <<image, stuck>>
             \/ src' = s /\ image' = disk /\ stuck' = TRUE
          /\ Abort(undo) /\ UNCHANGED copy
    /\ UNCHANGED <<script, disk, top, files, dst, clone, orphans>>

Suspend ==
    \/ ~Ploop /\ Vzctl("suspend", "suspended", "dump", "undo_quota_on")
    \/ Ploop /\ ploop_copy("suspend", "suspended", "dump", "undo_quota_on")
    \/ Local("dump", {"dump"}, "copydump", "undo_suspend")
    \/ Scp("copydump", "dump", "sync2", "undo_dump")

\* The unmounting that follows ploop_copy; if it fails the container is started.
umount ==
    /\ pc = "umount"
    /\ \/ src' = "stopped" /\ image' = disk /\ Go("sync2") /\ UNCHANGED stuck
       \/ Recover("running") /\ image' = image /\ Abort("undo_quota_on")
    /\ UNCHANGED <<script, disk, top, files, target>>

\* Without --live: stop and unmount.
Stop ==
    \/ state = "running" /\ ~Ploop /\ Vzctl("stop", "stopped", "sync2", "undo_quota_on")
    \/ state = "running" /\ Ploop /\ ploop_copy("stop", "mounted", "umount", "undo_quota_on")
    \/ umount
    \/ state = "mounted" /\ Vzctl("stop", "stopped", "sync2", "undo_quota_on")
    \/ state = "stopped" /\ Skip("stop", "sync2")

\* Mutant: the source is left as it is.
undo_source_stage_None == "undo_quota_on"

undo_source_stage == IF Live THEN "undo_copy_dump" ELSE "undo_stop"

\* Mutant: one rsync only.
sync2_Dropped == Skip("sync2", "quotadump")

\* The second rsync, with the container down.
sync2 ==
    \/ state = "running" /\ ~Ploop /\ Rsync("sync2", 0, "quotadump", undo_source_stage)
    \/ ~(state = "running" /\ ~Ploop) /\ Skip("sync2", "quotadump")

\* The second level quota.
AfterQuota == IF Live THEN "resume" ELSE "start"
Quota2 ==
    \/ Quota /\ Local("quotadump", {"quotadump"}, "copyquota", "undo_quota_dump")
    \/ ~Quota /\ Skip("quotadump", AfterQuota)
    \/ Scp("copyquota", "quotadump", "loadquota", "undo_quota_dump")
    \/ Remote("loadquota", {}, AfterQuota, "undo_copy_quota")

\* Mutant: the source is not resumed, as in the migration this clones.
resume_Dropped == Skip("resume", "undump")

\* vzctl chkpnt --resume of the source; a failure is only reported.
resume ==
    /\ pc = "resume"
    /\ Recover("running")
    /\ Go("undump")
    /\ UNCHANGED <<script, disk, top, files, image, target>>

\* Mutant: the exit status is not looked at.
Clone_Unchecked(at, from, s, next, undo) ==
    /\ pc = at
    /\ clone' \in {clone, s} /\ Go(next)
    /\ UNCHANGED <<script, stuck, source, dst, copy, orphans>>

\* vzctl on the target takes the container, whose configuration it needs, from
\* one status to the next; as for Remote, it may be reported failed after that.
Clone(at, from, s, next, undo) ==
    /\ pc = at
    /\ \/ clone = from /\ "conf" \in dst /\ clone' = s /\ Go(next) /\ UNCHANGED orphans
       \/ Abort(undo) /\ UNCHANGED <<clone, orphans>>
       \/ /\ clone = from /\ "conf" \in dst /\ clone' = s
          /\ orphans' = orphans \cup {"clone"} /\ Abort(undo)
    /\ UNCHANGED <<script, stuck, source, dst, copy>>

\* Mutant: a clone that could not be resumed is not killed.
Start_NoKill ==
    \/ Clone("undump", "none", "undumped", "restore", "undo_copy_quota")
    \/ Clone("restore", "undumped", "running", "clean", "undo_copy_quota")

Start ==
    \/ Clone("undump", "none", "undumped", "restore", "undo_copy_quota")
    \/ Clone("restore", "undumped", "running", "clean", "undo_undump")
    \/ state # "stopped" /\ Clone("start", "none", state, "done", "undo_copy_quota")
    \/ /\ state = "stopped" /\ Quota /\ pc = "start"
       /\ \/ dst' = dst \ {"quotaOn"} /\ Go("done")
          \/ dst' \in {dst, dst \ {"quotaOn"}} /\ Abort("undo_copy_quota")
       /\ UNCHANGED <<script, stuck, source, copy, clone, orphans>>
    \/ state = "stopped" /\ ~Quota /\ Skip("start", "done")

\* The dump is removed from both hosts.
clean ==
    /\ pc = "clean"
    /\ files' = files \ {"dump"}
    /\ dst' \in {dst, dst \ {"dump"}}
    /\ Go("done")
    /\ UNCHANGED <<script, stuck, src, disk, top, image, copy, clone, orphans>>

----------------------------------------------------------------------------
(* The chain of undo functions.                                            *)

\* An undo function that removes things from the target.  Whether it did is not
\* looked at; a removal that breaks off may have torn the private area.
Removes(f, things, next) ==
    /\ pc = f
    /\ \/ /\ dst' = dst \ things /\ orphans' = orphans \ things
          /\ copy' = IF "private" \in things THEN NoFiles ELSE copy
       \/ /\ orphans' = orphans \cup (things \cap dst \cap Tracked) /\ UNCHANGED dst
          /\ copy' \in {copy, IF "private" \in things THEN NoFiles ELSE copy}
    /\ Go(next)
    /\ UNCHANGED <<script, stuck, source, clone>>

\* One that works on the source host.
Restores(f, s, file, next) ==
    /\ pc = f
    /\ Recover(s)
    /\ files' = files \ file
    /\ Go(next)
    /\ UNCHANGED <<script, disk, top, image, target>>

undo_undump ==
    /\ pc = "undo_undump"
    /\ \/ clone' = "none" /\ orphans' = orphans \ {"clone"}
       \/ orphans' = orphans \cup {"clone"} /\ UNCHANGED clone
    /\ Go("undo_copy_quota")
    /\ UNCHANGED <<script, stuck, source, dst, copy>>

Undoing ==
    \/ undo_undump
    \/ Removes("undo_copy_quota", {"quotadump"}, "undo_quota_dump")
    \/ Restores("undo_quota_dump", src, {"quotadump"}, undo_source_stage)
    \/ Removes("undo_copy_dump", {"dump"}, "undo_suspend")
    \/ Restores("undo_dump", src, {"dump"}, "undo_suspend")
    \/ Restores("undo_suspend", IF src = "suspended" THEN "running" ELSE src,
                {}, "undo_quota_on")
    \/ Restores("undo_stop", state, {}, "undo_quota_on")
    \/ Removes("undo_quota_on", IF Quota THEN {"quotaOn"} ELSE {}, "undo_quota_init")
    \/ Removes("undo_quota_init", IF Quota THEN {"quotaInit"} ELSE {}, "undo_root")
    \/ Removes("undo_root", {"root"}, "undo_private")
    \/ Removes("undo_private", IF Has("keep") THEN {} ELSE {"private"}, "undo_act_scripts")
    \/ Removes("undo_act_scripts", IF Has("scripts") THEN {"scripts"} ELSE {}, "undo_conf")
    \/ Removes("undo_conf", {"conf"}, ret)

----------------------------------------------------------------------------
(* Around the script.                                                      *)

Script ==
    \/ check \/ Prepare \/ Compact \/ Snapshot \/ sync \/ Suspend \/ Stop \/ sync2
    \/ Quota2 \/ resume \/ Start \/ clean \/ Undoing

\* A running container writes to its files.
Write ==
    /\ src = "running" /\ disk[top] < MaxVersion
    /\ disk' = [disk EXCEPT ![top] = @ + 1]
    /\ UNCHANGED <<script, pc, ret, stuck, src, top, files, image, target>>

\* After an error or a refusal the operator starts the script again.
Again ==
    /\ pc \in {"failed", "refused"} /\ ~stuck
    /\ pc' = "check" /\ ret' = "failed"
    /\ UNCHANGED <<script, stuck, source, target>>

Next == Script \/ Write \/ Again

Spec == Init /\ [][Next]_vars
FairSpec == Spec /\ WF_vars(Script)

----------------------------------------------------------------------------
(* Properties.                                                             *)

\* After an error, at whatever step and with whatever undo functions reaching
\* the target, the container on the source host has the status it had at the
\* start; after --live it runs on.  Only vzctl itself, when it fails and leaves
\* the container in another status, is an excuse.
SourceRestored ==
    /\ pc \in {"failed", "refused"} => src = state \/ stuck
    /\ pc = "done" /\ Live => src = "running" \/ stuck

\* A container that is there on the target has its files and configuration: no
\* undo function takes them away before undo_undump has ended it, whatever
\* failed and however often the script was started again; but for a container
\* of which the script was told that it could not be undumped or started, or
\* that undo_undump did not reach.
CloneComplete == clone # "none" => {"conf", "private"} \subseteq dst \/ "clone" \in orphans

\* An attempt that gets past the checks finds no quota and no container of an
\* earlier one, but for those that the earlier one did not know of or could not
\* remove; and one that fails is not the reason for which the next is refused,
\* unless its private area could not be removed, or was to be kept.
Retryable ==
    /\ pc = "conf" => /\ dst \cap {"quotaInit", "quotaOn"} \subseteq orphans
                      /\ clone = "none" \/ "clone" \in orphans
    /\ pc = "failed" /\ ~Has("keep") =>
           ~({"conf", "private"} \subseteq dst) \/ "private" \in orphans

\* paper/clone.tex:110: the second rsync, or the copy of the top delta, brings
\* both containers to the same state.
SameState == (clone # "none" /\ "clone" \notin orphans) \/ pc = "done" => copy = image

\* That holds of every clone the script knows of, unless a snapshot was taken
\* after the script looked up which delta is the top one.
CloneSameState == known \in {0, top} => SameState

\* At the end the target has what it takes to be the clone, in the status the
\* container had; unless compacting or the snapshot failed, after which the
\* script goes on with the target undone.
CloneThere ==
    pc = "done" /\ ret = "failed" =>
        /\ {"conf", "root", "private"} \subseteq dst
        /\ clone = IF state = "stopped" THEN "none" ELSE state

\* The script never leaves the source suspended, unless vzctl cannot resume it.
SourceResumes == src = "suspended" ~> (src = "running" \/ stuck)
=============================================================================
