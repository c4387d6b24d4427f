--------------------------- MODULE VzCloneProofs ---------------------------
(***************************************************************************)
(* Theorems about VzClone, for every set of options and every bound.       *)
(***************************************************************************)
EXTENDS VzClone, TLAPS

----------------------------------------------------------------------------
(* The phases of the script.                                               *)

\* Before the container on the source host is touched.
First == {"conf", "apply", "scripts", "root", "private"}
Early == First \cup {"quotainit", "quotaon", "compact", "snapshot", "sync"}

\* With it down: of --live, and otherwise.
DownLive == {"dump", "copydump", "sync2", "quotadump", "copyquota", "loadquota", "resume"}
Down == DownLive \cup {"umount", "start"}

\* Those of one kind only.
OnlyLive == {"suspend", "dump", "copydump", "resume", "undump", "restore", "clean",
             "undo_suspend", "undo_dump", "undo_copy_dump", "undo_undump"}
OnlyStopped == {"stop", "umount", "start", "undo_stop"}

\* The end of the chain of undo functions, once the source is as it was, and
\* the part of it that is called when compacting or the snapshot fails.
UndoRoot == {"undo_root", "undo_private", "undo_act_scripts", "undo_conf"}
UndoTarget == {"undo_quota_on", "undo_quota_init"} \cup UndoRoot

\* Before the clone is made, and after things are in place for it.
NoClone == Early \cup Down \cup {"suspend", "stop", "undump"}
AfterSync == {"suspend", "stop", "undump", "restore", "clean", "done"} \cup Down
AfterSnapshot == {"snapshot", "sync"} \cup AfterSync
AfterPrivate == {"quotainit", "quotaon", "compact"} \cup AfterSnapshot

\* Before the private area is made, and after it is undone.
NoPrivate == First \cup {"check", "undo_act_scripts", "undo_conf", "failed", "refused"}

----------------------------------------------------------------------------
(* The source host.                                                        *)

SourceInv ==
    /\ pc \in Early \cup {"check", "suspend", "stop"} => src = state /\ ~stuck
    /\ pc \in UndoTarget \cup {"failed", "refused"} => src = state \/ stuck
    /\ pc \in UndoRoot /\ ret # "failed" => src = state /\ ~stuck
    /\ pc \in OnlyLive => Live
    /\ pc \in OnlyStopped => ~Live
    /\ pc = "umount" => state = "running"
    /\ Live /\ pc \notin {"check", "refused"} => state = "running"
    /\ Live /\ pc \in DownLive => src = "suspended"
    /\ Live /\ pc \in {"undump", "restore", "clean", "done"} => src = "running" \/ stuck
    /\ Live /\ pc \in Undo => src \in {"suspended", "running"} \/ stuck
    /\ state # "running" => src # "running"

----------------------------------------------------------------------------
(* The target host.                                                        *)

Quotas == {"quotaInit", "quotaOn"}

\* The script goes on after an undo only when compacting or a snapshot failed.
ReturnInv ==
    ret # "failed" => /\ Ploop /\ (Has("compact") \/ Has("snapshot"))
                      /\ pc \in UndoRoot \cup AfterSnapshot

\* What is in place.
PlacedInv ==
    /\ ret = "failed" =>
         /\ pc \in (First \ {"conf"}) \cup AfterPrivate => "conf" \in dst
         /\ pc \in {"private"} \cup AfterPrivate => "root" \in dst
         /\ pc \in AfterPrivate => "private" \in dst
    /\ pc \in AfterSync => "private" \in dst

\* There is no clone the script knows of before it is made, or when an undo
\* function takes away what it needs.
CloneInv ==
    /\ pc \in NoClone \cup (Undo \ {"undo_undump"}) \cup {"check", "failed", "refused"} =>
           clone = "none" \/ "clone" \in orphans
    /\ pc = "restore" => clone # "none"
    /\ pc = "clean" => clone = "running"
    /\ clone # "none" => state # "stopped"
    /\ CloneComplete
    /\ CloneThere

\* The quota is gone before the private area and the configuration are.
QuotaInv ==
    /\ dst \cap Quotas # {} => Quota
    /\ pc \in NoPrivate \cup UndoRoot \cup {"quotainit"} => dst \cap Quotas \subseteq orphans
    /\ pc \in {"quotaon", "undo_quota_init"} /\ "quotaOn" \in dst => "quotaOn" \in orphans

\* The private area is gone before the configuration is, unless it is kept.
PrivateInv ==
    ~Has("keep") /\ pc \in NoPrivate /\ "private" \in dst => "private" \in orphans

TargetInv == ReturnInv /\ PlacedInv /\ CloneInv /\ QuotaInv /\ PrivateInv

----------------------------------------------------------------------------
(* The content of the private area.                                        *)

Looked == known \in {0, top}

ContentInv ==
    /\ src # "running" => image = disk
    /\ ~Ploop \/ state # "running" => known = 0 \/ pc \in {"check", "refused", "failed"}
    /\ Ploop /\ state = "running" /\ (pc \in NoClone \/ ret # "failed") => known # 0
    /\ pc \in Down => src # "running"
    /\ Looked =>
         /\ pc \in {"suspend", "stop"} =>
              /\ state # "running" => copy = disk
              /\ Ploop => \A d \in Delta \ {top} : copy[d] = disk[d]
         /\ pc \in {"dump", "copydump", "umount", "sync2"} /\ (Ploop \/ state # "running") =>
              copy = disk
         /\ pc \in {"quotadump", "copyquota", "loadquota", "resume", "start"} => copy = disk
         /\ pc \in {"undump", "restore", "clean", "undo_undump"} => copy = image
    /\ CloneSameState

IInv == TypeOK /\ SourceInv /\ TargetInv /\ ContentInv
----------------------------------------------------------------------------
(* Types.  One lemma for each form of step.                                *)

LEMMA OneDelta ==
  ASSUME NEW f \in Content, NEW d \in Delta \cup {0}, NEW v \in 0 .. MaxVersion
  PROVE  [f EXCEPT ![d] = v] \in Content
BY DEF Content

LEMMA SkipType ==
  ASSUME TypeOK, NEW at, NEW next \in Step,
         Skip(at, next)
  PROVE  TypeOK'
BY DEF Skip, Go,
   TypeOK, Step, script, source, target

LEMMA RemoteType ==
  ASSUME TypeOK, NEW at, NEW things \in SUBSET Kept, NEW next \in Step, NEW undo \in Step,
         Remote(at, things, next, undo)
  PROVE  TypeOK'
BY ZenonT(60) DEF Remote, Go, Abort,
   TypeOK, Step, script, source, target

LEMMA ScpType ==
  ASSUME TypeOK, NEW at, NEW file \in Kept, NEW next \in Step, NEW undo \in Step,
         Scp(at, file, next, undo)
  PROVE  TypeOK'
BY DEF Scp, Go, Abort,
   TypeOK, Step, script, source, target

LEMMA LocalType ==
  ASSUME TypeOK, NEW at, NEW file \in SUBSET {"dump", "quotadump"}, NEW next \in Step, NEW undo \in Step,
         Local(at, file, next, undo)
  PROVE  TypeOK'
BY ZenonT(60) DEF Local, Go, Abort,
   TypeOK, Step, script, source, target

LEMMA VzctlType ==
  ASSUME TypeOK, NEW at, NEW s \in Status \cup {"suspended"}, NEW next \in Step, NEW undo \in Step,
         Vzctl(at, s, next, undo)
  PROVE  TypeOK'
BY ZenonT(60) DEF Vzctl, Go, Abort,
   TypeOK, Step, script, source, target

LEMMA CloneType ==
  ASSUME TypeOK, NEW at, NEW from, NEW s \in {"undumped", "running", "mounted"}, NEW next \in Step, NEW undo \in Step,
         Clone(at, from, s, next, undo)
  PROVE  TypeOK'
BY ZenonT(60) DEF Clone, Tracked, Go, Abort,
   TypeOK, Step, script, source, target

LEMMA RemovesType ==
  ASSUME TypeOK, NEW at, NEW things, NEW next \in Step \cup {ret},
         Removes(at, things, next)
  PROVE  TypeOK'
<1>1. NoFiles \in Content
  BY BoundsAssumption DEF NoFiles, Content
<1>2. ret \in Step
  BY DEF TypeOK, Step
<1>3. QED
  BY <1>1, <1>2 DEF Removes, Go, TypeOK, Step, script, source, target

LEMMA RestoresType ==
  ASSUME TypeOK, NEW at, NEW s \in Status \cup {"suspended"}, NEW file, NEW next \in Step,
         Restores(at, s, file, next)
  PROVE  TypeOK'
<1>1. src' \in Status \cup {"suspended"} /\ stuck' \in BOOLEAN
  BY DEF Restores, Recover, TypeOK
<1>2. files' \in SUBSET {"dump", "quotadump"}
  BY DEF Restores, TypeOK
<1>3. QED
  BY <1>1, <1>2 DEF Restores, Go, TypeOK, Step, script, source, target

LEMMA RsyncType ==
  ASSUME TypeOK, NEW at, NEW excluded, NEW next \in Step, NEW undo \in Step,
         Rsync(at, excluded, next, undo)
  PROVE  TypeOK'
<1>1. NoFiles \in Content
  BY BoundsAssumption DEF NoFiles, Content
<1>2. copy' \in Content
  BY <1>1 DEF Rsync, TypeOK
<1>3. QED
  BY <1>2, ZenonT(60) DEF Rsync, Go, Abort, Kept, TypeOK, Step, script, source, target

LEMMA ploop_copyType ==
  ASSUME TypeOK, NEW at, NEW s \in {"suspended", "mounted"}, NEW next \in Step, NEW undo \in Step,
         ploop_copy(at, s, next, undo)
  PROVE  TypeOK'
<1>1. disk[top] \in 0 .. MaxVersion
  BY DEF TypeOK, Content
<1>2. [copy EXCEPT ![known] = disk[top]] \in Content
  BY <1>1, OneDelta DEF TypeOK
<1>3. QED
  BY <1>2, ZenonT(60) DEF ploop_copy, Go, Abort, Status, TypeOK, Step, script, source, target

LEMMA umountType ==
  ASSUME TypeOK, umount
  PROVE  TypeOK'
BY ZenonT(60) DEF umount, Recover, Go, Abort, Undo, Status,
   TypeOK, Step, script, source, target

LEMMA SnapshotType ==
  ASSUME TypeOK, Snapshot
  PROVE  TypeOK'
<1>1. CASE ~(Ploop /\ Has("snapshot")) /\ Skip("snapshot", "sync")
  BY <1>1, SkipType DEF Step
<1>2. CASE Ploop /\ Has("snapshot")
  <2>1. CASE top < MaxTop
    <3>1. top + 1 \in Delta /\ 1 \in 0 .. MaxVersion
      BY <2>1, BoundsAssumption DEF TypeOK, Delta
    <3>2. [disk EXCEPT ![top + 1] = 1] \in Content
      BY <3>1, OneDelta DEF TypeOK
    <3>3. QED
      BY <1>2, <3>1, <3>2, ZenonT(60) DEF Snapshot, Skip, Go, Undo, TypeOK, Step, script, source, target
  <2>2. CASE ~(top < MaxTop)
    BY <1>2, <2>2 DEF Snapshot, Skip, Go, Undo, TypeOK, Step, script, source, target
  <2>3. QED
    BY <2>1, <2>2
<1>3. QED
  BY <1>1, <1>2 DEF Snapshot

LEMMA WriteType ==
  ASSUME TypeOK, Write
  PROVE  TypeOK'
<1>1. disk[top] + 1 \in 0 .. MaxVersion
  BY BoundsAssumption DEF TypeOK, Write, Content
<1>2. disk' \in Content
  BY <1>1, OneDelta DEF TypeOK, Write
<1>3. QED
  BY <1>2 DEF Write, TypeOK, Step, script, source, target

\* At the check the status looked up is that of the container.
LEMMA TypeStep == TypeOK /\ SourceInv /\ [Next]_vars => TypeOK'
<1>1. ASSUME TypeOK, SourceInv, check PROVE TypeOK'
  BY <1>1 DEF check, Go, Abort, SourceInv, TypeOK, Step, script, source, target
<1>2. ASSUME TypeOK, Prepare PROVE TypeOK'
  BY <1>2, ScpType, RemoteType, SkipType, ZenonT(60) DEF Prepare, Kept, Step, Undo
<1>3. ASSUME TypeOK, Compact PROVE TypeOK'
  BY <1>3, ZenonT(60) DEF Compact, Skip, Go, Undo, TypeOK, Step, script, source, target
<1>4. ASSUME TypeOK, sync PROVE TypeOK'
  BY <1>4, RsyncType DEF sync, Step, Undo
<1>5. ASSUME TypeOK, Suspend PROVE TypeOK'
  BY <1>5, VzctlType, ploop_copyType, LocalType, ScpType
     DEF Suspend, Kept, Status, Step, Undo
<1>6. ASSUME TypeOK, Stop PROVE TypeOK'
  BY <1>6, VzctlType, umountType, ploop_copyType, SkipType DEF Stop, Status, Step, Undo
<1>7. ASSUME TypeOK, sync2 PROVE TypeOK'
  BY <1>7, RsyncType, SkipType DEF sync2, undo_source_stage, Step, Undo
<1>8. ASSUME TypeOK, Quota2 PROVE TypeOK'
  BY <1>8, LocalType, ScpType, RemoteType, SkipType
     DEF Quota2, AfterQuota, Kept, Step, Undo
<1>9. ASSUME TypeOK, resume PROVE TypeOK'
  BY <1>9, ZenonT(60) DEF resume, Recover, Go, Status, TypeOK, Step, script, source, target
<1>10. ASSUME TypeOK, Start PROVE TypeOK'
  <2>1. ASSUME NEW at, NEW from, NEW s \in {"undumped", "running", "mounted"},
               NEW next \in Step, NEW undo \in Step, Clone(at, from, s, next, undo)
        PROVE  TypeOK'
    BY <1>10, <2>1, CloneType
  <2>2. state # "stopped" => state \in {"undumped", "running", "mounted"}
    BY <1>10 DEF TypeOK, Status
  <2>3. CASE /\ state = "stopped" /\ Quota /\ pc = "start"
             /\ \/ dst' = dst \ {"quotaOn"} /\ Go("done")
                \/ dst' \in {dst, dst \ {"quotaOn"}} /\ Abort("undo_copy_quota")
             /\ UNCHANGED <<script, stuck, source, copy, clone, orphans>>
    <3>1. dst' \in SUBSET Kept
      BY <1>10, <2>3 DEF TypeOK
    <3>2. QED
      BY <1>10, <2>3, <3>1 DEF Go, Abort, Undo, TypeOK, Step, script, source, target
  <2>4. ASSUME Skip("start", "done") PROVE TypeOK'
    BY <1>10, <2>4, SkipType DEF Step
  <2>5. {"restore", "clean", "done", "undo_copy_quota", "undo_undump"} \subseteq Step
    BY DEF Step, Undo
  <2>6. QED
    BY <1>10, <2>1, <2>2, <2>3, <2>4, <2>5 DEF Start
<1>11. ASSUME TypeOK, clean PROVE TypeOK'
  BY <1>11 DEF clean, Go, TypeOK, Step, script, source, target
<1>12. ASSUME TypeOK, Undoing PROVE TypeOK'
  <2>1. ASSUME undo_undump PROVE TypeOK'
    BY <1>12, <2>1 DEF undo_undump, Tracked, Go, Undo, TypeOK, Step, script, source, target
  <2>2. ASSUME NEW at, NEW things, NEW next \in Undo, Removes(at, things, next)
        PROVE  TypeOK'
    BY <1>12, <2>2, RemovesType DEF Step
  <2>3. ASSUME NEW at, NEW things, Removes(at, things, ret)
        PROVE  TypeOK'
    BY <1>12, <2>3, RemovesType
  <2>4. ASSUME NEW at, NEW s \in Status \cup {"suspended"}, NEW file, NEW next \in Undo,
               Restores(at, s, file, next)
        PROVE  TypeOK'
    BY <1>12, <2>4, RestoresType DEF Step
  <2>5. undo_source_stage \in Undo
    BY DEF undo_source_stage, Undo
  <2>6. /\ src \in Status \cup {"suspended"}
        /\ state \in Status \cup {"suspended"}
        /\ (IF src = "suspended" THEN "running" ELSE src) \in Status \cup {"suspended"}
    BY <1>12 DEF TypeOK, Status
  <2>7. QED
    BY <1>12, <2>1, <2>2, <2>3, <2>4, <2>5, <2>6 DEF Undoing, Undo
<1>13. ASSUME TypeOK, Again PROVE TypeOK'
  BY <1>13 DEF Again, TypeOK, Step, script, source, target
<1>14. ASSUME TypeOK, UNCHANGED vars PROVE TypeOK'
  BY <1>14 DEF vars, TypeOK, Step, script, source, target
<1>15. QED
  BY <1>1, <1>2, <1>3, <1>4, <1>5, <1>6, <1>7, <1>8, <1>9, <1>10, <1>11,
     <1>12, <1>13, <1>14, SnapshotType, WriteType DEF Next, Script

----------------------------------------------------------------------------
(* What the steps keep.                                                    *)

\* The script comes back from the undo functions only to go on after Compact
\* or Snapshot.
LEMMA ReturnStep == TypeOK /\ ReturnInv /\ [Next]_vars => ReturnInv'
<1> DEFINE Hyp == TypeOK /\ ReturnInv
<1> USE DEF script, source, target, Live, Ploop, Quota, Has,
    TypeOK, ReturnInv, Step, Undo, UndoRoot, AfterSnapshot, AfterSync, Down, DownLive
<1>1. ASSUME Hyp, check PROVE ReturnInv'
  BY <1>1 DEF check, Go, Abort
<1>2. ASSUME Hyp, Prepare PROVE ReturnInv'
  BY <1>2 DEF Prepare, Scp, Remote, Skip, Go, Abort
<1>3. ASSUME Hyp, Compact PROVE ReturnInv'
  BY <1>3 DEF Compact, Skip, Go
<1>4. ASSUME Hyp, Snapshot PROVE ReturnInv'
  BY <1>4 DEF Snapshot, Skip, Go
<1>5. ASSUME Hyp, sync PROVE ReturnInv'
  BY <1>5 DEF sync, Rsync, Found, Go, Abort
<1>6. ASSUME Hyp, Suspend PROVE ReturnInv'
  BY <1>6 DEF Suspend, Vzctl, Recover, ploop_copy, Local, Scp, Go, Abort
<1>7. ASSUME Hyp, Stop PROVE ReturnInv'
  BY <1>7 DEF Stop, umount, Vzctl, Recover, ploop_copy, Skip, Go, Abort
<1>8. ASSUME Hyp, sync2 PROVE ReturnInv'
  BY <1>8 DEF sync2, Rsync, Found, undo_source_stage, Skip, Go, Abort
<1>9. ASSUME Hyp, Quota2 PROVE ReturnInv'
  BY <1>9 DEF Quota2, AfterQuota, Local, Scp, Remote, Skip, Go, Abort
<1>10. ASSUME Hyp, resume PROVE ReturnInv'
  BY <1>10 DEF resume, Recover, Go
<1>11. ASSUME Hyp, Start PROVE ReturnInv'
  BY <1>11 DEF Start, Clone, Skip, Go, Abort
<1>12. ASSUME Hyp, clean PROVE ReturnInv'
  BY <1>12 DEF clean, Go
<1>13. ASSUME Hyp, Undoing PROVE ReturnInv'
  BY <1>13 DEF Undoing, undo_undump, Removes, Restores, Recover,
      undo_source_stage, Go
<1>14. ASSUME Hyp, Write PROVE ReturnInv'
  BY <1>14 DEF Write
<1>15. ASSUME Hyp, Again PROVE ReturnInv'
  BY <1>15 DEF Again
<1>16. ASSUME Hyp, UNCHANGED vars PROVE ReturnInv'
  BY <1>16 DEF vars
<1>17. QED
  BY <1>1, <1>2, <1>3, <1>4, <1>5, <1>6, <1>7, <1>8, <1>9, <1>10, <1>11, <1>12, <1>13, <1>14, <1>15, <1>16
     DEF Next, Script

\* Every step leaves the source with its status, or on its way back to it.
LEMMA SourceStep == TypeOK /\ ReturnInv /\ SourceInv /\ [Next]_vars => SourceInv'
<1> DEFINE Hyp == TypeOK /\ ReturnInv /\ SourceInv
<1> USE DEF script, source, target, Live, Ploop, Quota, Has,
    TypeOK, ReturnInv, AfterSnapshot, AfterSync, Down, SourceInv, Status, Step, Undo, Early, First, DownLive, OnlyLive, OnlyStopped, UndoTarget, UndoRoot
<1>1. ASSUME Hyp, check PROVE SourceInv'
  BY <1>1 DEF check, Go, Abort
<1>2. ASSUME Hyp, Prepare PROVE SourceInv'
  BY <1>2 DEF Prepare, Scp, Remote, Skip, Go, Abort
<1>3. ASSUME Hyp, Compact PROVE SourceInv'
  BY <1>3 DEF Compact, Skip, Go
<1>4. ASSUME Hyp, Snapshot PROVE SourceInv'
  BY <1>4 DEF Snapshot, Skip, Go
<1>5. ASSUME Hyp, sync PROVE SourceInv'
  BY <1>5 DEF sync, Rsync, Found, Go, Abort
<1>6. ASSUME Hyp, Suspend PROVE SourceInv'
  BY <1>6 DEF Suspend, Vzctl, Recover, ploop_copy, Local, Scp, Go, Abort
<1>7. ASSUME Hyp, Stop PROVE SourceInv'
  BY <1>7 DEF Stop, umount, Vzctl, Recover, ploop_copy, Skip, Go, Abort
<1>8. ASSUME Hyp, sync2 PROVE SourceInv'
  BY <1>8 DEF sync2, Rsync, Found, undo_source_stage, Skip, Go, Abort
<1>9. ASSUME Hyp, Quota2 PROVE SourceInv'
  BY <1>9 DEF Quota2, AfterQuota, Local, Scp, Remote, Skip, Go, Abort
<1>10. ASSUME Hyp, resume PROVE SourceInv'
  BY <1>10 DEF resume, Recover, Go
<1>11. ASSUME Hyp, Start PROVE SourceInv'
  BY <1>11 DEF Start, Clone, Skip, Go, Abort
<1>12. ASSUME Hyp, clean PROVE SourceInv'
  BY <1>12 DEF clean, Go
<1>13. ASSUME Hyp, Undoing PROVE SourceInv'
  BY <1>13 DEF Undoing, undo_undump, Removes, Restores, Recover,
      undo_source_stage, Go
<1>14. ASSUME Hyp, Write PROVE SourceInv'
  BY <1>14 DEF Write
<1>15. ASSUME Hyp, Again PROVE SourceInv'
  BY <1>15 DEF Again
<1>16. ASSUME Hyp, UNCHANGED vars PROVE SourceInv'
  BY <1>16 DEF vars
<1>17. QED
  BY <1>1, <1>2, <1>3, <1>4, <1>5, <1>6, <1>7, <1>8, <1>9, <1>10, <1>11, <1>12, <1>13, <1>14, <1>15, <1>16
     DEF Next, Script

\* No step, but for the undo functions, takes away what the clone needs.
LEMMA PlacedStep == TypeOK /\ ReturnInv /\ PlacedInv /\ [Next]_vars => PlacedInv'
<1> DEFINE Hyp == TypeOK /\ ReturnInv /\ PlacedInv
<1> USE DEF script, source, target, Live, Ploop, Quota, Has,
    TypeOK, ReturnInv, PlacedInv, Step, Undo, First, UndoRoot, AfterPrivate, AfterSnapshot, AfterSync, Down, DownLive
<1>1. ASSUME Hyp, check PROVE PlacedInv'
  BY <1>1 DEF check, Go, Abort
<1>2. ASSUME Hyp, Prepare PROVE PlacedInv'
  BY <1>2 DEF Prepare, Scp, Remote, Skip, Go, Abort
<1>3. ASSUME Hyp, Compact PROVE PlacedInv'
  BY <1>3 DEF Compact, Skip, Go
<1>4. ASSUME Hyp, Snapshot PROVE PlacedInv'
  BY <1>4 DEF Snapshot, Skip, Go
<1>5. ASSUME Hyp, sync PROVE PlacedInv'
  BY <1>5 DEF sync, Rsync, Found, Go, Abort
<1>6. ASSUME Hyp, Suspend PROVE PlacedInv'
  BY <1>6 DEF Suspend, Vzctl, Recover, ploop_copy, Local, Scp, Go, Abort
<1>7. ASSUME Hyp, Stop PROVE PlacedInv'
  BY <1>7 DEF Stop, umount, Vzctl, Recover, ploop_copy, Skip, Go, Abort
<1>8. ASSUME Hyp, sync2 PROVE PlacedInv'
  BY <1>8 DEF sync2, Rsync, Found, undo_source_stage, Skip, Go, Abort
<1>9. ASSUME Hyp, Quota2 PROVE PlacedInv'
  BY <1>9 DEF Quota2, AfterQuota, Local, Scp, Remote, Skip, Go, Abort
<1>10. ASSUME Hyp, resume PROVE PlacedInv'
  BY <1>10 DEF resume, Recover, Go
<1>11. ASSUME Hyp, Start PROVE PlacedInv'
  BY <1>11 DEF Start, Clone, Skip, Go, Abort
<1>12. ASSUME Hyp, clean PROVE PlacedInv'
  BY <1>12 DEF clean, Go
<1>13. ASSUME Hyp, Undoing PROVE PlacedInv'
  BY <1>13 DEF Undoing, undo_undump, Removes, Restores, Recover,
      undo_source_stage, Go
<1>14. ASSUME Hyp, Write PROVE PlacedInv'
  BY <1>14 DEF Write
<1>15. ASSUME Hyp, Again PROVE PlacedInv'
  BY <1>15 DEF Again
<1>16. ASSUME Hyp, UNCHANGED vars PROVE PlacedInv'
  BY <1>16 DEF vars
<1>17. QED
  BY <1>1, <1>2, <1>3, <1>4, <1>5, <1>6, <1>7, <1>8, <1>9, <1>10, <1>11, <1>12, <1>13, <1>14, <1>15, <1>16
     DEF Next, Script

\* A clone is made only of what is in place, and outlives its files never.
LEMMA CloneStep == TypeOK /\ SourceInv /\ ReturnInv /\ PlacedInv /\ CloneInv /\ [Next]_vars => CloneInv'
<1> DEFINE Hyp == TypeOK /\ SourceInv /\ ReturnInv /\ PlacedInv /\ CloneInv
<1> USE DEF script, source, target, Live, Ploop, Quota, Has,
    TypeOK, SourceInv, ReturnInv, PlacedInv, CloneInv, CloneComplete, CloneThere, NoClone, Early, First, OnlyLive, OnlyStopped, Step, Undo, UndoRoot, AfterPrivate, AfterSnapshot, AfterSync, Down, DownLive
<1>1. ASSUME Hyp, check PROVE CloneInv'
  BY <1>1 DEF check, Go, Abort
<1>2. ASSUME Hyp, Prepare PROVE CloneInv'
  BY <1>2 DEF Prepare, Scp, Remote, Skip, Go, Abort
<1>3. ASSUME Hyp, Compact PROVE CloneInv'
  BY <1>3 DEF Compact, Skip, Go
<1>4. ASSUME Hyp, Snapshot PROVE CloneInv'
  BY <1>4 DEF Snapshot, Skip, Go
<1>5. ASSUME Hyp, sync PROVE CloneInv'
  BY <1>5 DEF sync, Rsync, Found, Go, Abort
<1>6. ASSUME Hyp, Suspend PROVE CloneInv'
  BY <1>6 DEF Suspend, Vzctl, Recover, ploop_copy, Local, Scp, Go, Abort
<1>7. ASSUME Hyp, Stop PROVE CloneInv'
  BY <1>7 DEF Stop, umount, Vzctl, Recover, ploop_copy, Skip, Go, Abort
<1>8. ASSUME Hyp, sync2 PROVE CloneInv'
  BY <1>8 DEF sync2, Rsync, Found, undo_source_stage, Skip, Go, Abort
<1>9. ASSUME Hyp, Quota2 PROVE CloneInv'
  BY <1>9 DEF Quota2, AfterQuota, Local, Scp, Remote, Skip, Go, Abort
<1>10. ASSUME Hyp, resume PROVE CloneInv'
  BY <1>10 DEF resume, Recover, Go
<1>11. ASSUME Hyp, Start PROVE CloneInv'
  BY <1>11 DEF Start, Clone, Skip, Go, Abort
<1>12. ASSUME Hyp, clean PROVE CloneInv'
  BY <1>12 DEF clean, Go
<1>13. ASSUME Hyp, Undoing PROVE CloneInv'
  BY <1>13 DEF Undoing, undo_undump, Removes, Restores, Recover,
      undo_source_stage, Go
<1>14. ASSUME Hyp, Write PROVE CloneInv'
  BY <1>14 DEF Write
<1>15. ASSUME Hyp, Again PROVE CloneInv'
  BY <1>15 DEF Again
<1>16. ASSUME Hyp, UNCHANGED vars PROVE CloneInv'
  BY <1>16 DEF vars
<1>17. QED
  BY <1>1, <1>2, <1>3, <1>4, <1>5, <1>6, <1>7, <1>8, <1>9, <1>10, <1>11, <1>12, <1>13, <1>14, <1>15, <1>16
     DEF Next, Script

\* The quota goes before the private area and the configuration do.
LEMMA QuotaStep == TypeOK /\ ReturnInv /\ PlacedInv /\ QuotaInv /\ [Next]_vars => QuotaInv'
<1> DEFINE Hyp == TypeOK /\ ReturnInv /\ PlacedInv /\ QuotaInv
<1> USE DEF script, source, target, Live, Ploop, Quota, Has,
    TypeOK, ReturnInv, PlacedInv, QuotaInv, Quotas, NoPrivate, Tracked, First, Step, Undo, UndoRoot, AfterPrivate, AfterSnapshot, AfterSync, Down, DownLive
<1>1. ASSUME Hyp, check PROVE QuotaInv'
  BY <1>1 DEF check, Go, Abort
<1>2. ASSUME Hyp, Prepare PROVE QuotaInv'
  BY <1>2 DEF Prepare, Scp, Remote, Skip, Go, Abort
<1>3. ASSUME Hyp, Compact PROVE QuotaInv'
  BY <1>3 DEF Compact, Skip, Go
<1>4. ASSUME Hyp, Snapshot PROVE QuotaInv'
  BY <1>4 DEF Snapshot, Skip, Go
<1>5. ASSUME Hyp, sync PROVE QuotaInv'
  BY <1>5 DEF sync, Rsync, Found, Go, Abort
<1>6. ASSUME Hyp, Suspend PROVE QuotaInv'
  BY <1>6 DEF Suspend, Vzctl, Recover, ploop_copy, Local, Scp, Go, Abort
<1>7. ASSUME Hyp, Stop PROVE QuotaInv'
  BY <1>7 DEF Stop, umount, Vzctl, Recover, ploop_copy, Skip, Go, Abort
<1>8. ASSUME Hyp, sync2 PROVE QuotaInv'
  BY <1>8 DEF sync2, Rsync, Found, undo_source_stage, Skip, Go, Abort
<1>9. ASSUME Hyp, Quota2 PROVE QuotaInv'
  BY <1>9 DEF Quota2, AfterQuota, Local, Scp, Remote, Skip, Go, Abort
<1>10. ASSUME Hyp, resume PROVE QuotaInv'
  BY <1>10 DEF resume, Recover, Go
<1>11. ASSUME Hyp, Start PROVE QuotaInv'
  BY <1>11 DEF Start, Clone, Skip, Go, Abort
<1>12. ASSUME Hyp, clean PROVE QuotaInv'
  BY <1>12 DEF clean, Go
<1>13. ASSUME Hyp, Undoing PROVE QuotaInv'
  BY <1>13 DEF Undoing, undo_undump, Removes, Restores, Recover,
      undo_source_stage, Go
<1>14. ASSUME Hyp, Write PROVE QuotaInv'
  BY <1>14 DEF Write
<1>15. ASSUME Hyp, Again PROVE QuotaInv'
  BY <1>15 DEF Again
<1>16. ASSUME Hyp, UNCHANGED vars PROVE QuotaInv'
  BY <1>16 DEF vars
<1>17. QED
  BY <1>1, <1>2, <1>3, <1>4, <1>5, <1>6, <1>7, <1>8, <1>9, <1>10, <1>11, <1>12, <1>13, <1>14, <1>15, <1>16
     DEF Next, Script

\* The private area goes before the configuration does.
LEMMA PrivateStep == TypeOK /\ ReturnInv /\ PlacedInv /\ PrivateInv /\ [Next]_vars => PrivateInv'
<1> DEFINE Hyp == TypeOK /\ ReturnInv /\ PlacedInv /\ PrivateInv
<1> USE DEF script, source, target, Live, Ploop, Quota, Has,
    TypeOK, ReturnInv, PlacedInv, PrivateInv, NoPrivate, Tracked, First, Step, Undo, UndoRoot, AfterPrivate, AfterSnapshot, AfterSync, Down, DownLive
<1>1. ASSUME Hyp, check PROVE PrivateInv'
  BY <1>1 DEF check, Go, Abort
<1>2. ASSUME Hyp, Prepare PROVE PrivateInv'
  BY <1>2 DEF Prepare, Scp, Remote, Skip, Go, Abort
<1>3. ASSUME Hyp, Compact PROVE PrivateInv'
  BY <1>3 DEF Compact, Skip, Go
<1>4. ASSUME Hyp, Snapshot PROVE PrivateInv'
  BY <1>4 DEF Snapshot, Skip, Go
<1>5. ASSUME Hyp, sync PROVE PrivateInv'
  BY <1>5 DEF sync, Rsync, Found, Go, Abort
<1>6. ASSUME Hyp, Suspend PROVE PrivateInv'
  BY <1>6 DEF Suspend, Vzctl, Recover, ploop_copy, Local, Scp, Go, Abort
<1>7. ASSUME Hyp, Stop PROVE PrivateInv'
  BY <1>7 DEF Stop, umount, Vzctl, Recover, ploop_copy, Skip, Go, Abort
<1>8. ASSUME Hyp, sync2 PROVE PrivateInv'
  BY <1>8 DEF sync2, Rsync, Found, undo_source_stage, Skip, Go, Abort
<1>9. ASSUME Hyp, Quota2 PROVE PrivateInv'
  BY <1>9 DEF Quota2, AfterQuota, Local, Scp, Remote, Skip, Go, Abort
<1>10. ASSUME Hyp, resume PROVE PrivateInv'
  BY <1>10 DEF resume, Recover, Go
<1>11. ASSUME Hyp, Start PROVE PrivateInv'
  BY <1>11 DEF Start, Clone, Skip, Go, Abort
<1>12. ASSUME Hyp, clean PROVE PrivateInv'
  BY <1>12 DEF clean, Go
<1>13. ASSUME Hyp, Undoing PROVE PrivateInv'
  BY <1>13 DEF Undoing, undo_undump, Removes, Restores, Recover,
      undo_source_stage, Go
<1>14. ASSUME Hyp, Write PROVE PrivateInv'
  BY <1>14 DEF Write
<1>15. ASSUME Hyp, Again PROVE PrivateInv'
  BY <1>15 DEF Again
<1>16. ASSUME Hyp, UNCHANGED vars PROVE PrivateInv'
  BY <1>16 DEF vars
<1>17. QED
  BY <1>1, <1>2, <1>3, <1>4, <1>5, <1>6, <1>7, <1>8, <1>9, <1>10, <1>11, <1>12, <1>13, <1>14, <1>15, <1>16
     DEF Next, Script

LEMMA SameContent ==
  ASSUME NEW f \in Content, NEW g \in Content, \A d \in Delta : f[d] = g[d]
  PROVE  f = g
BY DEF Content

\* What rsync leaves when it succeeds.
LEMMA Rsynced ==
  ASSUME TypeOK, NEW at, NEW excluded, NEW next, NEW undo,
         Rsync(at, excluded, next, undo), pc' # undo
  PROVE  /\ copy' \in Content
         /\ \A d \in Delta : d # excluded /\ (d # top \/ src # "running") => copy'[d] = disk[d]
         /\ pc = at /\ pc' = next
<1>1. PICK c \in Content :
         /\ \A d \in Delta : c[d] \in (IF d = excluded THEN {0} ELSE Found(d))
         /\ copy' = c /\ pc' = next
  BY DEF Rsync, Go, Abort
<1>2. \A d \in Delta : d # excluded /\ (d # top \/ src # "running") => c[d] = disk[d]
  BY <1>1 DEF Found
<1>3. QED
  BY <1>1, <1>2 DEF Rsync

\* The copy of the top delta completes the others.
LEMMA Copied ==
  ASSUME TypeOK, known = top, \A d \in Delta \ {top} : copy[d] = disk[d]
  PROVE  [copy EXCEPT ![known] = disk[top]] = disk
BY DEF TypeOK, Content

LEMMA NoDelta == 0 \notin Delta /\ (TypeOK => top # 0)
BY BoundsAssumption DEF TypeOK, Delta

\* What is copied while the container is down is what it had.
LEMMA ContentStep == TypeOK /\ ReturnInv /\ SourceInv /\ PlacedInv /\ CloneInv /\ ContentInv /\ [Next]_vars => ContentInv'
<1> DEFINE Hyp == TypeOK /\ ReturnInv /\ SourceInv /\ PlacedInv /\ CloneInv /\ ContentInv
<1> USE DEF script, source, target, Live, Ploop, Quota, Has,
    TypeOK, ReturnInv, SourceInv, CloneInv, ContentInv, CloneSameState, SameState, Looked,
    NoClone, Early, First, OnlyLive, OnlyStopped, Step, Undo, UndoRoot, AfterSnapshot, AfterSync, Down, DownLive
<1>1. ASSUME Hyp, check PROVE ContentInv'
  BY <1>1, NoDelta DEF check, Go, Abort, CloneComplete
<1>2. ASSUME Hyp, Prepare PROVE ContentInv'
  BY <1>2 DEF Prepare, Scp, Remote, Skip, Go, Abort
<1>3. ASSUME Hyp, Compact PROVE ContentInv'
  BY <1>3 DEF Compact, Skip, Go
<1>4. ASSUME Hyp, Snapshot PROVE ContentInv'
  BY <1>4 DEF Snapshot, Skip, Go
<1>5. ASSUME Hyp, sync PROVE ContentInv'
  <2>1. CASE pc' = "undo_quota_on"
    BY <1>5, <2>1 DEF sync, Rsync, Go, Abort
  <2>2. CASE pc' # "undo_quota_on"
    <3>1. /\ copy' \in Content
          /\ \A d \in Delta : d # known /\ (d # top \/ src # "running") => copy'[d] = disk[d]
          /\ pc = "sync" /\ pc' = (IF Live THEN "suspend" ELSE "stop")
      BY <1>5, <2>2, Rsynced DEF sync
    <3>2. known = 0 /\ src # "running" => copy' = disk
      BY <1>5, <3>1, SameContent, NoDelta
    <3>3. known = top => \A d \in Delta \ {top} : copy'[d] = disk[d]
      BY <3>1
    <3>4. UNCHANGED <<script, stuck, source, clone>> /\ orphans' = orphans \ {"private"}
      BY <1>5 DEF sync, Rsync
    <3>5. QED
      BY <1>5, <3>1, <3>2, <3>3, <3>4
  <2>3. QED
    BY <2>1, <2>2
<1>6. ASSUME Hyp, Suspend PROVE ContentInv'
  <2>1. CASE ploop_copy("suspend", "suspended", "dump", "undo_quota_on")
    BY <1>6, <2>1, Copied, NoDelta DEF Suspend, ploop_copy, Go, Abort
  <2>2. CASE ~ploop_copy("suspend", "suspended", "dump", "undo_quota_on")
    BY <1>6, <2>2 DEF Suspend, Vzctl, Recover, Local, Scp, Go, Abort
  <2>3. QED
    BY <2>1, <2>2
<1>7. ASSUME Hyp, Stop PROVE ContentInv'
  <2>1. CASE Ploop /\ state = "running" /\ ploop_copy("stop", "mounted", "umount", "undo_quota_on")
    BY <1>7, <2>1, Copied, NoDelta DEF Stop, ploop_copy, Go, Abort
  <2>2. CASE ~(Ploop /\ state = "running" /\ ploop_copy("stop", "mounted", "umount", "undo_quota_on"))
    BY <1>7, <2>2 DEF Stop, umount, Vzctl, Recover, Skip, Go, Abort
  <2>3. QED
    BY <2>1, <2>2
<1>8. ASSUME Hyp, sync2 PROVE ContentInv'
  <2>1. CASE Skip("sync2", "quotadump") /\ ~(state = "running" /\ ~Ploop)
    BY <1>8, <2>1 DEF Skip, Go
  <2>2. CASE Rsync("sync2", 0, "quotadump", undo_source_stage) /\ pc' = undo_source_stage
    BY <1>8, <2>2 DEF Rsync, Go, Abort, undo_source_stage
  <2>3. CASE Rsync("sync2", 0, "quotadump", undo_source_stage) /\ pc' # undo_source_stage
    <3>1. /\ copy' \in Content
          /\ \A d \in Delta : d # 0 /\ (d # top \/ src # "running") => copy'[d] = disk[d]
          /\ pc = "sync2" /\ pc' = "quotadump"
      BY <1>8, <2>3, Rsynced
    <3>2. copy' = disk
      BY <1>8, <3>1, SameContent, NoDelta
    <3>3. UNCHANGED <<script, stuck, source, clone>> /\ orphans' = orphans \ {"private"}
      BY <2>3 DEF Rsync
    <3>4. QED
      BY <1>8, <3>1, <3>2, <3>3
  <2>4. QED
    BY <1>8, <2>1, <2>2, <2>3 DEF sync2
<1>9. ASSUME Hyp, Quota2 PROVE ContentInv'
  BY <1>9 DEF Quota2, AfterQuota, Local, Scp, Remote, Skip, Go, Abort
<1>10. ASSUME Hyp, resume PROVE ContentInv'
  BY <1>10 DEF resume, Recover, Go
<1>11. ASSUME Hyp, Start PROVE ContentInv'
  BY <1>11 DEF Start, Clone, Skip, Go, Abort
<1>12. ASSUME Hyp, clean PROVE ContentInv'
  BY <1>12 DEF clean, Go
<1>13. ASSUME Hyp, Undoing PROVE ContentInv'
  BY <1>13 DEF Undoing, undo_undump, Removes, Restores, Recover,
      undo_source_stage, Go
<1>14. ASSUME Hyp, Write PROVE ContentInv'
  BY <1>14 DEF Write
<1>15. ASSUME Hyp, Again PROVE ContentInv'
  BY <1>15 DEF Again
<1>16. ASSUME Hyp, UNCHANGED vars PROVE ContentInv'
  BY <1>16 DEF vars
<1>17. QED
  BY <1>1, <1>2, <1>3, <1>4, <1>5, <1>6, <1>7, <1>8, <1>9, <1>10, <1>11, <1>12, <1>13, <1>14, <1>15, <1>16
     DEF Next, Script

----------------------------------------------------------------------------
(* The theorems.                                                           *)

LEMMA InitInv == Init => IInv
<1> SUFFICES ASSUME Init PROVE IInv
  OBVIOUS
<1>1. TypeOK
  <2>1. 1 \in Delta /\ 1 \in 0 .. MaxVersion /\ NoFiles \in Content
    BY BoundsAssumption DEF Delta, NoFiles, Content
  <2>2. [NoFiles EXCEPT ![1] = 1] \in Content
    BY <2>1, OneDelta
  <2>3. QED
    BY <2>1, <2>2 DEF Init, TypeOK, Step, Status, Kept
<1>2. SourceInv
  BY DEF Init, SourceInv, Undo, Early, First, DownLive, OnlyLive, OnlyStopped,
     UndoTarget, UndoRoot
<1>3. TargetInv
  BY DEF Init, TargetInv, ReturnInv, PlacedInv, CloneInv, CloneComplete, CloneThere,
     QuotaInv, Quotas, PrivateInv, NoPrivate, Undo, First, Early, UndoRoot, NoClone,
     AfterPrivate, AfterSnapshot, AfterSync, Down, DownLive
<1>4. ContentInv
  BY DEF Init, ContentInv, CloneSameState, SameState, NoClone, Early, First, Down, DownLive
<1>5. QED
  BY <1>1, <1>2, <1>3, <1>4 DEF IInv

LEMMA NextInv == IInv /\ [Next]_vars => IInv'
BY TypeStep, SourceStep, ReturnStep, PlacedStep, CloneStep, QuotaStep,
   PrivateStep, ContentStep DEF IInv, TargetInv

LEMMA Invariant == Spec => []IInv
BY InitInv, NextInv, PTL DEF Spec

\* The types hold, whatever the container's kind and the options.
THEOREM VzTypes == Spec => []TypeOK
<1>1. IInv => TypeOK
  BY DEF IInv
<1>2. QED
  BY <1>1, Invariant, PTL

\* Wherever the script fails, and however often it is started again, the
\* container on the source host has the status it had, or vzctl has failed to
\* bring it back.
THEOREM VzSource == Spec => []SourceRestored
<1>1. IInv => SourceRestored
  BY DEF IInv, SourceInv, SourceRestored
<1>2. QED
  BY <1>1, Invariant, PTL

\* No failure, lost answer or retry leaves a clone without its files.
THEOREM VzComplete == Spec => []CloneComplete
<1>1. IInv => CloneComplete
  BY DEF IInv, TargetInv, CloneInv
<1>2. QED
  BY <1>1, Invariant, PTL

\* What a failed attempt leaves does not spoil the next.
THEOREM VzRetryable == Spec => []Retryable
<1>1. IInv => Retryable
  BY DEF IInv, TargetInv, CloneInv, QuotaInv, Quotas, PrivateInv, NoPrivate, Retryable,
     NoClone, Early, First
<1>2. QED
  BY <1>1, Invariant, PTL

\* Without a new snapshot, the clone starts from the state the container was
\* suspended or stopped in.
THEOREM VzSameState == Spec => []CloneSameState
<1>1. IInv => CloneSameState
  BY DEF IInv, ContentInv
<1>2. QED
  BY <1>1, Invariant, PTL

\* An attempt that ends without an error has made the clone.
THEOREM VzCloneThere == Spec => []CloneThere
<1>1. IInv => CloneThere
  BY DEF IInv, TargetInv, CloneInv
<1>2. QED
  BY <1>1, Invariant, PTL

=============================================================================
