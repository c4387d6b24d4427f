----------------------------- MODULE MCVzClone -----------------------------
(* Small instances of VzClone.                                             *)
EXTENDS VzClone

\* The sets of options that differ: no quota with ploop, nothing to compact
\* without it; action scripts, on which nothing else depends, with --live.
Any == {o \in SUBSET OptionNames :
           /\ "quota" \in o => "ploop" \notin o
           /\ o \cap {"compact", "snapshot"} # {} => "ploop" \in o
           /\ "scripts" \in o => "live" \in o}
=============================================================================
