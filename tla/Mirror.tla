------------------------------- MODULE Mirror -------------------------------
(***************************************************************************)
(* What the duplicator promises about one connection, without its sockets, *)
(* processes and pipe: production reads the client's stream; the clone     *)
(* reads a copy of it, which may only skip units given up as overflow.     *)
(***************************************************************************)
EXTENDS Naturals, Sequences

VARIABLES
    sent,      \* how many units the client has written
    prod,      \* what the production server has read
    clone,     \* what the clone has read
    skipped    \* units the clone will never get

vars == <<sent, prod, clone, skipped>>

Init ==
    /\ sent = 0
    /\ prod = <<>>
    /\ clone = <<>>
    /\ skipped = {}

\* The last unit the clone has read.
Last == IF clone = <<>> THEN 0 ELSE clone[Len(clone)]

Request ==
    /\ sent' = sent + 1
    /\ UNCHANGED <<prod, clone, skipped>>

Deliver ==
    /\ Len(prod) < sent
    /\ prod' = Append(prod, Len(prod) + 1)
    /\ UNCHANGED <<sent, clone, skipped>>

\* The clone gets the next unit that is not skipped.
Copy ==
    /\ \E u \in Last + 1 .. sent :
          /\ u \notin skipped
          /\ Last + 1 .. u - 1 \subseteq skipped
          /\ clone' = Append(clone, u)
    /\ UNCHANGED <<sent, prod, skipped>>

\* The units first .. last, all beyond what the clone has, are given up.
Overflow ==
    /\ \E first, last \in Last + 1 .. sent :
          /\ first =< last
          /\ (first .. last) \cap skipped = {}
          /\ skipped' = skipped \cup (first .. last)
    /\ UNCHANGED <<sent, prod, clone>>

Next == Request \/ Deliver \/ Copy \/ Overflow

Spec == Init /\ [][Next]_vars
=============================================================================
