------------------------------ MODULE Exchange ------------------------------
(***************************************************************************)
(* What the aggregator promises, without its processes, pipes and shared   *)
(* memory.  Production connections and their backends read each other's    *)
(* streams, as if the aggregator were not there.  A connection of the      *)
(* clone is tied to a queue, which others may share, and is answered with  *)
(* replies to the production connections of that queue: no reply is played *)
(* twice, to whomever, and those of one connection are played in order.    *)
(* Replies that are given up are played to nobody.                         *)
(***************************************************************************)
EXTENDS Naturals, Sequences

CONSTANTS
    Prod,      \* the connections of the production container
    Clone,     \* the connections of the clone
    Backend,   \* Backend[a]: the backend's end of a
    Base,      \* Base[s] + n: the n-th unit that end s writes
    Queue,     \* the queues
    NoQueue    \* of a connection without one

End == Prod \cup Clone \cup {Backend[a] : a \in Prod}

VARIABLES
    sent,      \* sent[s]: how many units end s has written
    got,       \* got[s]: what it has read
    queue,     \* queue[x]: the queue connection x is tied to
    lost       \* replies given up

vars == <<sent, got, queue, lost>>

Init ==
    /\ sent = [s \in End |-> 0]
    /\ got = [s \in End |-> <<>>]
    /\ queue = [x \in Prod \cup Clone |-> NoQueue]
    /\ lost = {}

Has(s) == {got[s][i] : i \in 1 .. Len(got[s])}
Reply(a, n) == Base[Backend[a]] + n
Replies(a) == {Reply(a, n) : n \in 1 .. sent[Backend[a]]}

Write(s) ==
    /\ sent' = [sent EXCEPT ![s] = @ + 1]
    /\ UNCHANGED <<got, queue, lost>>

\* End t reads the next unit of s.
Deliver(s, t) ==
    /\ Len(got[t]) < sent[s]
    /\ got' = [got EXCEPT ![t] = Append(@, Base[s] + Len(@) + 1)]
    /\ UNCHANGED <<sent, queue, lost>>

Tie(x, q) ==
    /\ queue[x] = NoQueue
    /\ queue' = [queue EXCEPT ![x] = q]
    /\ UNCHANGED <<sent, got, lost>>

\* u comes behind every reply to a that y has read.
Follows(y, a, u) == \A v \in Has(y) \cap Replies(a) : v < u

\* A reply to a is played to y.
Play(a, y) ==
    /\ queue[a] = queue[y] /\ queue[a] # NoQueue
    /\ \E u \in Replies(a) \ lost :
          /\ \A z \in Clone : u \notin Has(z)
          /\ Follows(y, a, u)
          /\ got' = [got EXCEPT ![y] = Append(@, u)]
    /\ UNCHANGED <<sent, queue, lost>>

\* The replies first .. last to a, none of which has been played, are given up; what has
\* been played of the others came before them.
GiveUp(a) ==
    /\ \E first, last \in 1 .. sent[Backend[a]] :
          /\ first =< last
          /\ \A y \in Clone : Follows(y, a, Reply(a, first))
          /\ {Reply(a, n) : n \in first .. last} \cap lost = {}
          /\ lost' = lost \cup {Reply(a, n) : n \in first .. last}
    /\ UNCHANGED <<sent, got, queue>>

Next ==
    \/ \E s \in End : Write(s)
    \/ \E a \in Prod : Deliver(a, Backend[a]) \/ Deliver(Backend[a], a) \/ GiveUp(a)
    \/ \E x \in Prod \cup Clone, q \in Queue : Tie(x, q)
    \/ \E a \in Prod, y \in Clone : Play(a, y)

Spec == Init /\ [][Next]_vars
=============================================================================
