-------------------------- MODULE ForwarderProofs --------------------------
(***************************************************************************)
(* What holds of the forwarding loop in every proxy that is built of it:   *)
(* the types, and that a process that forwards one stream neither loses,   *)
(* repeats nor reorders a unit of it, whatever the others do.              *)
(***************************************************************************)
EXTENDS Forwarder, SequenceTheorems, TLAPS

----------------------------------------------------------------------------
(* Queues.                                                                 *)

\* What a read takes from the front of a queue and what it leaves.
LEMMA Cut ==
  ASSUME NEW q \in Seq(Nat), NEW k \in 1 .. Len(q)
  PROVE  /\ SubSeq(q, 1, k) \in Seq(Nat)
         /\ Len(SubSeq(q, 1, k)) = k
         /\ \A i \in 1 .. k : SubSeq(q, 1, k)[i] = q[i]
         /\ SubSeq(q, k + 1, Len(q)) \in Seq(Nat)
         /\ Len(SubSeq(q, k + 1, Len(q))) = Len(q) - k
         /\ \A i \in 1 .. Len(q) - k : SubSeq(q, k + 1, Len(q))[i] = q[k + i]
<1>1. /\ Len(q) \in Nat /\ k \in Int /\ k + 1 \in Int
      /\ \A i \in 1 .. Len(q) : q[i] \in Nat
  BY LenProperties, ElementOfSeq
<1>2. \A i \in 1 .. k : q[i] \in Nat
  BY <1>1
<1>3. \A i \in k + 1 .. Len(q) : q[i] \in Nat
  BY <1>1
<1>4. /\ SubSeq(q, 1, k) \in Seq(Nat)
      /\ Len(SubSeq(q, 1, k)) = IF 1 =< k THEN k - 1 + 1 ELSE 0
      /\ \A i \in 1 .. k - 1 + 1 : SubSeq(q, 1, k)[i] = q[1 + i - 1]
  BY <1>1, <1>2, SubSeqProperties
<1>5. /\ SubSeq(q, k + 1, Len(q)) \in Seq(Nat)
      /\ Len(SubSeq(q, k + 1, Len(q)))
           = IF k + 1 =< Len(q) THEN Len(q) - (k + 1) + 1 ELSE 0
      /\ \A i \in 1 .. Len(q) - (k + 1) + 1 :
            SubSeq(q, k + 1, Len(q))[i] = q[(k + 1) + i - 1]
  BY <1>1, <1>3, SubSeqProperties
<1> QED  BY <1>1, <1>4, <1>5

\* What a reset leaves of a queue.
LEMMA Prefix ==
  ASSUME NEW q \in Seq(Nat), NEW k \in 0 .. Len(q)
  PROVE  /\ SubSeq(q, 1, k) \in Seq(Nat)
         /\ Len(SubSeq(q, 1, k)) = k
         /\ \A i \in 1 .. k : SubSeq(q, 1, k)[i] = q[i]
<1>1. Len(q) \in Nat /\ k \in Int /\ \A i \in 1 .. Len(q) : q[i] \in Nat
  BY LenProperties, ElementOfSeq
<1>2. \A i \in 1 .. k : q[i] \in Nat
  BY <1>1
<1>3. /\ SubSeq(q, 1, k) \in Seq(Nat)
      /\ Len(SubSeq(q, 1, k)) = IF 1 =< k THEN k - 1 + 1 ELSE 0
      /\ \A i \in 1 .. k - 1 + 1 : SubSeq(q, 1, k)[i] = q[1 + i - 1]
  BY <1>1, <1>2, SubSeqProperties
<1> QED  BY <1>1, <1>3

\* What a queue put behind another holds.
LEMMA Splice ==
  ASSUME NEW q \in Seq(Nat), NEW r \in Seq(Nat)
  PROVE  /\ q \o r \in Seq(Nat)
         /\ Len(q \o r) = Len(q) + Len(r)
         /\ \A i \in 1 .. Len(q) : (q \o r)[i] = q[i]
         /\ \A i \in 1 .. Len(r) : (q \o r)[Len(q) + i] = r[i]
         /\ Units(q \o r) = Units(q) \cup Units(r)
<1> DEFINE m == Len(q)
           n == Len(r)
<1>1. m \in Nat /\ n \in Nat
  BY LenProperties
<1>2. /\ q \o r \in Seq(Nat) /\ Len(q \o r) = m + n
      /\ \A i \in 1 .. m + n : (q \o r)[i] = IF i =< m THEN q[i] ELSE r[i - m]
  BY ConcatProperties
<1> HIDE DEF m, n
<1>3. ASSUME NEW i \in 1 .. m PROVE (q \o r)[i] = q[i] /\ i \in 1 .. m + n
  BY <1>1, <1>2
<1>4. ASSUME NEW i \in 1 .. n PROVE (q \o r)[m + i] = r[i] /\ m + i \in 1 .. m + n
  <2>1. m + i \in 1 .. m + n /\ ~(m + i =< m) /\ (m + i) - m = i
    BY <1>1
  <2> QED  BY <1>2, <2>1
<1>5. ASSUME NEW i \in 1 .. m + n
      PROVE  \/ i \in 1 .. m /\ (q \o r)[i] = q[i]
             \/ i - m \in 1 .. n /\ (q \o r)[i] = r[i - m]
  BY <1>1, <1>2
<1>6. Units(q \o r) = Units(q) \cup Units(r)
  <2>1. /\ Units(q) = {q[i] : i \in 1 .. m} /\ Units(r) = {r[i] : i \in 1 .. n}
        /\ Units(q \o r) = {(q \o r)[i] : i \in 1 .. m + n}
    BY <1>2 DEF Units, m, n
  <2>2. Units(q \o r) \subseteq Units(q) \cup Units(r)
    BY <1>5, <2>1
  <2>3. Units(q) \subseteq Units(q \o r)
    BY <1>3, <2>1
  <2>4. Units(r) \subseteq Units(q \o r)
    BY <1>4, <2>1
  <2> QED  BY <2>2, <2>3, <2>4
<1> QED  BY <1>2, <1>3, <1>4, <1>6 DEF m, n

\* Queues one behind another, in whichever order they are joined.  (With the equation
\* behind a name the provers find the instances they need.)
Grouped(x, y, z) == (x \o y) \o z = x \o (y \o z)

LEMMA Regroup ==
  ASSUME NEW S, NEW x \in Seq(S), NEW y \in Seq(S), NEW z \in Seq(S)
  PROVE  Grouped(x, y, z)
BY ConcatAssociative DEF Grouped

\* A unit put at the end of the second of two queues.
LEMMA Snoc ==
  ASSUME NEW q \in Seq(Nat), NEW r \in Seq(Nat), NEW u \in Nat
  PROVE  /\ q \o Append(r, u) = (q \o r) \o <<u>>
         /\ <<u>> \in Seq(Nat) /\ Len(<<u>>) = 1 /\ <<u>>[1] = u
         /\ Units(<<u>>) = {u} /\ Units(Append(r, u)) = Units(r) \cup {u}
         /\ Len(Append(r, u)) = Len(r) + 1
<1>1. <<u>> \in Seq(Nat) /\ Len(<<u>>) = 1 /\ <<u>>[1] = u
  OBVIOUS
<1>2. Append(r, u) = r \o <<u>> /\ Len(Append(r, u)) = Len(r) + 1
  BY AppendIsConcat, AppendProperties
<1>3. Units(<<u>>) = {u}
  <2>1. \A i : i \in 1 .. 1 <=> i = 1
    OBVIOUS
  <2> QED  BY <1>1, <2>1, Zenon DEF Units
<1>4. Units(r \o <<u>>) = Units(r) \cup {u}
  <2> DEFINE e == <<u>>
  <2>1. e \in Seq(Nat) /\ Units(e) = {u}
    BY <1>1, <1>3
  <2> HIDE DEF e
  <2>2. Units(r \o e) = Units(r) \cup {u}
    BY <2>1, Splice
  <2> QED  BY <2>2 DEF e
<1>5. q \o (r \o <<u>>) = (q \o r) \o <<u>>
  <2>1. Grouped(q, r, <<u>>)
    BY <1>1, Regroup
  <2> QED  BY <2>1, Zenon DEF Grouped
<1> QED  BY <1>1, <1>2, <1>3, <1>4, <1>5

----------------------------------------------------------------------------
(* Types.                                                                  *)

\* P are the processes, S their steps, A those in which they hand a buffer on: a
\* process has data left then, and only then is it part of the way through.
LoopInv(P, S, A) ==
    /\ SockTypeOK
    /\ pc \in [P -> S] /\ buf \in [P -> Seq(Nat)] /\ off \in [P -> Nat]
    /\ \A p \in P : IF pc[p] \in A THEN off[p] < Len(buf[p]) ELSE off[p] = 0

\* recv() from the front of a socket keeps its type.
LEMMA ReceiveTypeOK ==
  ASSUME SockTypeOK, NEW s \in Sock, NEW k \in 1 .. Len(inq[s]), Receive(s, k)
  PROVE  SockTypeOK'
<1>1. inq[s] \in Seq(Nat) /\ Len(inq[s]) =< SockCap
  BY DEF SockTypeOK
<1>2. /\ SubSeq(inq[s], k + 1, Len(inq[s])) \in Seq(Nat)
      /\ Len(SubSeq(inq[s], k + 1, Len(inq[s]))) =< SockCap
  BY <1>1, Cut, SockCapAssumption, LenProperties
<1>3. inq' \in [Sock -> Seq(Nat)] /\ \A x \in Sock : Len(inq'[x]) =< SockCap
  BY <1>2 DEF SockTypeOK, Receive
<1> QED  BY <1>3 DEF SockTypeOK, Receive

\* The other changes of a socket keep its type, too.
LEMMA ShutDownTypeOK ==
  ASSUME SockTypeOK, NEW s \in Sock, ShutDown(s)
  PROVE  SockTypeOK'
BY DEF SockTypeOK, ShutDown

LEMMA ConnectedTypeOK ==
  ASSUME SockTypeOK, NEW s \in Sock, Connected(s)
  PROVE  SockTypeOK'
BY DEF SockTypeOK, Connected, PeerState

LEMMA PeerTypeOK ==
  ASSUME SockTypeOK, NEW s \in Sock, NEW gone,
         \/ PeerRead(s)
         \/ PeerWrite(s, gone)
         \/ PeerHalfClose(s)
         \/ PeerClose(s)
         \/ Reset(s, gone)
  PROVE  SockTypeOK'
<1>1. /\ inq[s] \in Seq(Nat) /\ outq[s] \in Seq(Nat) /\ got[s] \in Seq(Nat)
      /\ sent[s] \in Nat /\ Base[s] \in Nat
      /\ Len(inq[s]) \in Nat /\ Len(outq[s]) \in Nat
      /\ Len(inq[s]) =< SockCap /\ Len(outq[s]) =< SockCap
  BY BaseAssumption DEF SockTypeOK
<1>2. CASE PeerRead(s)
  <2>1. outq[s] # <<>>
    BY <1>2 DEF PeerRead
  <2>2. /\ Head(outq[s]) \in Nat /\ Tail(outq[s]) \in Seq(Nat)
        /\ Len(Tail(outq[s])) =< SockCap
    BY <1>1, <2>1, HeadTailProperties, SockCapAssumption
  <2>3. Append(got[s], Head(outq[s])) \in Seq(Nat)
    BY <1>1, <2>2, AppendProperties
  <2> QED  BY <1>2, <2>2, <2>3 DEF PeerRead, SockTypeOK
<1>3. CASE PeerWrite(s, gone)
  <2>1. Base[s] + sent[s] + 1 \in Nat
    BY <1>1
  <2>2. /\ Append(inq[s], Base[s] + sent[s] + 1) \in Seq(Nat)
        /\ Len(Append(inq[s], Base[s] + sent[s] + 1)) =< SockCap
    BY <1>1, <1>3, <2>1, AppendProperties, SockCapAssumption DEF PeerWrite
  <2>3. /\ inq' \in [Sock -> Seq(Nat)] /\ \A x \in Sock : Len(inq'[x]) =< SockCap
        /\ sent' \in [Sock -> Nat]
    BY <1>1, <1>3, <2>2 DEF PeerWrite, SockTypeOK
  <2> QED  BY <1>3, <2>3 DEF PeerWrite, SockTypeOK
<1>4. CASE PeerHalfClose(s) \/ PeerClose(s)
  BY <1>4 DEF PeerHalfClose, PeerClose, SockTypeOK, PeerState
<1>5. CASE Reset(s, gone)
  <2>1. PICK k \in 0 .. Len(outq[s]) - 1 :
           outq' = [outq EXCEPT ![s] = SubSeq(@, 1, k)]
    BY <1>5 DEF Reset
  <2>2. k \in 0 .. Len(outq[s])
    BY <1>1, <2>1
  <2>3. SubSeq(outq[s], 1, k) \in Seq(Nat) /\ Len(SubSeq(outq[s], 1, k)) = k
    BY <1>1, <2>2, Prefix
  <2>4. Len(SubSeq(outq[s], 1, k)) =< SockCap
    BY <1>1, <2>2, <2>3, SockCapAssumption
  <2> QED  BY <1>5, <2>1, <2>3, <2>4 DEF Reset, SockTypeOK
<1> QED  BY <1>2, <1>3, <1>4, <1>5

LEMMA SameSockTypeOK ==
  ASSUME SockTypeOK, UNCHANGED sockVars
  PROVE  SockTypeOK'
BY DEF SockTypeOK, sockVars

\* recv(s).
LEMMA RecvLoop ==
  ASSUME NEW P, NEW S, NEW A, LoopInv(P, S, A), NEW p \in P, NEW s \in Sock,
         NEW more \in S, NEW end \in S \ A, "recv" \notin A,
         Recv(p, s, more, end)
  PROVE  LoopInv(P, S, A)'
<1>1. off' = off /\ off[p] = 0
  BY DEF Recv, LoopInv
<1>2. CASE /\ \E k \in 1 .. BufSize :
                 /\ k =< Len(inq[s])
                 /\ buf' = [buf EXCEPT ![p] = SubSeq(inq[s], 1, k)]
                 /\ Receive(s, k)
           /\ Goto(p, more)
  <2>1. PICK k \in 1 .. BufSize :
           /\ k =< Len(inq[s])
           /\ buf' = [buf EXCEPT ![p] = SubSeq(inq[s], 1, k)]
           /\ Receive(s, k)
    BY <1>2
  <2>2. inq[s] \in Seq(Nat) /\ k \in 1 .. Len(inq[s])
    BY <2>1, BufSizeAssumption DEF LoopInv, SockTypeOK
  <2>3. SockTypeOK'
    BY <2>1, <2>2, ReceiveTypeOK DEF LoopInv
  <2>4. SubSeq(inq[s], 1, k) \in Seq(Nat) /\ Len(SubSeq(inq[s], 1, k)) > 0
    BY <2>2, Cut
  <2>5. buf' \in [P -> Seq(Nat)] /\ Len(buf'[p]) > 0
        /\ \A q \in P : q # p => buf'[q] = buf[q]
    BY <2>1, <2>4 DEF LoopInv
  <2>6. /\ pc' \in [P -> S] /\ \A q \in P : q # p => pc'[q] = pc[q]
    BY <1>2 DEF Goto, LoopInv
  <2> QED  BY <1>1, <2>3, <2>5, <2>6 DEF LoopInv
<1>3. CASE AtEnd(s) /\ Goto(p, end) /\ UNCHANGED <<sockVars, buf>>
  BY <1>1, <1>3, SameSockTypeOK DEF LoopInv, Goto
<1> QED  BY <1>2, <1>3 DEF Recv

\* send(s), whatever becomes of the data.
LEMMA SendLoop ==
  ASSUME NEW P, NEW S, NEW A, LoopInv(P, S, A), NEW p \in P, NEW s \in Sock,
         NEW at \in A, NEW next \in S, next \in A => next # "recv",
         "killed" \in S \ A, Send(p, at, s, next)
  PROVE  LoopInv(P, S, A)'
<1>1. /\ off[p] < Len(buf[p]) /\ off[p] \in Nat /\ buf[p] \in Seq(Nat)
      /\ Len(buf[p]) \in Nat
      /\ pc \in [P -> S] /\ off \in [P -> Nat] /\ buf \in [P -> Seq(Nat)]
  BY DEF LoopInv, Send
<1>2. ASSUME NEW n \in S, n \in A => n \notin {"recv", "killed"},
             off' = [off EXCEPT ![p] = 0], Goto(p, n), Drop(p, n), SockTypeOK'
      PROVE  LoopInv(P, S, A)'
  <2>1. buf' \in [P -> Seq(Nat)] /\ \A q \in P : q # p => buf'[q] = buf[q]
    BY <1>1, <1>2 DEF Drop
  <2>2. pc' \in [P -> S] /\ pc'[p] = n /\ \A q \in P : q # p => pc'[q] = pc[q]
    BY <1>1, <1>2 DEF Goto
  <2>3. off' \in [P -> Nat] /\ off'[p] = 0 /\ \A q \in P : q # p => off'[q] = off[q]
    BY <1>1, <1>2
  <2>4. n \in A => buf'[p] = buf[p] /\ 0 < Len(buf[p])
    BY <1>1, <1>2 DEF Drop
  <2> QED  BY <1>2, <2>1, <2>2, <2>3, <2>4 DEF LoopInv
<1>3. CASE Transmit(s, NextUnit(p))
           /\ IF LastUnit(p)
              THEN /\ off' = [off EXCEPT ![p] = 0]
                   /\ Goto(p, next)
                   /\ Drop(p, next)
              ELSE /\ off' = [off EXCEPT ![p] = @ + 1]
                   /\ UNCHANGED <<pc, buf>>
  <2>1. NextUnit(p) \in Nat
    BY <1>1, ElementOfSeq DEF NextUnit
  <2>2. SockTypeOK'
    <3>1. outq[s] \in Seq(Nat) /\ Len(outq[s]) < SockCap /\ Len(outq[s]) \in Nat
      BY <1>3 DEF Transmit, LoopInv, SockTypeOK
    <3>2. /\ Append(outq[s], NextUnit(p)) \in Seq(Nat)
          /\ Len(Append(outq[s], NextUnit(p))) =< SockCap
      BY <3>1, <2>1, SockCapAssumption, AppendProperties
    <3>3. outq' \in [Sock -> Seq(Nat)] /\ \A x \in Sock : Len(outq'[x]) =< SockCap
      BY <1>3, <3>2 DEF Transmit, LoopInv, SockTypeOK
    <3> QED  BY <1>3, <3>3 DEF Transmit, LoopInv, SockTypeOK
  <2>3. CASE LastUnit(p)
    BY <1>2, <1>3, <2>2, <2>3
  <2>4. CASE ~LastUnit(p)
    <3>1. /\ off' = [off EXCEPT ![p] = @ + 1] /\ UNCHANGED <<pc, buf>>
          /\ off[p] + 1 < Len(buf[p])
      BY <1>1, <1>3, <2>4 DEF LastUnit
    <3>2. off' \in [P -> Nat] /\ off'[p] = off[p] + 1 /\ \A q \in P : q # p => off'[q] = off[q]
      BY <1>1, <3>1
    <3>3. pc[p] \in A
      BY DEF Send
    <3> QED  BY <1>1, <2>2, <3>1, <3>2, <3>3 DEF LoopInv
  <2> QED  BY <2>3, <2>4
<1>4. CASE UNCHANGED sockVars
           /\ off' = [off EXCEPT ![p] = 0]
           /\ \/ Goto(p, next) /\ Drop(p, next)
              \/ Goto(p, "killed") /\ Drop(p, "killed")
  <2>1. SockTypeOK'
    BY <1>4, SameSockTypeOK DEF LoopInv
  <2> QED  BY <1>4, <2>1, <1>2
<1> QED  BY <1>3, <1>4 DEF Send

\* A step that only moves on, not into or out of a send().
LEMMA MoveLoop ==
  ASSUME NEW P, NEW S, NEW A, LoopInv(P, S, A), NEW p \in P,
         pc[p] \notin A, NEW next \in S \ A, Goto(p, next), SockTypeOK',
         UNCHANGED <<buf, off>>
  PROVE  LoopInv(P, S, A)'
BY DEF LoopInv, Goto

\* A step of no process.
LEMMA SockLoop ==
  ASSUME NEW P, NEW S, NEW A, LoopInv(P, S, A), SockTypeOK', UNCHANGED <<pc, buf, off>>
  PROVE  LoopInv(P, S, A)'
BY DEF LoopInv

\* shutdown() and close().
LEMMA ShutLoop ==
  ASSUME NEW P, NEW S, NEW A, LoopInv(P, S, A), NEW p \in P, NEW s \in Sock,
         NEW at, at \notin A, NEW next \in S \ A, Shut(p, at, s, next)
  PROVE  LoopInv(P, S, A)'
<1>1. SockTypeOK'
  BY ShutDownTypeOK DEF LoopInv, Shut
<1> QED  BY <1>1, MoveLoop DEF Shut

\* The data that is thrown away.
LEMMA DrainLoop ==
  ASSUME NEW P, NEW S, NEW A, LoopInv(P, S, A), NEW p \in P, NEW s \in Sock,
         "recv" \notin A, "shut1" \in S \ A, Drain(p, s) \/ DrainEnd(p, s)
  PROVE  LoopInv(P, S, A)'
<1>1. CASE Drain(p, s)
  <2>1. PICK k \in 1 .. BufSize : k =< Len(inq[s]) /\ Receive(s, k)
    BY <1>1 DEF Drain
  <2>2. k \in 1 .. Len(inq[s])
    BY <2>1, BufSizeAssumption DEF LoopInv, SockTypeOK
  <2>3. SockTypeOK'
    BY <2>1, <2>2, ReceiveTypeOK DEF LoopInv
  <2> QED  BY <1>1, <2>3, SockLoop DEF Drain
<1>2. CASE DrainEnd(p, s)
  <2>1. SockTypeOK'
    BY <1>2, SameSockTypeOK DEF LoopInv, DrainEnd
  <2> QED  BY <1>2, <2>1, MoveLoop DEF DrainEnd
<1> QED  BY <1>1, <1>2

----------------------------------------------------------------------------
(* One stream: process p alone hands what the peer of s writes on to the   *)
(* peer of d.                                                              *)

\* The steps in which a loop still forwards; in the last three it does
\* something else with a buffer that it has handed on.
Flow == {"recv", "send", "sendDup", "recvDup", "write"}

\* What p has received and not yet handed on, and what has been handed on.
Held(p) == IF pc[p] = "send" THEN Len(buf[p]) - off[p] ELSE 0
Passed(d) == Len(got[d]) + Len(outq[d])

\* What the peer of d has read and has still to read is the beginning of the
\* stream, what waits at s is the end of what has been written so far, and as
\* long as p forwards what p holds lies between the two.
Ahead(s, d) ==
    /\ \A i \in 1 .. Len(got[d]) : got[d][i] = Base[s] + i
    /\ \A i \in 1 .. Len(outq[d]) : outq[d][i] = Base[s] + Len(got[d]) + i
Behind(s) ==
    /\ Len(inq[s]) =< sent[s]
    /\ \A i \in 1 .. Len(inq[s]) : inq[s][i] = Base[s] + sent[s] - Len(inq[s]) + i
Joined(p, s, d) ==
    /\ pc[p] = "none" => Len(outq[d]) = 0
    /\ (pc[p] = "none" \/ (Writable(d) /\ pc[p] \in Flow)) =>
          /\ Passed(d) + Held(p) + Len(inq[s]) = sent[s]
          /\ pc[p] = "send" => \A i \in 1 .. Len(buf[p]) :
                                  buf[p][i] = Base[s] + Passed(d) - off[p] + i
Stream(p, s, d) == Ahead(s, d) /\ Behind(s) /\ Joined(p, s, d)

\* At the start nothing is on its way.
LEMMA StreamInit ==
  ASSUME NEW p, NEW s, NEW d, pc[p] = "none",
         got[d] = <<>>, outq[d] = <<>>, inq[s] = <<>>, sent[s] = 0
  PROVE  Stream(p, s, d)
<1>1. /\ Len(got[d]) = 0 /\ Len(outq[d]) = 0 /\ Len(inq[s]) = 0
      /\ \A i \in 1 .. 0 : FALSE
  OBVIOUS
<1>2. Passed(d) = 0 /\ Held(p) = 0
  BY <1>1 DEF Passed, Held
<1>3. Ahead(s, d) /\ Behind(s)
  BY <1>1, SMT DEF Ahead, Behind
<1>4. Joined(p, s, d)
  BY <1>1, <1>2 DEF Joined
<1> QED  BY <1>3, <1>4 DEF Stream

\* A step that the stream does not feel: at most it ends.
LEMMA StreamStill ==
  ASSUME NEW p, NEW s, NEW d, Stream(p, s, d),
         UNCHANGED <<got[d], outq[d], inq[s], sent[s], pc[p], buf[p], off[p]>>,
         pc[p] = "none" \/ (Writable(d)' => Writable(d))
  PROVE  Stream(p, s, d)'
<1>1. Held(p)' = Held(p) /\ Passed(d)' = Passed(d)
  BY DEF Held, Passed
<1>2. Ahead(s, d)' /\ Behind(s)'
  BY DEF Stream, Ahead, Behind
<1>3. Joined(p, s, d)'
  BY <1>1 DEF Stream, Joined
<1> QED  BY <1>2, <1>3 DEF Stream

\* p moves on and neither receives nor hands on, or is forked.
LEMMA StreamMove ==
  ASSUME NEW p, NEW s, NEW d, Stream(p, s, d), pc[p] # "send",
         pc'[p] \notin {"send", "none"}, pc'[p] \in Flow => pc[p] \in Flow \cup {"none"},
         UNCHANGED <<got[d], outq[d], inq[s], sent[s]>>,
         Writable(d)' => Writable(d)
  PROVE  Stream(p, s, d)'
<1>1. Held(p)' = Held(p) /\ Passed(d)' = Passed(d)
  BY DEF Held, Passed
<1>2. Ahead(s, d)' /\ Behind(s)'
  BY DEF Stream, Ahead, Behind
<1>3. Joined(p, s, d)'
  BY <1>1 DEF Stream, Joined
<1> QED  BY <1>2, <1>3 DEF Stream

\* The numbers that the proofs below calculate with.
LEMMA StreamCounts ==
  ASSUME NEW P, NEW S, NEW A, LoopInv(P, S, A), NEW p \in P, NEW s \in Sock, NEW d \in Sock
  PROVE  /\ sent[s] \in Nat /\ Base[s] \in Nat
         /\ inq[s] \in Seq(Nat) /\ Len(inq[s]) \in Nat
         /\ got[d] \in Seq(Nat) /\ Len(got[d]) \in Nat
         /\ outq[d] \in Seq(Nat) /\ Len(outq[d]) \in Nat
         /\ Passed(d) \in Nat
         /\ buf[p] \in Seq(Nat) /\ Len(buf[p]) \in Nat
         /\ off[p] \in Nat
         /\ pc \in [P -> S]
         /\ Held(p) \in Int
<1>1. /\ sent[s] \in Nat /\ inq[s] \in Seq(Nat) /\ Base[s] \in Nat
      /\ got[d] \in Seq(Nat) /\ outq[d] \in Seq(Nat)
      /\ buf[p] \in Seq(Nat) /\ off[p] \in Nat /\ pc \in [P -> S]
  BY BaseAssumption DEF LoopInv, SockTypeOK
<1>2. /\ Len(inq[s]) \in Nat /\ Len(got[d]) \in Nat
      /\ Len(outq[d]) \in Nat /\ Len(buf[p]) \in Nat
  BY <1>1, LenProperties
<1>3. \A a, b \in Nat : a + b \in Nat /\ a - b \in Int
  OBVIOUS
<1>4. Passed(d) \in Nat
  BY <1>2, <1>3, Zenon DEF Passed
<1>5. Held(p) \in Int
  BY <1>1, <1>2, <1>3 DEF Held
<1> QED  BY <1>1, <1>2, <1>4, <1>5, Zenon

\* p takes the next buffer of the stream, or finds its end.
LEMMA StreamRecv ==
  ASSUME NEW P, NEW S, NEW A, LoopInv(P, S, A), NEW p \in P, NEW s \in Sock, NEW d \in Sock,
         "recv" \notin A, NEW end, end \notin Flow, end # "none",
         Stream(p, s, d), Recv(p, s, "send", end)
  PROVE  Stream(p, s, d)'
<1>1. Ahead(s, d) /\ Behind(s) /\ Joined(p, s, d) /\ pc[p] = "recv"
  BY DEF Stream, Recv
<1>2. CASE AtEnd(s) /\ Goto(p, end) /\ UNCHANGED <<sockVars, buf>>
  <2>1. pc'[p] = end
    BY <1>2 DEF Goto, LoopInv
  <2>2. Writable(d)' = Writable(d)
    BY <1>2 DEF Writable, sockVars
  <2> QED  BY <1>1, <1>2, <2>1, <2>2, StreamMove DEF sockVars, Flow
<1>3. CASE /\ \E k \in 1 .. BufSize :
                 /\ k =< Len(inq[s])
                 /\ buf' = [buf EXCEPT ![p] = SubSeq(inq[s], 1, k)]
                 /\ Receive(s, k)
           /\ Goto(p, "send")
  <2> DEFINE q == inq[s]
             b == buf'[p]
             r == inq'[s]
             n == sent[s]
             z == Base[s]
             f == Passed(d)
  <2>1. PICK k \in 1 .. BufSize :
           /\ k =< Len(q)
           /\ buf' = [buf EXCEPT ![p] = SubSeq(q, 1, k)]
           /\ Receive(s, k)
    BY <1>3
  <2>2. /\ q \in Seq(Nat) /\ Len(q) \in Nat /\ k \in 1 .. Len(q) /\ k \in Nat /\ k > 0
        /\ z \in Nat /\ n \in Nat /\ f \in Nat
    BY <2>1, StreamCounts, BufSizeAssumption
  <2>3. /\ b = SubSeq(q, 1, k) /\ r = SubSeq(q, k + 1, Len(q))
        /\ UNCHANGED <<got, outq, sent, shut, peer>>
    BY <2>1 DEF Receive, LoopInv, SockTypeOK
  <2>4. /\ Len(b) = k /\ \A i \in 1 .. k : b[i] = q[i]
        /\ Len(r) = Len(q) - k /\ \A i \in 1 .. Len(q) - k : r[i] = q[k + i]
    BY <2>2, <2>3, Cut, SMTT(60)
  <2>5. pc'[p] = "send"
    BY <1>3 DEF Goto, LoopInv
  <2>6. off[p] = 0 /\ off' = off
    BY <1>1 DEF LoopInv, Recv
  <2>7. f' = f /\ sent'[s] = n
    BY <2>3 DEF Passed
  <2>8. Len(q) =< n /\ \A i \in 1 .. Len(q) : q[i] = z + n - Len(q) + i
    BY <1>1 DEF Behind
  <2>9. Ahead(s, d)'
    BY <1>1, <2>3 DEF Ahead
  <2> HIDE DEF q, b, r, n, z, f
  <2>10. \A i \in 1 .. Len(q) - k : r[i] = z + n - (Len(q) - k) + i
    <3>1. ASSUME NEW i \in 1 .. Len(q) - k PROVE r[i] = z + n - (Len(q) - k) + i
      <4>1. k + i \in 1 .. Len(q)
        BY <2>2
      <4>2. r[i] = z + n - Len(q) + (k + i)
        BY <2>4, <2>8, <4>1
      <4> QED  BY <2>2, <4>2
    <3> QED  BY <3>1
  <2>11. Behind(s)'
    BY <2>2, <2>4, <2>7, <2>8, <2>10 DEF Behind, r, n, z
  <2>12. ASSUME Writable(d)
         PROVE  f + Len(q) = n /\ \A i \in 1 .. k : b[i] = z + f + i
    <3>1. f + 0 + Len(q) = n
      BY <1>1, <2>12 DEF Joined, Held, Flow, q, n, f
    <3>2. ASSUME NEW i \in 1 .. k PROVE b[i] = z + f + i
      <4>1. i \in 1 .. Len(q)
        BY <2>2
      <4>2. b[i] = z + n - Len(q) + i
        BY <2>4, <2>8, <4>1
      <4>3. \A h, j, l \in Nat : h + 0 + j = l => z + l - j + i = z + h + i
        BY <2>2
      <4> QED  BY <2>2, <3>1, <4>2, <4>3, Zenon
    <3> QED  BY <2>2, <3>1, <3>2
  <2>13. Joined(p, s, d)'
    <3>1. Held(p)' = k
      BY <2>2, <2>4, <2>5, <2>6 DEF Held, b
    <3>2. Writable(d)' => Writable(d)
      BY <2>3 DEF Writable
    <3>3. SUFFICES ASSUME Writable(d)
                   PROVE  /\ f + k + (Len(q) - k) = n
                          /\ \A i \in 1 .. k : b[i] = z + f - 0 + i
      BY <2>4, <2>5, <2>6, <2>7, <3>1, <3>2 DEF Joined, b, r, z, f
    <3> QED  BY <2>2, <2>12, <3>3, SMTT(60)
  <2> QED  BY <2>9, <2>11, <2>13 DEF Stream
<1> QED  BY <1>2, <1>3 DEF Recv

\* The three ways in which what the peer of d has and will get changes.
LEMMA AheadSend ==
  ASSUME SockTypeOK, NEW s \in Sock, NEW d \in Sock, Ahead(s, d),
         NEW u \in Nat, u = Base[s] + Passed(d) + 1, Transmit(d, u)
  PROVE  /\ Ahead(s, d)' /\ Passed(d)' = Passed(d) + 1
         /\ Writable(d) /\ UNCHANGED <<inq, got, sent, shut, peer>>
<1> DEFINE o == outq[d]
           g == Len(got[d])
           n == Len(o)
           w == outq'[d]
           z == Base[s]
<1>1. /\ w = Append(o, u) /\ Writable(d)
      /\ UNCHANGED <<inq, got, sent, shut, peer>>
  BY DEF Transmit, SockTypeOK
<1>2. g \in Nat /\ n \in Nat /\ z \in Nat /\ o \in Seq(Nat)
  BY BaseAssumption DEF SockTypeOK
<1>3. Len(w) = n + 1 /\ w[n + 1] = u /\ \A i \in 1 .. n : w[i] = o[i]
  BY <1>1, <1>2, AppendProperties
<1>4. /\ \A i \in 1 .. g : got[d][i] = z + i
      /\ \A i \in 1 .. n : o[i] = z + g + i
      /\ Passed(d) = g + n /\ Passed(d)' = Len(got'[d]) + Len(w)
  BY DEF Ahead, Passed
<1>5. got'[d] = got[d] /\ Len(got'[d]) = g
  BY <1>1
<1> HIDE DEF g, n, z
<1>6. u = z + g + (n + 1)
  BY <1>2, <1>4 DEF z
<1>7. \A i \in 1 .. n + 1 : w[i] = z + g + i
  <2>1. ASSUME NEW i \in 1 .. n + 1, i # n + 1 PROVE w[i] = z + g + i
    <3>1. i \in 1 .. n
      BY <1>2, <2>1
    <3> QED  BY <1>3, <1>4, <3>1, Zenon
  <2> QED  BY <1>3, <1>6, <2>1, Zenon
<1>8. Ahead(s, d)'
  BY <1>3, <1>4, <1>5, <1>7, Zenon DEF Ahead, z
<1>9. Passed(d)' = g + (n + 1)
  BY <1>3, <1>4, <1>5, Zenon
<1>10. Passed(d)' = Passed(d) + 1
  <2>1. \A i, j \in Nat : i + (j + 1) = (i + j) + 1
    OBVIOUS
  <2>2. Passed(d) = g + n
    BY <1>4
  <2>3. g + (n + 1) = (g + n) + 1
    BY <1>2, <2>1
  <2> QED  BY <1>9, <2>2, <2>3
<1>11. Writable(d) /\ UNCHANGED <<inq, got, sent, shut, peer>>
  BY <1>1
<1> QED  BY <1>8, <1>10, <1>11

LEMMA AheadRead ==
  ASSUME SockTypeOK, NEW s \in Sock, NEW d \in Sock, Ahead(s, d), PeerRead(d)
  PROVE  /\ Ahead(s, d)' /\ Passed(d)' = Passed(d) /\ Len(outq[d]) # 0
         /\ UNCHANGED <<inq, sent, shut, peer>>
<1> DEFINE o == outq[d]
           g == got[d]
           n == Len(o)
           m == Len(g)
           z == Base[s]
<1>1. /\ o \in Seq(Nat) /\ o # <<>> /\ g \in Seq(Nat) /\ n \in Nat /\ m \in Nat
      /\ z \in Nat
      /\ outq'[d] = Tail(o) /\ got'[d] = Append(g, Head(o))
      /\ UNCHANGED <<inq, sent, shut, peer>>
  <2>1. o \in Seq(Nat) /\ g \in Seq(Nat) /\ z \in Nat
    BY BaseAssumption DEF SockTypeOK
  <2>2. /\ o # <<>> /\ outq'[d] = Tail(o) /\ got'[d] = Append(g, Head(o))
        /\ UNCHANGED <<inq, sent, shut, peer>>
    BY DEF PeerRead, SockTypeOK
  <2> QED  BY <2>1, <2>2
<1>2. /\ Len(Tail(o)) = n - 1 /\ Head(o) = o[1] /\ Head(o) \in Nat /\ n > 0
      /\ \A i \in 1 .. Len(Tail(o)) : Tail(o)[i] = o[i + 1]
  BY <1>1, HeadTailProperties
<1>3. /\ Len(Append(g, Head(o))) = m + 1
      /\ \A i \in 1 .. m : Append(g, Head(o))[i] = g[i]
      /\ Append(g, Head(o))[m + 1] = Head(o)
  BY <1>1, <1>2, AppendProperties
<1>4. /\ \A i \in 1 .. m : g[i] = z + i
      /\ \A i \in 1 .. n : o[i] = z + m + i
  BY DEF Ahead
<1> HIDE DEF n, m, z
<1>5. Head(o) = z + (m + 1)
  BY <1>1, <1>2, <1>4
<1>6. \A i \in 1 .. m + 1 : Append(g, Head(o))[i] = z + i
  <2>1. \A i \in 1 .. m + 1 : i # m + 1 => i \in 1 .. m
    BY <1>1
  <2> QED  BY <1>3, <1>4, <1>5, <2>1, Zenon
<1>7. \A i \in 1 .. n - 1 : Tail(o)[i] = z + (m + 1) + i
  <2>1. ASSUME NEW i \in 1 .. n - 1 PROVE o[i + 1] = z + (m + 1) + i
    BY <1>1, <1>4
  <2> QED  BY <1>2, <2>1, Zenon
<1>8. Ahead(s, d)'
  BY <1>1, <1>2, <1>3, <1>6, <1>7, ZenonT(60) DEF Ahead, z
<1>9. Passed(d)' = (m + 1) + (n - 1) /\ Passed(d) = m + n
  BY <1>1, <1>2, <1>3, Zenon DEF Passed, n, m
<1>10. n # 0
  BY <1>1, <1>2
<1>11. Passed(d)' = Passed(d)
  BY <1>1, <1>9
<1> QED  BY <1>1, <1>8, <1>10, <1>11 DEF n

LEMMA AheadReset ==
  ASSUME SockTypeOK, NEW s \in Sock, NEW d \in Sock, Ahead(s, d), NEW gone, Reset(d, gone)
  PROVE  /\ Ahead(s, d)' /\ Passed(d)' =< Passed(d) /\ Len(outq[d]) # 0
         /\ shut[d] \/ gone
         /\ UNCHANGED <<got, inq, sent, shut, peer>>
<1> DEFINE o == outq[d]
<1>1. UNCHANGED <<got, inq, sent, shut, peer>> /\ (shut[d] \/ gone)
  BY DEF Reset
<1>2. PICK k \in 0 .. Len(o) - 1 : outq' = [outq EXCEPT ![d] = SubSeq(@, 1, k)]
  BY DEF Reset
<1>3. o \in Seq(Nat) /\ Len(o) \in Nat /\ Len(got[d]) \in Nat /\ outq'[d] = SubSeq(o, 1, k)
  BY <1>2 DEF SockTypeOK
<1>4. k \in 0 .. Len(o) /\ Len(o) # 0 /\ k =< Len(o) /\ k \in Nat
  BY <1>2, <1>3
<1>5. Len(outq'[d]) = k /\ \A i \in 1 .. k : outq'[d][i] = o[i]
  BY <1>3, <1>4, Prefix
<1>6. \A i \in 1 .. k : i \in 1 .. Len(o)
  BY <1>3, <1>4
<1>7. Ahead(s, d)'
  BY <1>1, <1>5, <1>6, Zenon DEF Ahead
<1>8. Passed(d)' = Len(got[d]) + k /\ Passed(d) = Len(got[d]) + Len(o)
  BY <1>1, <1>5, Zenon DEF Passed
<1> QED  BY <1>1, <1>3, <1>4, <1>7, <1>8

\* The three outcomes of send().
LEMMA SendCases ==
  ASSUME NEW p, NEW s, NEW at, NEW next, Send(p, at, s, next)
  PROVE  \/ /\ Transmit(s, NextUnit(p)) /\ LastUnit(p)
            /\ Goto(p, next) /\ Drop(p, next)
         \/ /\ Transmit(s, NextUnit(p)) /\ ~LastUnit(p)
            /\ off' = [off EXCEPT ![p] = @ + 1] /\ UNCHANGED <<pc, buf>>
         \/ /\ ~Writable(s) /\ UNCHANGED sockVars
            /\ Goto(p, next) \/ Goto(p, "killed")
BY DEF Send, CutShort, Writable, Broken

\* p hands the next unit on, or gives the buffer up.
LEMMA StreamSend ==
  ASSUME NEW P, NEW S, NEW A, LoopInv(P, S, A), NEW p \in P, NEW s \in Sock, NEW d \in Sock,
         "send" \in A, NEW next \in Flow \ {"send"},
         Stream(p, s, d), Send(p, "send", d, next)
  PROVE  Stream(p, s, d)'
<1>1. Ahead(s, d) /\ Behind(s) /\ Joined(p, s, d) /\ pc[p] = "send"
  BY DEF Stream, Send
<1>2. CASE /\ ~Writable(d) /\ UNCHANGED sockVars
           /\ Goto(p, next) \/ Goto(p, "killed")
  <2>1. pc'[p] \in {next, "killed"}
    BY <1>2 DEF Goto, LoopInv
  <2>2. Ahead(s, d)' /\ Behind(s)'
    BY <1>1, <1>2 DEF sockVars, Ahead, Behind
  <2>3. Writable(d)' = Writable(d)
    BY <1>2 DEF Writable, sockVars
  <2>4. Joined(p, s, d)'
    BY <1>2, <2>1, <2>3 DEF Joined, Flow
  <2> QED  BY <2>2, <2>4 DEF Stream
<1>3. CASE Transmit(d, NextUnit(p))
  <2> DEFINE b == buf[p]
             k == off[p]
             m == Len(b)
             c == Len(inq[s])
             u == NextUnit(p)
             z == Base[s]
             f == Passed(d)
             t == sent[s]
  <2>1. /\ k \in Nat /\ k < m /\ m \in Nat /\ z \in Nat /\ f \in Nat
        /\ t \in Nat /\ c \in Nat /\ b \in Seq(Nat)
    BY <1>1, StreamCounts, ZenonT(60) DEF LoopInv
  <2>2. u = b[k + 1] /\ u \in Nat
    BY <2>1, ElementOfSeq DEF NextUnit
  <2>3. Writable(d)
    BY <1>3 DEF Transmit
  <2>4. f + (m - k) + c = t /\ \A i \in 1 .. m : b[i] = z + f - k + i
    BY <1>1, <2>3 DEF Joined, Held, Flow
  <2>5. \/ k + 1 = m /\ pc'[p] = next
        \/ k + 1 # m /\ UNCHANGED <<pc, buf>> /\ off'[p] = k + 1
    <3>1. \/ LastUnit(p) /\ Goto(p, next)
          \/ /\ ~LastUnit(p) /\ UNCHANGED <<pc, buf>>
             /\ off' = [off EXCEPT ![p] = @ + 1]
      BY <2>3, SendCases
    <3> QED  BY <3>1 DEF LastUnit, Goto, LoopInv
  <2> HIDE DEF b, k, m, c, u, z, f, t
  <2>6. u = z + f + 1
    <3>1. k + 1 \in 1 .. m
      BY <2>1
    <3>2. b[k + 1] = z + f - k + (k + 1)
      BY <2>4, <3>1
    <3> QED  BY <2>1, <2>2, <3>2
  <2>7. /\ Ahead(s, d)' /\ f' = f + 1 /\ UNCHANGED <<inq, got, sent, shut, peer>>
    BY <1>1, <1>3, <2>2, <2>6, AheadSend DEF LoopInv, u, z, f
  <2>8. Len(inq'[s]) = c /\ sent'[s] = t /\ Writable(d)' = Writable(d) /\ Behind(s)'
    BY <1>1, <2>7 DEF Behind, Writable, c, t
  <2>9. Joined(p, s, d)'
    <3>1. CASE k + 1 = m /\ pc'[p] = next
      <4>1. Held(p)' = 0
        BY <3>1 DEF Held
      <4>2. f' + 0 + c = t
        BY <2>1, <2>4, <2>7, <3>1
      <4>3. pc'[p] # "none" /\ pc'[p] # "send"
        BY <3>1 DEF Flow
      <4> QED  BY <2>8, <4>1, <4>2, <4>3 DEF Joined, f, t
    <3>2. CASE k + 1 # m /\ UNCHANGED <<pc, buf>> /\ off'[p] = k + 1
      <4>1. Held(p)' = m - (k + 1) /\ buf'[p] = b /\ pc'[p] = "send"
        BY <1>1, <3>2 DEF Held, m, b
      <4>2. f' + (m - (k + 1)) + c = t
        BY <2>1, <2>4, <2>7
      <4>3. ASSUME NEW i \in 1 .. m PROVE b[i] = z + f' - (k + 1) + i
        BY <2>1, <2>4, <2>7
      <4> QED  BY <2>8, <3>2, <4>1, <4>2, <4>3 DEF Joined, m, f, t, z, b
    <3> QED  BY <2>5, <3>1, <3>2
  <2> QED  BY <2>7, <2>8, <2>9 DEF Stream
<1> QED  BY <1>2, <1>3, SendCases

\* The peers of s and d and of every other socket: one appends the next unit, one
\* reads the first, and a reset cuts the end of what has yet to be read.
LEMMA StreamPeers ==
  ASSUME NEW P, NEW S, NEW A, LoopInv(P, S, A), NEW p \in P, NEW s \in Sock, NEW d \in Sock,
         Stream(p, s, d), UNCHANGED <<pc, buf, off>>, NEW x \in Sock, NEW gone,
         (x = d /\ gone) => pc[p] \in Over,
         \/ PeerRead(x)
         \/ PeerWrite(x, gone)
         \/ PeerHalfClose(x)
         \/ PeerClose(x)
         \/ Reset(x, gone)
  PROVE  Stream(p, s, d)'
<1>1. Ahead(s, d) /\ Behind(s) /\ Joined(p, s, d)
  BY DEF Stream
<1>2. ASSUME UNCHANGED <<got[d], outq[d], inq[s], sent[s]>>, Writable(d)' => Writable(d)
      PROVE  Stream(p, s, d)'
  BY <1>2, StreamStill
<1>3. CASE PeerRead(x)
  <2>1. CASE x # d
    <3>1. UNCHANGED <<got[d], outq[d], inq, sent, shut, peer>>
      BY <1>3, <2>1 DEF PeerRead, LoopInv, SockTypeOK
    <3> QED  BY <1>2, <3>1 DEF Writable
  <2>2. CASE x = d
    <3>1. /\ Ahead(s, d)' /\ Passed(d)' = Passed(d) /\ Len(outq[d]) # 0
          /\ UNCHANGED <<inq, sent, shut, peer>>
      BY <1>1, <1>3, <2>2, AheadRead DEF LoopInv
    <3>2. pc[p] # "none" /\ Held(p)' = Held(p)
      BY <1>1, <3>1 DEF Joined, Held
    <3>3. Joined(p, s, d)'
      BY <1>1, <3>1, <3>2 DEF Joined, Writable
    <3> QED  BY <1>1, <3>1, <3>3 DEF Stream, Behind
  <2> QED  BY <2>1, <2>2
<1>4. CASE PeerHalfClose(x) \/ PeerClose(x)
  <2>1. Writable(d)' => Writable(d)
    BY <1>4 DEF PeerHalfClose, PeerClose, Writable, LoopInv, SockTypeOK
  <2>2. UNCHANGED <<got, outq, inq, sent>>
    BY <1>4 DEF PeerHalfClose, PeerClose
  <2> QED  BY <1>2, <2>1, <2>2
<1>5. CASE Reset(x, gone)
  <2>1. CASE x # d
    <3>1. UNCHANGED <<got[d], outq[d], inq, sent, shut, peer>>
      BY <1>5, <2>1 DEF Reset, LoopInv, SockTypeOK
    <3> QED  BY <1>2, <3>1 DEF Writable
  <2>2. CASE x = d
    <3>1. /\ Ahead(s, d)' /\ Len(outq[d]) # 0 /\ (shut[d] \/ gone)
          /\ UNCHANGED <<got, inq, sent, shut, peer>>
      BY <1>1, <1>5, <2>2, AheadReset DEF LoopInv
    <3>2. pc[p] # "none"
      BY <1>1, <3>1 DEF Joined
    <3>3. ~Writable(d) \/ pc[p] \notin Flow
      BY <2>2, <3>1, <3>2 DEF Writable, Over, Flow
    <3>4. Joined(p, s, d)'
      BY <1>1, <3>1, <3>2, <3>3 DEF Joined, Writable
    <3> QED  BY <1>1, <3>1, <3>4 DEF Stream, Behind
  <2> QED  BY <2>1, <2>2
<1>6. CASE PeerWrite(x, gone)
  <2>1. CASE x # s
    <3>1. UNCHANGED <<got, outq, inq[s], sent[s], shut, peer>>
      BY <1>6, <2>1 DEF PeerWrite, LoopInv, SockTypeOK
    <3> QED  BY <1>2, <3>1 DEF Writable
  <2>2. CASE x = s
    <3> DEFINE q == inq[s]
               n == Len(q)
               c == sent[s]
               z == Base[s]
    <3>1. /\ q \in Seq(Nat) /\ n \in Nat /\ c \in Nat /\ z \in Nat
          /\ inq'[s] = Append(q, z + c + 1) /\ sent'[s] = c + 1
          /\ UNCHANGED <<got, outq, shut, peer>>
      BY <1>6, <2>2, StreamCounts, ZenonT(60) DEF PeerWrite, LoopInv, SockTypeOK
    <3>2. z + c + 1 \in Nat /\ z + (c + 1) - (n + 1) + (n + 1) = z + c + 1
      <4>1. \A i, j, k \in Nat : i + j + 1 \in Nat /\ i + (j + 1) - (k + 1) + (k + 1) = i + j + 1
        OBVIOUS
      <4> QED  BY <3>1, <4>1, Zenon
    <3>3. /\ Len(inq'[s]) = n + 1 /\ inq'[s][n + 1] = z + c + 1
          /\ \A i \in 1 .. n : inq'[s][i] = q[i]
      BY <3>1, <3>2, AppendProperties
    <3>4. n =< c /\ \A i \in 1 .. n : q[i] = z + c - n + i
      BY <1>1 DEF Behind
    <3> HIDE DEF n, c, z
    <3>5. Behind(s)'
      <4>1. ASSUME NEW i \in 1 .. n + 1
            PROVE  inq'[s][i] = z + (c + 1) - (n + 1) + i
        <5>1. i = n + 1 \/ i \in 1 .. n
          BY <3>1
        <5>2. CASE i = n + 1
          BY <3>2, <3>3, <5>2, Zenon
        <5>3. CASE i \in 1 .. n
          <6>1. z + (c + 1) - (n + 1) + i = z + c - n + i
            BY <3>1
          <6> QED  BY <3>3, <3>4, <5>3, <6>1, Zenon
        <5> QED  BY <5>1, <5>2, <5>3
      <4>2. n + 1 =< c + 1
        BY <3>1, <3>4
      <4> QED  BY <3>1, <3>3, <4>1, <4>2, Zenon DEF Behind, z
    <3>6. Passed(d)' = Passed(d) /\ Held(p)' = Held(p)
      BY <3>1 DEF Passed, Held
    <3>7. Joined(p, s, d)'
      <4>1. Passed(d) \in Nat /\ Held(p) \in Int
        BY StreamCounts
      <4>2. Passed(d) + Held(p) + n = c => Passed(d) + Held(p) + (n + 1) = c + 1
        BY <3>1, <4>1
      <4> QED  BY <1>1, <3>1, <3>3, <3>6, <4>2 DEF Joined, Writable, n, c
    <3> QED  BY <1>1, <3>1, <3>5, <3>7 DEF Stream, Ahead
  <2> QED  BY <2>1, <2>2
<1> QED  BY <1>3, <1>4, <1>5, <1>6

\* The loops of other processes: they do not receive from s or send to d, but may
\* shut either.
LEMMA StreamOthers ==
  ASSUME NEW P, NEW S, NEW A, LoopInv(P, S, A), NEW p \in P, NEW s \in Sock, NEW d \in Sock,
         Stream(p, s, d), NEW q \in P, q # p, NEW x \in Sock, NEW at, NEW next,
         \/ x # s /\ Recv(q, x, at, next)
         \/ x # d /\ Send(q, at, x, next)
         \/ Shut(q, at, x, next)
         \/ x # s /\ Drain(q, x)
         \/ DrainEnd(q, x)
  PROVE  Stream(p, s, d)'
<1>1. /\ \A n : Goto(q, n) => UNCHANGED pc[p]
      /\ \A n : Drop(q, n) => UNCHANGED buf[p]
      /\ \A b : buf' = [buf EXCEPT ![q] = b] => UNCHANGED buf[p]
      /\ \A n : off' = [off EXCEPT ![q] = n] => UNCHANGED off[p]
  BY DEF Goto, Drop, LoopInv
<1>2. ASSUME NEW k, x # s, Receive(x, k)
      PROVE  UNCHANGED <<got, outq, sent, shut, peer>> /\ UNCHANGED inq[s]
  BY <1>2 DEF Receive, LoopInv, SockTypeOK
<1>3. CASE x # s /\ Recv(q, x, at, next)
  BY <1>1, <1>2, <1>3, StreamStill DEF Recv, Writable, sockVars
<1>4. CASE x # d /\ Send(q, at, x, next)
  <2>1. UNCHANGED <<got[d], outq[d], inq, sent, shut, peer>>
    BY <1>4 DEF Send, Transmit, sockVars, LoopInv, SockTypeOK
  <2>2. UNCHANGED <<pc[p], buf[p], off[p]>>
    BY <1>1, <1>4 DEF Send
  <2> QED  BY <2>1, <2>2, StreamStill DEF Writable
<1>5. CASE Shut(q, at, x, next)
  <2>1. Writable(d)' => Writable(d)
    BY <1>5 DEF Shut, ShutDown, Writable, LoopInv, SockTypeOK
  <2> QED  BY <1>1, <1>5, <2>1, StreamStill DEF Shut, ShutDown
<1>6. CASE (x # s /\ Drain(q, x)) \/ DrainEnd(q, x)
  BY <1>1, <1>2, <1>6, StreamStill DEF Drain, DrainEnd, Writable, sockVars
<1> QED  BY <1>3, <1>4, <1>5, <1>6

\* What p does besides: it shuts the sockets, or hands a buffer that the stream has
\* got to someone else as well.
LEMMA StreamShut ==
  ASSUME NEW P, NEW S, NEW A, LoopInv(P, S, A), NEW p \in P, NEW s \in Sock, NEW d \in Sock,
         Stream(p, s, d), NEW x \in Sock, NEW at, NEW next,
         at \notin Flow \cup {"none"}, next \notin Flow \cup {"none"}, Shut(p, at, x, next)
  PROVE  Stream(p, s, d)'
<1>1. Writable(d)' => Writable(d)
  BY DEF Shut, ShutDown, Writable, LoopInv, SockTypeOK
<1>2. pc[p] = at /\ pc'[p] = next /\ UNCHANGED <<got, outq, inq, sent>>
  BY DEF Shut, ShutDown, Goto, LoopInv
<1> QED  BY <1>1, <1>2, StreamMove DEF Flow

LEMMA StreamSendDup ==
  ASSUME NEW P, NEW S, NEW A, LoopInv(P, S, A), NEW p \in P, NEW s \in Sock, NEW d \in Sock,
         Stream(p, s, d), NEW x \in Sock, x # d, Send(p, "sendDup", x, "recv")
  PROVE  Stream(p, s, d)'
<1>1. UNCHANGED <<got[d], outq[d], inq, sent, shut, peer>>
  BY DEF Send, Transmit, sockVars, LoopInv, SockTypeOK
<1>2. pc[p] = "sendDup" /\ (Writable(d)' => Writable(d))
  BY <1>1 DEF Send, Writable
<1>3. pc'[p] \in {"sendDup", "recv", "killed"}
  BY <1>2 DEF Send, Goto, LoopInv
<1> QED  BY <1>1, <1>2, <1>3, StreamMove DEF Flow
=============================================================================
