-------------------------- MODULE DuplicatorProofs --------------------------
(***************************************************************************)
(* Theorems about Duplicator, for every value of its constants.            *)
(***************************************************************************)
EXTENDS Duplicator, ForwarderProofs

\* A process in send() has data left to hand over, and only then is it part of
\* the way through its buffer.
Ready ==
    \A p \in Proc : IF pc[p] \in {"send", "sendDup"}
                    THEN off[p] < Len(buf[p])
                    ELSE off[p] = 0

TypeInv == TypeOK /\ Ready

----------------------------------------------------------------------------
(* Why both directions are in order: T1 alone carries the client's stream  *)
(* to production, T2 alone carries production's to the client, and neither *)
(* has started before its destination is connected.                        *)

\* H has connected before it forks.
Before == pc["H"] \in {"connectProd", "connectDup", "pipe"} => pc["T1"] = "none"

Order == Stream("T1", "client", "prod") /\ Stream("T2", "prod", "client") /\ Before
OrderInv == TypeInv /\ Order

\* Nothing is in flight at the start.
LEMMA InitTypeInv == Init => TypeInv
<1> SUFFICES ASSUME Init PROVE TypeInv
  OBVIOUS
<1>1. /\ SockTypeOK
  BY SockCapAssumption DEF Init, SockInit, SockTypeOK, PeerState
<1>2. TypeOK
  BY <1>1, SizeAssumption, BufSizeAssumption DEF Init, TypeOK, Proc, Worker, Step, LoopStep, Over
<1>3. Ready
  BY DEF Init, Ready, Proc, Worker
<1> QED  BY <1>2, <1>3 DEF TypeInv

\* n = recv(s) keeps the types.
LEMMA RecvTypeInv ==
  ASSUME TypeInv, NEW p \in Proc, NEW s \in Sock,
         Recv(p, s, "send", "shut1"), UNCHANGED <<mode, pipeVars>>
  PROVE  TypeInv'
<1>1. CASE /\ \E k \in 1 .. BufSize :
                 /\ k =< Len(inq[s])
                 /\ buf' = [buf EXCEPT ![p] = SubSeq(inq[s], 1, k)]
                 /\ Receive(s, k)
           /\ Goto(p, "send")
  <2>1. PICK k \in 1 .. BufSize :
           /\ k =< Len(inq[s])
           /\ buf' = [buf EXCEPT ![p] = SubSeq(inq[s], 1, k)]
           /\ Receive(s, k)
    BY <1>1
  <2>2. inq[s] \in Seq(Nat) /\ k \in 1 .. Len(inq[s]) /\ Len(inq[s]) =< SockCap
    BY <2>1, BufSizeAssumption DEF TypeInv, TypeOK, SockTypeOK
  <2>3. SockTypeOK'
    <3>1. inq' = [inq EXCEPT ![s] = SubSeq(@, k + 1, Len(@))]
      BY <2>1 DEF Receive
    <3>2. /\ SubSeq(inq[s], k + 1, Len(inq[s])) \in Seq(Nat)
          /\ Len(SubSeq(inq[s], k + 1, Len(inq[s]))) =< SockCap
      BY <2>2, Cut, SockCapAssumption
    <3>3. inq' \in [Sock -> Seq(Nat)] /\ \A x \in Sock : Len(inq'[x]) =< SockCap
      BY <3>1, <3>2 DEF TypeInv, TypeOK, SockTypeOK
    <3> QED  BY <2>1, <3>3 DEF TypeInv, TypeOK, SockTypeOK, Receive
  <2>4. /\ buf' \in [Proc -> Seq(Nat)]
        /\ \A x \in Proc : Len(buf'[x]) =< BufSize
        /\ Len(buf'[p]) > 0
    <3>1. /\ SubSeq(inq[s], 1, k) \in Seq(Nat)
          /\ Len(SubSeq(inq[s], 1, k)) = k
      BY <2>2, Cut
    <3>2. buf \in [Proc -> Seq(Nat)] /\ \A x \in Proc : Len(buf[x]) =< BufSize
      BY DEF TypeInv, TypeOK
    <3> HIDE DEF Proc
    <3> QED  BY <2>1, <3>1, <3>2, BufSizeAssumption
  <2>5. pc' = [pc EXCEPT ![p] = "send"] /\ off' = off /\ off[p] = 0
    BY <1>1 DEF Goto, Recv, TypeInv, Ready
  <2>6. TypeOK'
    BY <2>3, <2>4, <2>5 DEF TypeInv, TypeOK, Recv, Step, LoopStep, pipeVars
  <2>7. Ready'
    BY <2>1, <2>4, <2>5 DEF TypeInv, TypeOK, Ready
  <2> QED  BY <2>6, <2>7 DEF TypeInv
<1>2. CASE AtEnd(s) /\ Goto(p, "shut1") /\ UNCHANGED <<sockVars, buf>>
  BY <1>2 DEF TypeInv, TypeOK, SockTypeOK, Ready, Recv, Goto, sockVars, Step, LoopStep, pipeVars
<1> QED  BY <1>1, <1>2 DEF Recv

\* send(s) keeps the types, whatever becomes of the data.
LEMMA SendTypeInv ==
  ASSUME TypeInv, NEW p \in Proc, NEW s \in Sock, NEW at \in {"send", "sendDup"},
         NEW next \in {"recv", "sendDup", "recvDup", "write"},
         Send(p, at, s, next), UNCHANGED <<mode, pipeVars>>
  PROVE  TypeInv'
<1>1. /\ off[p] < Len(buf[p]) /\ off[p] \in Nat /\ buf[p] \in Seq(Nat)
      /\ pc \in [Proc -> Step] /\ off \in [Proc -> Nat]
      /\ buf \in [Proc -> Seq(Nat)] /\ \A x \in Proc : Len(buf[x]) =< BufSize
  BY DEF TypeInv, TypeOK, Ready, Send
<1>2. next \in Step /\ "killed" \in Step
  BY DEF Step, LoopStep, Over
<1>3. ASSUME NEW n \in Step, n \in {next, "killed"}, off' = [off EXCEPT ![p] = 0],
             Goto(p, n), Drop(p, n), SockTypeOK', UNCHANGED <<pipe, dropped>>
      PROVE  TypeInv'
  <2>1. buf' \in [Proc -> Seq(Nat)] /\ \A x \in Proc : Len(buf'[x]) =< BufSize
    BY <1>1, <1>3, BufSizeAssumption DEF Drop
  <2>2. TypeOK'
    BY <2>1, <1>1, <1>3 DEF TypeInv, TypeOK, Goto
  <2>3. n = "sendDup" => buf' = buf
    BY <1>1, <1>3 DEF Drop
  <2>4. Ready'
    BY <2>3, <1>1, <1>3 DEF TypeInv, Ready, Goto, Drop
  <2> QED  BY <2>2, <2>4 DEF TypeInv
<1>4. CASE Transmit(s, NextUnit(p))
           /\ IF LastUnit(p)
              THEN /\ off' = [off EXCEPT ![p] = 0]
                   /\ Goto(p, next)
                   /\ Drop(p, next)
              ELSE /\ off' = [off EXCEPT ![p] = @ + 1]
                   /\ UNCHANGED <<pc, buf>>
  <2>1. NextUnit(p) \in Nat
    BY <1>1, ElementOfSeq DEF NextUnit
  <2>2. SockTypeOK'
    <3>1. outq[s] \in Seq(Nat) /\ Len(outq[s]) < SockCap /\ Len(outq[s]) \in Nat
      BY <1>4 DEF Transmit, TypeInv, TypeOK, SockTypeOK
    <3>2. /\ Append(outq[s], NextUnit(p)) \in Seq(Nat)
          /\ Len(Append(outq[s], NextUnit(p))) =< SockCap
      BY <3>1, <2>1, SockCapAssumption, AppendProperties
    <3>3. outq' \in [Sock -> Seq(Nat)] /\ \A x \in Sock : Len(outq'[x]) =< SockCap
      BY <1>4, <3>2 DEF Transmit, TypeInv, TypeOK, SockTypeOK
    <3> QED  BY <1>4, <3>3 DEF Transmit, TypeInv, TypeOK, SockTypeOK
  <2>3. CASE LastUnit(p)
    BY <1>2, <1>3, <1>4, <2>2, <2>3 DEF Send, pipeVars
  <2>4. CASE ~LastUnit(p)
    <3>1. /\ off' = [off EXCEPT ![p] = @ + 1] /\ UNCHANGED <<pc, buf>>
          /\ off[p] + 1 < Len(buf[p])
      BY <1>1, <1>4, <2>4 DEF LastUnit
    <3>2. TypeOK'
      BY <3>1, <1>1, <2>2 DEF TypeInv, TypeOK, Send, pipeVars
    <3>3. Ready'
      BY <3>1, <1>1 DEF TypeInv, Ready, Send
    <3> QED  BY <3>2, <3>3 DEF TypeInv
  <2> QED  BY <2>3, <2>4
<1>5. CASE UNCHANGED sockVars
           /\ off' = [off EXCEPT ![p] = 0]
           /\ \/ Goto(p, next) /\ Drop(p, next)
              \/ Goto(p, "killed") /\ Drop(p, "killed")
  <2>1. SockTypeOK'
    BY <1>5 DEF TypeInv, TypeOK, SockTypeOK, sockVars
  <2> QED  BY <1>5, <2>1, <1>2, <1>3 DEF Send, pipeVars
<1> QED  BY <1>4, <1>5 DEF Send

\* A step that only moves on, leaves the sockets well typed and is not a step
\* into or out of send() keeps the types.
LEMMA MoveTypeInv ==
  ASSUME TypeInv, NEW p \in Proc, NEW at \in Step \ {"send", "sendDup"},
         NEW next \in Step \ {"send", "sendDup"},
         pc[p] = at, Goto(p, next), SockTypeOK',
         UNCHANGED <<mode, buf, off, pipe, dropped>>
  PROVE  TypeInv'
<1>1. TypeOK'
  BY DEF TypeInv, TypeOK, Goto
<1>2. Ready'
  BY DEF TypeInv, TypeOK, Ready, Goto
<1> QED  BY <1>1, <1>2 DEF TypeInv

\* shutdown() and close() at the end of a loop keep the types.
LEMMA ShutTypeInv ==
  ASSUME TypeInv, NEW p \in Proc, NEW s \in Sock,
         NEW at \in {"shut1", "shut2", "shut3"},
         NEW next \in {"shut2", "shut3", "done"},
         Shut(p, at, s, next), UNCHANGED <<mode, pipeVars>>
  PROVE  TypeInv'
<1>1. SockTypeOK'
  BY DEF Shut, ShutDown, TypeInv, TypeOK, SockTypeOK
<1>2. at \in Step \ {"send", "sendDup"} /\ next \in Step \ {"send", "sendDup"}
  BY DEF Step, LoopStep, Over
<1> QED  BY <1>1, <1>2, MoveTypeInv DEF Shut, pipeVars

\* A buffer that is done with is empty.
LEMMA DropTypeOK ==
  ASSUME TypeInv, NEW p \in Proc, Drop(p, "recv")
  PROVE  buf' \in [Proc -> Seq(Nat)] /\ \A x \in Proc : Len(buf'[x]) =< BufSize
BY BufSizeAssumption DEF Drop, TypeInv, TypeOK

\* T2's recv() of the clone's answer keeps the types.
LEMMA RecvDupTypeInv ==
  ASSUME TypeInv, NEW p \in Proc, "dup" \in Sock, RecvDup(p), UNCHANGED <<mode, pipeVars>>
  PROVE  TypeInv'
<1>1. SockTypeOK'
  <2>1. CASE UNCHANGED sockVars
    BY <2>1 DEF TypeInv, TypeOK, SockTypeOK, sockVars
  <2>2. CASE \E k \in 1 .. Len(buf[p]) : k =< Len(inq["dup"]) /\ Receive("dup", k)
    <3>1. PICK k \in 1 .. Len(buf[p]) : k =< Len(inq["dup"]) /\ Receive("dup", k)
      BY <2>2
    <3>2. k \in 1 .. Len(inq["dup"])
      BY <3>1 DEF TypeInv, TypeOK, SockTypeOK
    <3> QED  BY <3>1, <3>2, ReceiveTypeOK DEF TypeInv, TypeOK
  <2> QED  BY <2>1, <2>2 DEF RecvDup
<1>2. TypeOK'
  BY <1>1, DropTypeOK DEF TypeInv, TypeOK, RecvDup, Goto, Step, LoopStep, pipeVars
<1>3. Ready'
  BY DEF TypeInv, TypeOK, Ready, RecvDup, Goto, Drop
<1> QED  BY <1>2, <1>3 DEF TypeInv

\* T1's write() to the pipe never fills it beyond its capacity.
LEMMA WritePipeTypeInv ==
  ASSUME TypeInv, NEW p \in Proc, WritePipe(p, "recv"), UNCHANGED mode
  PROVE  TypeInv'
<1>1. pipe \in Seq(Nat) /\ buf[p] \in Seq(Nat)
  BY DEF TypeInv, TypeOK
<1>2. pipe' \in Seq(Nat) /\ Len(pipe') =< PipeCap
  <2>1. /\ pipe \o buf[p] \in Seq(Nat)
        /\ Len(pipe \o buf[p]) = Len(pipe) + Len(buf[p])
    BY <1>1, ConcatProperties
  <2>2. Len(pipe) =< PipeCap
    BY DEF TypeInv, TypeOK
  <2>3. \/ Fits(p) /\ pipe' = pipe \o buf[p]
        \/ pipe' = pipe
    BY DEF WritePipe
  <2> QED  BY <1>1, <2>1, <2>2, <2>3 DEF Fits
<1>3. dropped' \in SUBSET Nat
  <2>1. \A i \in 1 .. Len(buf[p]) : buf[p][i] \in Nat
    BY <1>1, ElementOfSeq
  <2>2. Units(buf[p]) \subseteq Nat
    BY <2>1 DEF Units
  <2>3. dropped' \in {dropped, dropped \cup Units(buf[p])}
    BY DEF WritePipe
  <2> QED  BY <2>2, <2>3 DEF TypeInv, TypeOK
<1>4. SockTypeOK'
  BY DEF WritePipe, sockVars, TypeInv, TypeOK, SockTypeOK
<1>5. TypeOK'
  BY <1>2, <1>3, <1>4, DropTypeOK DEF TypeInv, TypeOK, WritePipe, Goto, Step, LoopStep
<1>6. Ready'
  BY DEF TypeInv, TypeOK, Ready, WritePipe, Goto, Drop
<1> QED  BY <1>5, <1>6 DEF TypeInv

\* T3's read() of the pipe gives it a buffer that is not empty.
LEMMA ReadPipeTypeInv ==
  ASSUME TypeInv, NEW p \in Proc, ReadPipe(p), UNCHANGED mode
  PROVE  TypeInv'
<1>1. PICK k \in 1 .. BufSize :
         /\ k =< Len(pipe)
         /\ buf' = [buf EXCEPT ![p] = SubSeq(pipe, 1, k)]
         /\ pipe' = SubSeq(pipe, k + 1, Len(pipe))
  BY DEF ReadPipe
<1>2. pipe \in Seq(Nat) /\ k \in 1 .. Len(pipe) /\ Len(pipe) =< PipeCap
  BY <1>1, BufSizeAssumption DEF TypeInv, TypeOK
<1>3. /\ SubSeq(pipe, 1, k) \in Seq(Nat) /\ Len(SubSeq(pipe, 1, k)) = k
      /\ pipe' \in Seq(Nat) /\ Len(pipe') =< PipeCap
  BY <1>1, <1>2, Cut, SizeAssumption, BufSizeAssumption
<1>4. /\ buf' \in [Proc -> Seq(Nat)]
      /\ \A x \in Proc : Len(buf'[x]) =< BufSize
      /\ Len(buf'[p]) > 0
  <2>1. buf \in [Proc -> Seq(Nat)] /\ \A x \in Proc : Len(buf[x]) =< BufSize
    BY DEF TypeInv, TypeOK
  <2> HIDE DEF Proc
  <2> QED  BY <1>1, <1>3, <2>1, BufSizeAssumption
<1>5. SockTypeOK'
  BY DEF ReadPipe, sockVars, TypeInv, TypeOK, SockTypeOK
<1>6. TypeOK'
  BY <1>3, <1>4, <1>5 DEF TypeInv, TypeOK, ReadPipe, Goto, Step, LoopStep
<1>7. Ready'
  BY <1>1, <1>4 DEF TypeInv, TypeOK, Ready, ReadPipe, Goto
<1> QED  BY <1>6, <1>7 DEF TypeInv

\* Connecting and forking keep the types; no worker starts inside a send().
LEMMA HandleClientTypeInv ==
  ASSUME TypeInv, handle_client
  PROVE  TypeInv'
<1>1. {"client", "prod", "dup"} \subseteq Sock /\ "H" \in Proc
  BY SockAssumption DEF Proc
<1>2. pc["H"] \in Step /\ Worker \subseteq Proc
  BY DEF TypeInv, TypeOK, Proc
<1>3. ASSUME UNCHANGED sockVars PROVE SockTypeOK'
  BY <1>3 DEF TypeInv, TypeOK, SockTypeOK, sockVars
<1>4. ASSUME NEW s \in Sock, Connected(s) PROVE SockTypeOK'
  BY <1>4 DEF Connected, TypeInv, TypeOK, SockTypeOK, PeerState
<1>5. {"connectProd", "connectDup", "pipe", "fork", "done"}
        \subseteq Step \ {"send", "sendDup"}
  BY DEF Step, LoopStep, Over
<1>6. CASE ConnectProd
  <2>1. SockTypeOK'
    BY <1>1, <1>3, <1>4, <1>6 DEF ConnectProd
  <2> QED  BY <1>1, <1>5, <1>6, <2>1, MoveTypeInv DEF ConnectProd
<1>7. CASE ConnectDup
  <2>1. SockTypeOK'
    BY <1>1, <1>3, <1>4, <1>7 DEF ConnectDup
  <2> QED  BY <1>1, <1>5, <1>7, <2>1, MoveTypeInv DEF ConnectDup
<1>8. CASE MakePipe
  <2>1. SockTypeOK'
    BY <1>3, <1>8 DEF MakePipe
  <2> QED  BY <1>1, <1>5, <1>8, <2>1, MoveTypeInv DEF MakePipe
<1>9. ASSUME NEW p \in Worker, NEW last \in BOOLEAN, Forks(p, last)
      PROVE  TypeInv'
  <2>1. /\ \E step \in Step \ {"send", "sendDup"} :
              pc' = [pc EXCEPT ![p] = step, !["H"] = IF last THEN "done" ELSE @]
        /\ p \in Proc /\ p # "H"
        /\ UNCHANGED <<mode, buf, off, pipe, dropped>>
        /\ pc["H"] = "fork" /\ pc[p] = "none"
    BY <1>9 DEF Forks, Entry, Step, LoopStep, Over, Worker, Proc
  <2>2. SockTypeOK'
    BY <1>3, <1>9 DEF Forks
  <2>3. pc' \in [Proc -> Step]
    BY <2>1, <1>5 DEF TypeInv, TypeOK
  <2>4. TypeOK'
    BY <2>1, <2>2, <2>3 DEF TypeInv, TypeOK
  <2>5. Ready'
    BY <2>1 DEF TypeInv, TypeOK, Ready
  <2> QED  BY <2>4, <2>5 DEF TypeInv
<1>10. {"T1", "T2", "T3", "T4"} \subseteq Worker /\ (~Asynch) \in BOOLEAN
  BY DEF Worker, Asynch
<1> QED  BY <1>6, <1>7, <1>8, <1>9, <1>10
         DEF handle_client, ForkT1, ForkT2, ForkT3, ForkT4

\* T4's recv() of what the clone answers keeps the types.
LEMMA DrainTypeInv ==
  ASSUME TypeInv, NEW p \in Proc, "dup" \in Sock, Drain(p, "dup"), UNCHANGED <<mode, pipeVars>>
  PROVE  TypeInv'
<1>1. PICK k \in 1 .. BufSize : k =< Len(inq["dup"]) /\ Receive("dup", k)
  BY DEF Drain
<1>2. k \in 1 .. Len(inq["dup"])
  BY <1>1, BufSizeAssumption DEF TypeInv, TypeOK, SockTypeOK
<1>3. SockTypeOK'
  BY <1>1, <1>2, ReceiveTypeOK DEF TypeInv, TypeOK
<1>4. TypeOK'
  BY <1>3 DEF TypeInv, TypeOK, Drain, pipeVars
<1>5. Ready'
  BY DEF TypeInv, Ready, Drain
<1> QED  BY <1>4, <1>5 DEF TypeInv

\* Every step of T1 .. T4 keeps the types.
LEMMA WorkersTypeInv ==
  ASSUME TypeInv, T1 \/ T2 \/ T3 \/ T4
  PROVE  TypeInv'
<1>1. /\ {"client", "prod", "dup"} \subseteq Sock
      /\ {"T1", "T2", "T3", "T4"} \subseteq Proc
  BY SockAssumption DEF Proc, Worker
<1>2. {"shut1", "recv", "sleep"} \subseteq Step \ {"send", "sendDup"}
  BY DEF Step, LoopStep
<1>3. ASSUME UNCHANGED sockVars PROVE SockTypeOK'
  BY <1>3 DEF TypeInv, TypeOK, SockTypeOK, sockVars
<1>4. ASSUME NEW p \in Proc, NEW src \in Sock, NEW dst \in Sock,
             forward_data(p, src, dst), UNCHANGED <<mode, pipeVars>>
      PROVE  TypeInv'
  BY <1>4, RecvTypeInv, SendTypeInv, ShutTypeInv DEF forward_data, Shut2
<1>5. ASSUME forward_data_synch("T1"), UNCHANGED mode PROVE TypeInv'
  BY <1>1, <1>5, RecvTypeInv, SendTypeInv, ShutTypeInv
     DEF forward_data_synch, Shut3
<1>6. ASSUME forward_data_asynch("T1"), UNCHANGED mode PROVE TypeInv'
  BY <1>1, <1>6, RecvTypeInv, SendTypeInv, ShutTypeInv, WritePipeTypeInv
     DEF forward_data_asynch, Shut2
<1>7. ASSUME receive_data_synch("T2"), UNCHANGED mode PROVE TypeInv'
  BY <1>1, <1>7, RecvTypeInv, SendTypeInv, ShutTypeInv, RecvDupTypeInv
     DEF receive_data_synch, Shut3
<1>8. ASSUME forward_data_pipe("T3"), UNCHANGED mode PROVE TypeInv'
  <2>1. CASE /\ pc["T3"] = "sleep"
             /\ Goto("T3", "recv")
             /\ UNCHANGED <<sockVars, buf, off, pipeVars>>
    BY <1>1, <1>2, <1>3, <1>8, <2>1, MoveTypeInv DEF pipeVars
  <2> QED  BY <1>1, <1>8, <2>1, ReadPipeTypeInv, SendTypeInv DEF forward_data_pipe
<1>9. ASSUME receive_data_asynch("T4"), UNCHANGED mode PROVE TypeInv'
  <2>1. CASE DrainEnd("T4", "dup") /\ UNCHANGED pipeVars
    BY <1>1, <1>2, <1>3, <1>9, <2>1, MoveTypeInv DEF pipeVars, DrainEnd
  <2> QED  BY <1>1, <1>9, <2>1, DrainTypeInv, ShutTypeInv DEF receive_data_asynch
<1> QED  BY <1>1, <1>4, <1>5, <1>6, <1>7, <1>8, <1>9 DEF T1, T2, T3, T4

\* What the client, the servers and a reset do keeps the types.
LEMMA PeersTypeInv ==
  ASSUME TypeInv, Peers
  PROVE  TypeInv'
<1>1. PICK s \in Sock : Reads(s) \/ Writes(s) \/ Quits(s) \/ Resets(s)
  BY DEF Peers
<1>2. /\ inq[s] \in Seq(Nat) /\ outq[s] \in Seq(Nat) /\ got[s] \in Seq(Nat)
      /\ sent[s] \in Nat /\ Base[s] \in Nat
      /\ Len(inq[s]) \in Nat /\ Len(outq[s]) \in Nat
      /\ Len(inq[s]) =< SockCap /\ Len(outq[s]) =< SockCap
  BY BaseAssumption DEF TypeInv, TypeOK, SockTypeOK
<1>3. CASE Reads(s)
  <2>1. outq[s] # <<>> /\ PeerRead(s)
    BY <1>3 DEF Reads, PeerRead
  <2>2. /\ Head(outq[s]) \in Nat /\ Tail(outq[s]) \in Seq(Nat)
        /\ Len(Tail(outq[s])) =< SockCap
    BY <1>2, <2>1, HeadTailProperties, SockCapAssumption
  <2>3. Append(got[s], Head(outq[s])) \in Seq(Nat)
    BY <1>2, <2>2, AppendProperties
  <2>4. SockTypeOK'
    BY <2>1, <2>2, <2>3 DEF PeerRead, TypeInv, TypeOK, SockTypeOK
  <2> QED  BY <1>3, <2>4 DEF Reads, procVars, TypeInv, TypeOK, Ready
<1>4. CASE Writes(s)
  <2>1. PeerWrite(s, Gone)
    BY <1>4 DEF Writes, ClientWrite, ServerWrite
  <2>2. Base[s] + sent[s] + 1 \in Nat
    BY <1>2
  <2>3. /\ Append(inq[s], Base[s] + sent[s] + 1) \in Seq(Nat)
        /\ Len(Append(inq[s], Base[s] + sent[s] + 1)) =< SockCap
    BY <1>2, <2>1, <2>2, AppendProperties, SockCapAssumption DEF PeerWrite
  <2>4. /\ inq' \in [Sock -> Seq(Nat)] /\ \A x \in Sock : Len(inq'[x]) =< SockCap
        /\ sent' \in [Sock -> Nat]
    BY <1>2, <2>1, <2>3, SMTT(60) DEF PeerWrite, TypeInv, TypeOK, SockTypeOK
  <2>5. SockTypeOK'
    BY <2>1, <2>4 DEF PeerWrite, TypeInv, TypeOK, SockTypeOK
  <2> QED  BY <1>4, <2>5 DEF Writes, procVars, TypeInv, TypeOK, Ready
<1>5. CASE Quits(s)
  <2>1. SockTypeOK'
    BY <1>5 DEF Quits, PeerHalfClose, PeerClose, TypeInv, TypeOK, SockTypeOK, PeerState
  <2> QED  BY <1>5, <2>1 DEF Quits, procVars, TypeInv, TypeOK, Ready
<1>6. CASE Resets(s)
  <2>1. PICK k \in 0 .. Len(outq[s]) - 1 :
           outq' = [outq EXCEPT ![s] = SubSeq(@, 1, k)]
    BY <1>6 DEF Resets, Reset
  <2>2. SubSeq(outq[s], 1, k) \in Seq(Nat) /\ Len(SubSeq(outq[s], 1, k)) =< SockCap
    <3>1. k \in 0 .. Len(outq[s])
      BY <1>2, <2>1
    <3>2. SubSeq(outq[s], 1, k) \in Seq(Nat) /\ Len(SubSeq(outq[s], 1, k)) = k
      BY <1>2, <3>1, Prefix
    <3> QED  BY <1>2, <3>1, <3>2, SockCapAssumption
  <2>3. SockTypeOK'
    BY <1>6, <2>1, <2>2 DEF Resets, Reset, TypeInv, TypeOK, SockTypeOK
  <2> QED  BY <1>6, <2>3 DEF Resets, procVars, TypeInv, TypeOK, Ready
<1> QED  BY <1>1, <1>3, <1>4, <1>5, <1>6

\* TypeInv is inductive.
LEMMA NextTypeInv == TypeInv /\ [Next]_vars => TypeInv'
<1> SUFFICES ASSUME TypeInv, [Next]_vars PROVE TypeInv'
  OBVIOUS
<1>1. CASE UNCHANGED vars
  BY <1>1 DEF vars, sockVars, TypeInv, TypeOK, SockTypeOK, Ready
<1> QED
  BY <1>1, HandleClientTypeInv, WorkersTypeInv, PeersTypeInv DEF Next

\* Type correctness, whatever the options, the sizes and the peers: no buffer
\* outgrows BUF_SIZE, no socket or pipe holds more than it can, and send() is
\* never entered with nothing to hand over.
THEOREM TypeCorrect == Spec => []TypeOK
<1>1. TypeInv => TypeOK
  BY DEF TypeInv
<1> QED  BY <1>1, InitTypeInv, NextTypeInv, PTL DEF Spec

----------------------------------------------------------------------------
(* Both streams arrive in order.                                           *)

\* The loops of the duplicator are those of the generic lemmas.
LEMMA Loops ==
  ASSUME TypeInv
  PROVE  /\ LoopInv(Proc, Step, {"send", "sendDup"})
         /\ {"H", "T1", "T2", "T3", "T4"} \subseteq Proc
         /\ {"client", "prod", "dup"} \subseteq Sock
BY SockAssumption DEF TypeInv, TypeOK, Ready, LoopInv, Proc, Worker

\* At the start nothing is on its way.
LEMMA InitOrder == Init => Order
<1> SUFFICES ASSUME Init PROVE Order
  OBVIOUS
<1>1. /\ {"client", "prod"} \subseteq Sock
      /\ pc["T1"] = "none" /\ pc["T2"] = "none" /\ pc["H"] = "connectProd"
  BY SockAssumption DEF Init, Proc, Worker
<1>2. \A s \in {"client", "prod"} :
         got[s] = <<>> /\ outq[s] = <<>> /\ inq[s] = <<>> /\ sent[s] = 0
  BY <1>1 DEF Init, SockInit
<1> QED  BY <1>1, <1>2, StreamInit DEF Order, Before

\* Connecting does not touch the streams, and each starts with all of its data
\* before it.
LEMMA HandleClientOrder ==
  ASSUME OrderInv, handle_client
  PROVE  Order'
<1>1. /\ UNCHANGED <<got, outq, inq, sent, buf, off, shut>>
      /\ pc \in [Proc -> Step] /\ peer \in [Sock -> PeerState]
      /\ Stream("T1", "client", "prod") /\ Stream("T2", "prod", "client") /\ Before
  BY DEF handle_client, ConnectProd, ConnectDup, MakePipe, ForkT1, ForkT2, ForkT3,
         ForkT4, Forks, Connected, sockVars, OrderInv, Order, TypeInv, TypeOK, SockTypeOK
<1>2. {"H", "T1", "T2", "T3", "T4"} \subseteq Proc /\ {"client", "prod", "dup"} \subseteq Sock
  BY Loops DEF OrderInv
<1>3. CASE ConnectProd \/ ConnectDup \/ MakePipe
  <2>1. /\ pc["T1"] = "none" /\ UNCHANGED <<pc["T1"], pc["T2"], peer["client"]>>
    BY <1>1, <1>2, <1>3
       DEF Before, ConnectProd, ConnectDup, MakePipe, Goto, Connected, sockVars
  <2>2. Writable("client")' => Writable("client")
    BY <1>1, <2>1 DEF Writable
  <2> QED  BY <1>1, <2>1, <2>2, StreamStill DEF Order, Before
<1>4. ASSUME NEW p \in {"T1", "T2", "T3", "T4"}, NEW last, Forks(p, last)
      PROVE  Order'
  <2>1. /\ pc[p] = "none" /\ pc'[p] \in {"recv", "sleep", "done"}
        /\ pc'["H"] \in {"fork", "done"}
        /\ p \in {"T1", "T2"} => pc'[p] \in {"recv", "done"}
        /\ \A q \in {"T1", "T2"} : q # p => pc'[q] = pc[q]
        /\ UNCHANGED peer
    BY <1>1, <1>2, <1>4 DEF Forks, Entry, sockVars
  <2>2. \A s \in Sock : Writable(s)' = Writable(s)
    BY <1>1, <2>1 DEF Writable
  <2>3. Before'
    BY <2>1 DEF Before
  <2>4. ASSUME NEW q \in {"T1", "T2"}, NEW s \in Sock, NEW d \in Sock, Stream(q, s, d)
        PROVE  Stream(q, s, d)'
    <3>1. CASE q = p
      BY <1>1, <2>1, <2>2, <2>4, <3>1, StreamMove DEF Flow
    <3>2. CASE q # p
      BY <1>1, <2>1, <2>2, <2>4, <3>2, StreamStill
    <3> QED  BY <3>1, <3>2
  <2> QED  BY <1>1, <1>2, <2>3, <2>4 DEF Order
<1> QED  BY <1>3, <1>4 DEF handle_client, ForkT1, ForkT2, ForkT3, ForkT4

\* A step of a worker leaves H where it is, and is no step of T1 before its fork.
LEMMA WorkersBefore ==
  ASSUME OrderInv, T1 \/ T2 \/ T3 \/ T4
  PROVE  Before'
<1>1. /\ pc \in [Proc -> Step] /\ {"H", "T1", "T2", "T3", "T4"} \subseteq Proc
      /\ Before
  BY Loops DEF OrderInv, Order, TypeInv, TypeOK
<1>2. ASSUME NEW p \in {"T1", "T2", "T3", "T4"}, pc[p] # "none",
             UNCHANGED pc \/ \E next : Goto(p, next)
      PROVE  Before'
  BY <1>1, <1>2 DEF Before, Goto
<1>3. CASE T1
  <2>1. pc["T1"] # "none" /\ (UNCHANGED pc \/ \E next : Goto("T1", next))
    BY <1>3 DEF T1, forward_data, forward_data_synch, forward_data_asynch, Recv, Send,
                Shut, Shut2, Shut3, WritePipe
  <2> QED  BY <1>2, <2>1
<1>4. CASE T2
  <2>1. pc["T2"] # "none" /\ (UNCHANGED pc \/ \E next : Goto("T2", next))
    BY <1>4 DEF T2, forward_data, receive_data_synch, Recv, Send, Shut, Shut2, Shut3, RecvDup
  <2> QED  BY <1>2, <2>1
<1>5. CASE T3
  <2>1. pc["T3"] # "none" /\ (UNCHANGED pc \/ \E next : Goto("T3", next))
    BY <1>5 DEF T3, forward_data_pipe, ReadPipe, Send
  <2> QED  BY <1>2, <2>1
<1>6. CASE T4
  <2>1. pc["T4"] # "none" /\ (UNCHANGED pc \/ \E next : Goto("T4", next))
    BY <1>6 DEF T4, receive_data_asynch, Drain, DrainEnd, Shut
  <2> QED  BY <1>2, <2>1
<1> QED  BY <1>3, <1>4, <1>5, <1>6

\* A step outside the sockets, of a process that holds nothing of the stream.
LEMMA QuietStream ==
  ASSUME OrderInv, NEW p \in {"T1", "T2"}, NEW s, NEW d, Stream(p, s, d),
         NEW q \in Proc, UNCHANGED <<got[d], outq[d], inq[s], sent[s], shut, peer>>,
         q # p \/ (pc[p] \in Flow \ {"send"} /\ pc'[p] = "recv"),
         NEW next, Goto(q, next),
         \A r \in Proc : r # q => UNCHANGED <<buf[r], off[r]>>
  PROVE  Stream(p, s, d)'
<1>1. p \in Proc /\ pc \in [Proc -> Step]
  BY DEF Proc, Worker, OrderInv, TypeInv, TypeOK
<1>2. Writable(d)' = Writable(d)
  BY DEF Writable
<1>3. CASE q # p
  <2>1. pc'[p] = pc[p]
    BY <1>1, <1>3 DEF Goto
  <2> QED  BY <1>1, <1>2, <1>3, <2>1, StreamStill
<1>4. CASE pc[p] \in Flow \ {"send"} /\ pc'[p] = "recv"
  BY <1>2, <1>4, StreamMove DEF Flow
<1> QED  BY <1>3, <1>4

\* T1, in whichever of its three loops.
LEMMA T1Order ==
  ASSUME OrderInv, T1
  PROVE  Stream("T1", "client", "prod")' /\ Stream("T2", "prod", "client")'
<1> DEFINE Sends == {"send", "sendDup"}
<1>1. /\ LoopInv(Proc, Step, Sends) /\ "recv" \notin Sends /\ "send" \in Sends
      /\ {"T1", "T2"} \subseteq Proc /\ {"client", "prod", "dup"} \subseteq Sock
      /\ Stream("T1", "client", "prod") /\ Stream("T2", "prod", "client")
  BY Loops DEF OrderInv, Order
<1> HIDE DEF Sends
<1>2. CASE Recv("T1", "client", "send", "shut1")
  <2>1. Stream("T1", "client", "prod")'
    BY <1>1, <1>2, StreamRecv DEF Flow
  <2>2. Stream("T2", "prod", "client")'
    BY <1>1, <1>2, StreamOthers
  <2> QED  BY <2>1, <2>2
<1>3. ASSUME NEW next \in {"recv", "sendDup", "write"}, Send("T1", "send", "prod", next)
      PROVE  Stream("T1", "client", "prod")' /\ Stream("T2", "prod", "client")'
  <2>1. Stream("T1", "client", "prod")'
    BY <1>1, <1>3, StreamSend DEF Flow
  <2>2. Stream("T2", "prod", "client")'
    BY <1>1, <1>3, StreamOthers
  <2> QED  BY <2>1, <2>2
<1>4. CASE Send("T1", "sendDup", "dup", "recv")
  <2>1. Stream("T1", "client", "prod")'
    BY <1>1, <1>4, StreamSendDup
  <2>2. Stream("T2", "prod", "client")'
    BY <1>1, <1>4, StreamOthers
  <2> QED  BY <2>1, <2>2
<1>5. ASSUME NEW s \in Sock, NEW at \in {"shut1", "shut2", "shut3"},
             NEW next \in {"shut2", "shut3", "done"}, Shut("T1", at, s, next)
      PROVE  Stream("T1", "client", "prod")' /\ Stream("T2", "prod", "client")'
  <2>1. Stream("T1", "client", "prod")'
    BY <1>1, <1>5, StreamShut DEF Flow
  <2>2. Stream("T2", "prod", "client")'
    BY <1>1, <1>5, StreamOthers
  <2> QED  BY <2>1, <2>2
<1>6. CASE WritePipe("T1", "recv")
  <2>1. /\ pc["T1"] = "write" /\ Goto("T1", "recv") /\ UNCHANGED <<sockVars, off>>
        /\ pc'["T1"] = "recv"
        /\ \A r \in Proc : r # "T1" => UNCHANGED buf[r]
    BY <1>1, <1>6 DEF WritePipe, Drop, Goto, LoopInv
  <2> QED  BY <1>1, <2>1, QuietStream DEF sockVars, Flow
<1> QED  BY <1>1, <1>2, <1>3, <1>4, <1>5, <1>6
         DEF T1, forward_data, forward_data_synch, forward_data_asynch, Shut2, Shut3

\* T2, with or without the clone's answers.
LEMMA T2Order ==
  ASSUME OrderInv, T2
  PROVE  Stream("T1", "client", "prod")' /\ Stream("T2", "prod", "client")'
<1> DEFINE Sends == {"send", "sendDup"}
<1>1. /\ LoopInv(Proc, Step, Sends) /\ "recv" \notin Sends /\ "send" \in Sends
      /\ {"T1", "T2"} \subseteq Proc /\ {"client", "prod", "dup"} \subseteq Sock
      /\ Stream("T1", "client", "prod") /\ Stream("T2", "prod", "client")
  BY Loops DEF OrderInv, Order
<1> HIDE DEF Sends
<1>2. CASE Recv("T2", "prod", "send", "shut1")
  <2>1. Stream("T2", "prod", "client")'
    BY <1>1, <1>2, StreamRecv DEF Flow
  <2>2. Stream("T1", "client", "prod")'
    BY <1>1, <1>2, StreamOthers
  <2> QED  BY <2>1, <2>2
<1>3. ASSUME NEW next \in {"recv", "recvDup"}, Send("T2", "send", "client", next)
      PROVE  Stream("T1", "client", "prod")' /\ Stream("T2", "prod", "client")'
  <2>1. Stream("T2", "prod", "client")'
    BY <1>1, <1>3, StreamSend DEF Flow
  <2>2. Stream("T1", "client", "prod")'
    BY <1>1, <1>3, StreamOthers
  <2> QED  BY <2>1, <2>2
<1>4. ASSUME NEW s \in Sock, NEW at \in {"shut1", "shut2", "shut3"},
             NEW next \in {"shut2", "shut3", "done"}, Shut("T2", at, s, next)
      PROVE  Stream("T1", "client", "prod")' /\ Stream("T2", "prod", "client")'
  <2>1. Stream("T2", "prod", "client")'
    BY <1>1, <1>4, StreamShut DEF Flow
  <2>2. Stream("T1", "client", "prod")'
    BY <1>1, <1>4, StreamOthers
  <2> QED  BY <2>1, <2>2
<1>5. CASE RecvDup("T2")
  <2>1. UNCHANGED <<got, outq, sent, shut, peer, inq["client"], inq["prod"]>>
    <3>1. ASSUME NEW k, Receive("dup", k)
          PROVE  UNCHANGED <<got, outq, sent, shut, peer, inq["client"], inq["prod"]>>
      BY <1>1, <3>1 DEF Receive, LoopInv, SockTypeOK
    <3> QED  BY <1>5, <3>1 DEF RecvDup, sockVars
  <2>2. /\ pc["T2"] = "recvDup" /\ pc'["T2"] = "recv" /\ Goto("T2", "recv") /\ UNCHANGED off
        /\ \A r \in Proc : r # "T2" => UNCHANGED buf[r]
    BY <1>1, <1>5 DEF RecvDup, Drop, Goto, LoopInv
  <2> QED  BY <1>1, <2>1, <2>2, QuietStream DEF Flow
<1> QED  BY <1>1, <1>2, <1>3, <1>4, <1>5
         DEF T2, forward_data, receive_data_synch, Shut2, Shut3

\* T3 and T4 deal with the clone only, and with the end of the connection.
LEMMA CloneOrder ==
  ASSUME OrderInv, T3 \/ T4
  PROVE  Stream("T1", "client", "prod")' /\ Stream("T2", "prod", "client")'
<1>1. /\ LoopInv(Proc, Step, {"send", "sendDup"})
      /\ {"T1", "T2", "T3", "T4"} \subseteq Proc /\ {"client", "prod", "dup"} \subseteq Sock
  BY Loops DEF OrderInv
<1>2. ASSUME NEW p \in {"T1", "T2"}, NEW s \in {"client", "prod"}, NEW d \in {"client", "prod"},
             Stream(p, s, d)
      PROVE  Stream(p, s, d)'
  <2>1. CASE T3
    <3>1. CASE ReadPipe("T3") \/ (Goto("T3", "recv") /\ UNCHANGED <<sockVars, buf, off>>)
      <4>1. /\ UNCHANGED <<sockVars, off>> /\ \E next : Goto("T3", next)
            /\ \A r \in Proc : r # "T3" => UNCHANGED buf[r]
        BY <1>1, <3>1 DEF ReadPipe, LoopInv
      <4> QED  BY <1>1, <1>2, <4>1, QuietStream DEF sockVars
    <3>2. CASE Send("T3", "send", "dup", "recv")
      BY <1>1, <1>2, <3>2, StreamOthers
    <3> QED  BY <2>1, <3>1, <3>2 DEF T3, forward_data_pipe
  <2>2. CASE T4
    <3>1. \/ Drain("T4", "dup") \/ DrainEnd("T4", "dup") \/ Shut("T4", "shut1", "dup", "done")
      BY <2>2 DEF T4, receive_data_asynch
    <3> QED  BY <1>1, <1>2, <3>1, StreamOthers
  <2> QED  BY <2>1, <2>2
<1> QED  BY <1>2 DEF OrderInv, Order

\* The client and the servers write, read, leave and have connections reset.
LEMMA PeersOrder ==
  ASSUME OrderInv, Peers
  PROVE  Order'
<1>1. /\ LoopInv(Proc, Step, {"send", "sendDup"}) /\ UNCHANGED <<pc, buf, off>>
      /\ {"T1", "T2"} \subseteq Proc /\ {"client", "prod"} \subseteq Sock
  BY Loops DEF OrderInv, Peers, Reads, Writes, Quits, Resets, procVars
<1>2. PICK x \in Sock : Reads(x) \/ Writes(x) \/ Quits(x) \/ Resets(x)
  BY DEF Peers
<1>3. \/ PeerRead(x) \/ PeerWrite(x, Gone) \/ PeerHalfClose(x) \/ PeerClose(x)
      \/ Reset(x, Gone)
  BY <1>2 DEF Reads, Writes, ClientWrite, ServerWrite, Quits, Resets
<1>4. ASSUME NEW p \in {"T1", "T2"}, NEW s \in {"client", "prod"}, NEW d \in {"client", "prod"},
             Stream(p, s, d)
      PROVE  Stream(p, s, d)'
  <2>1. Gone => pc[p] \in Over
    BY <1>1 DEF Gone
  <2> QED  BY <1>1, <1>3, <1>4, <2>1, StreamPeers, SMTT(60)
<1>5. Before'
  BY <1>1 DEF OrderInv, Order, Before
<1> QED  BY <1>4, <1>5 DEF OrderInv, Order

\* OrderInv is inductive.
LEMMA NextOrder == OrderInv /\ [Next]_vars => OrderInv'
<1> SUFFICES ASSUME OrderInv, [Next]_vars PROVE OrderInv'
  OBVIOUS
<1>1. TypeInv'
  BY NextTypeInv DEF OrderInv
<1>2. CASE UNCHANGED vars
  <2>1. Writable("prod")' = Writable("prod") /\ Writable("client")' = Writable("client")
    BY <1>2 DEF vars, sockVars, Writable
  <2>2. Order'
    BY <1>2, <2>1, StreamStill DEF OrderInv, Order, Before, vars, sockVars
  <2> QED  BY <1>1, <2>2 DEF OrderInv
<1>3. CASE Next
  BY <1>1, <1>3, HandleClientOrder, T1Order, T2Order, CloneOrder, WorkersBefore, PeersOrder
     DEF Next, Order, OrderInv
<1> QED  BY <1>2, <1>3

\* Whatever the clone, the replies, full queues, resets and killed workers do,
\* what the production server has read is the beginning of what the client has
\* written: T1's loops neither reorder, repeat, skip nor invent data.
THEOREM StreamInOrder == Spec => []ProductionInOrder
<1>1. Init => OrderInv
  BY InitTypeInv, InitOrder DEF OrderInv
<1>2. OrderInv => ProductionInOrder
  <2>1. Base["client"] = 0 /\ \A i \in Nat : 0 + i = i
    BY SockAssumption
  <2>2. ASSUME OrderInv PROVE Len(got["prod"]) \in Nat
    BY <2>2, Loops, StreamCounts DEF OrderInv
  <2> QED  BY <2>1, <2>2 DEF OrderInv, Order, Stream, Ahead, ProductionInOrder
<1> QED  BY <1>1, <1>2, NextOrder, PTL DEF Spec

\* Likewise what the client has read is the beginning of production's replies: T2
\* puts none of the clone's in their place, in the synchronous loop either.
THEOREM AnswersInOrder == Spec => []RepliesInOrder
<1>1. Init => OrderInv
  BY InitTypeInv, InitOrder DEF OrderInv
<1>2. OrderInv => RepliesInOrder
  BY DEF OrderInv, Order, Stream, Ahead, RepliesInOrder
<1> QED  BY <1>1, <1>2, NextOrder, PTL DEF Spec
=============================================================================
