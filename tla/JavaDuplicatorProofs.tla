------------------------ MODULE JavaDuplicatorProofs ------------------------
(***************************************************************************)
(* Theorems about JavaDuplicator, for every value of its constants.        *)
(***************************************************************************)
EXTENDS JavaDuplicator, ForwarderProofs

\* The steps in which a worker has a buffer to hand on.
Sends == {"send", "write"}

\* The types, and when a buffer or the stream holds something.
TypeInv ==
    /\ LoopInv(Proc, Step, Sends)
    /\ \A p \in Proc : Len(buf[p]) =< BufSize
    /\ duplicate \in Modes
    /\ pipe \in Seq(Nat) /\ Len(pipe) =< PipeCap
    /\ wrote \in BOOLEAN /\ stop \in BOOLEAN

\* While the main thread connects no thread runs and nothing has been forwarded.
Connecting == pc["main"] \in {"connectProd", "connectReplica"}
Fresh ==
    /\ pc["T1"] = "none" /\ pc["T2"] = "none" /\ pc["T3"] = "none" /\ pc["T4"] = "none"
    /\ pipe = <<>>
    /\ got["prod"] = <<>> /\ outq["prod"] = <<>>
Before == Connecting => Fresh

\* How the threads depend on each other: nothing reaches the replica but through
\* T3, and T3 gives up before the replica is gone only when T1 has ended.
Links ==
    /\ pc["T3"] \in {"none", "recv", "send", "killed"}
    /\ pc["T3"] = "none" => got["replica"] = <<>> /\ outq["replica"] = <<>>
    /\ ~duplicate => pc["T3"] = "none" /\ pc["T1"] # "write"
    /\ pc["T3"] = "killed" /\ Writable("replica") => Ended("T1")

\* The copy up to the end of the stream, and what T1 has still to add to it: all
\* of a buffer that it is sending to production first.
Line == Copied + Held("T3") + Len(pipe)
Rest == IF pc["T1"] = "send" THEN Len(buf["T1"])
        ELSE IF pc["T1"] = "write" THEN Len(buf["T1"]) - off["T1"] ELSE 0

\* The copy is the client's stream, from the replica back through T3, the piped
\* stream and T1 to what the client has written.
Copying == pc["T3"] = "none" \/ (Writable("replica") /\ pc["T3"] # "killed")
Filling == duplicate /\ pc["T1"] \in {"none", "recv"} \cup Sends

CopyAhead == Ahead("client", "replica") /\ Copied =< sent["client"]
CopyHeld ==
    pc["T3"] = "send" =>
        \A i \in 1 .. Len(buf["T3"]) : buf["T3"][i] = Copied - off["T3"] + i
CopyPiped == \A i \in 1 .. Len(pipe) : pipe[i] = Copied + Held("T3") + i
CopyRest ==
    /\ Line + Rest + Len(inq["client"]) = sent["client"]
    /\ pc["T1"] \in Sends =>
          \A i \in 1 .. Len(buf["T1"]) :
              buf["T1"][i] = Line + Rest - Len(buf["T1"]) + i

Copy ==
    /\ CopyAhead
    /\ Copying => Line =< sent["client"] /\ CopyHeld /\ CopyPiped /\ (Filling => CopyRest)

\* What production has and the replica has not is on its way; Early is the part of
\* T1's buffer that production has and the stream has not.
Early == IF pc["T1"] = "send" THEN off["T1"]
          ELSE IF pc["T1"] = "write" THEN Len(buf["T1"]) - off["T1"] ELSE 0
Lag == duplicate /\ Writable("prod") /\ Writable("replica") => Forwarded = Line + Early

\* What T1 has in its hands when it turns to the stream, what is in the stream, in
\* T3's hands and at the replica, production has.
Followed ==
    Writable("prod") =>
        /\ Copied =< Forwarded
        /\ \A i \in 1 .. Len(pipe) : pipe[i] =< Forwarded
        /\ pc["T3"] = "send" => \A i \in 1 .. Len(buf["T3"]) : buf["T3"][i] =< Forwarded
        /\ pc["T1"] = "write" => \A i \in 1 .. Len(buf["T1"]) : buf["T1"][i] =< Forwarded

\* Production is given no more than the client has written.
Served == Forwarded =< sent["client"]

Streams == Stream("T1", "client", "prod") /\ Stream("T2", "prod", "client")
Copies == Copy /\ Lag /\ Followed /\ Served
Inv == TypeInv /\ Before /\ Streams /\ Links /\ Copies

----------------------------------------------------------------------------
(* Types.                                                                  *)

LEMMA Names ==
  /\ {"client", "prod", "replica"} \subseteq Sock
  /\ {"main", "T1", "T2", "T3", "T4"} \subseteq Proc
  /\ {"connectProd", "connectReplica", "streams", "start", "accept", "dead", "recv", "shut1",
      "shut2", "shut3", "none", "done", "killed"} \subseteq Step \ Sends
  /\ Sends \subseteq Step /\ Worker \subseteq Proc
BY SockAssumption DEF Proc, Step, LoopStep, Over, Sends, Worker

LEMMA InitTypes == Init => TypeInv
<1> SUFFICES ASSUME Init PROVE TypeInv
  OBVIOUS
<1>1. SockTypeOK
  BY SockCapAssumption DEF Init, SockInit, SockTypeOK, PeerState
<1>2. LoopInv(Proc, Step, Sends)
  BY <1>1, Names DEF Init, LoopInv, Sends
<1>3. Len(<<>>) = 0 /\ <<>> \in Seq(Nat) /\ \A x \in Proc : buf[x] = <<>>
  BY DEF Init
<1>4. \A x \in Proc : Len(buf[x]) =< BufSize
  BY <1>3, BufSizeAssumption
<1>5. pipe \in Seq(Nat) /\ Len(pipe) =< PipeCap /\ wrote \in BOOLEAN /\ stop \in BOOLEAN
  <2>1. pipe = <<>> /\ PipeCap \in Nat /\ wrote = FALSE /\ stop = FALSE
    BY SizeAssumption DEF Init
  <2>2. <<>> \in Seq(Nat) /\ Len(<<>>) = 0
    OBVIOUS
  <2>3. pipe \in Seq(Nat) /\ Len(pipe) = 0
    BY <2>1, <2>2, Zenon
  <2>4. Len(pipe) =< PipeCap
    BY <2>1, <2>3
  <2> QED  BY <2>1, <2>3, <2>4
<1>6. duplicate \in Modes
  BY DEF Init
<1> QED  BY <1>2, <1>4, <1>5, <1>6 DEF TypeInv

\* A step that only moves on, not into or out of handing a buffer on.
LEMMA MoveTypes ==
  ASSUME TypeInv, NEW p \in Proc, pc[p] \notin Sends, NEW next \in Step \ Sends,
         Goto(p, next), SockTypeOK', UNCHANGED <<duplicate, buf, off, pipeVars>>,
         stop' \in BOOLEAN
  PROVE  TypeInv'
<1>1. LoopInv(Proc, Step, Sends)'
  BY MoveLoop DEF TypeInv
<1> QED  BY <1>1 DEF TypeInv, pipeVars

\* in.read() and out.write().
LEMMA RecvTypes ==
  ASSUME TypeInv, NEW p \in Proc, NEW s \in Sock, Recv(p, s, "send", "shut1"),
         UNCHANGED <<duplicate, pipeVars, stop>>
  PROVE  TypeInv'
<1>1. LoopInv(Proc, Step, Sends)'
  <2>1. LoopInv(Proc, Step, Sends) /\ "send" \in Step /\ "shut1" \in Step \ Sends
        /\ "recv" \notin Sends
    BY Names DEF TypeInv, Sends
  <2> QED  BY <2>1, RecvLoop
<1>2. \A x \in Proc : Len(buf'[x]) =< BufSize
  <2>1. CASE UNCHANGED buf
    BY <2>1 DEF TypeInv
  <2>2. CASE \E k \in 1 .. BufSize :
                k =< Len(inq[s]) /\ buf' = [buf EXCEPT ![p] = SubSeq(inq[s], 1, k)]
    <3>1. PICK k \in 1 .. BufSize :
                  k =< Len(inq[s]) /\ buf' = [buf EXCEPT ![p] = SubSeq(inq[s], 1, k)]
      BY <2>2
    <3>2. inq[s] \in Seq(Nat) /\ k \in 1 .. Len(inq[s])
      BY <3>1, BufSizeAssumption DEF TypeInv, LoopInv, SockTypeOK
    <3>3. Len(SubSeq(inq[s], 1, k)) =< BufSize
      BY <3>1, <3>2, Cut, BufSizeAssumption
    <3>4. buf \in [Proc -> Seq(Nat)] /\ \A x \in Proc : Len(buf[x]) =< BufSize
      BY DEF TypeInv, LoopInv
    <3> HIDE DEF Proc
    <3> QED  BY <3>1, <3>3, <3>4
  <2> QED  BY <2>1, <2>2 DEF Recv
<1> QED  BY <1>1, <1>2 DEF TypeInv, pipeVars

\* A buffer that is done with is empty.
LEMMA DropTypes ==
  ASSUME TypeInv, NEW p \in Proc, NEW next, Drop(p, next) \/ UNCHANGED buf
  PROVE  \A x \in Proc : Len(buf'[x]) =< BufSize
<1>1. Len(<<>>) = 0 /\ buf \in [Proc -> Seq(Nat)] /\ \A x \in Proc : Len(buf[x]) =< BufSize
  BY DEF TypeInv, LoopInv
<1> QED  BY <1>1, BufSizeAssumption DEF Drop

LEMMA SendTypes ==
  ASSUME TypeInv, NEW p \in Proc, NEW s \in Sock, NEW next \in {"recv", "write"},
         Send(p, "send", s, next), UNCHANGED <<duplicate, pipeVars, stop>>
  PROVE  TypeInv'
<1>1. LoopInv(Proc, Step, Sends)'
  <2>1. /\ LoopInv(Proc, Step, Sends) /\ "send" \in Sends /\ next \in Step
        /\ next \in Sends => next # "recv"
        /\ "killed" \in Step \ Sends
    BY Names DEF TypeInv, Sends
  <2> QED  BY <2>1, SendLoop
<1>2. \A x \in Proc : Len(buf'[x]) =< BufSize
  BY DropTypes DEF Send
<1> QED  BY <1>1, <1>2 DEF TypeInv, pipeVars

\* kill() and close().
LEMMA KillTypes ==
  ASSUME TypeInv, NEW p \in Proc, kill(p), UNCHANGED <<duplicate, pipeVars>>
  PROVE  TypeInv'
<1>1. ASSUME NEW at \in {"shut1", "shut2", "shut3"}, NEW s \in Sock,
             NEW next \in {"shut2", "shut3", "done"}, Shut(p, at, s, next), stop' \in BOOLEAN
      PROVE  TypeInv'
  <2>1. SockTypeOK'
    BY <1>1, ShutDownTypeOK DEF Shut, TypeInv, LoopInv
  <2>2. pc[p] \notin Sends /\ next \in Step \ Sends
    BY <1>1, Names DEF Shut, Sends
  <2> QED  BY <1>1, <2>1, <2>2, MoveTypes DEF Shut
<1> QED  BY <1>1, Names DEF kill, TypeInv

\* pos.write(): one unit, and only if there is room.
LEMMA WritePipeTypes ==
  ASSUME TypeInv, NEW p \in Proc, WritePipe(p), UNCHANGED duplicate
  PROVE  TypeInv'
<1>1. /\ off[p] < Len(buf[p]) /\ off[p] \in Nat /\ buf[p] \in Seq(Nat) /\ Len(buf[p]) \in Nat
      /\ pc \in [Proc -> Step] /\ off \in [Proc -> Nat] /\ buf \in [Proc -> Seq(Nat)]
      /\ pipe \in Seq(Nat) /\ Len(pipe) =< PipeCap /\ pc[p] = "write" /\ pc[p] \in Sends
  BY DEF WritePipe, TypeInv, LoopInv, Sends
<1>2. pipe' \in Seq(Nat) /\ Len(pipe') =< PipeCap /\ wrote' \in BOOLEAN
  <2>1. CASE UNCHANGED pipeVars
    BY <1>1, <2>1 DEF pipeVars, TypeInv
  <2>2. CASE Len(pipe) < PipeCap /\ pipe' = Append(pipe, NextUnit(p)) /\ wrote' = TRUE
    <3>1. NextUnit(p) \in Nat
      BY <1>1, ElementOfSeq DEF NextUnit
    <3> QED  BY <1>1, <2>2, <3>1, AppendProperties, SizeAssumption
  <2> QED  BY <2>1, <2>2 DEF WritePipe
<1>3. SockTypeOK'
  BY SameSockTypeOK DEF WritePipe, TypeInv, LoopInv
<1>4. LoopInv(Proc, Step, Sends)'
  <2>1. ASSUME NEW n \in {"recv", "killed"}, off' = [off EXCEPT ![p] = 0], Goto(p, n), Drop(p, n)
        PROVE  LoopInv(Proc, Step, Sends)'
    <3>1. n \in Step /\ n \notin Sends
      BY <2>1, Names
    <3>2. buf' \in [Proc -> Seq(Nat)] /\ \A q \in Proc : q # p => buf'[q] = buf[q]
      BY <1>1, <2>1 DEF Drop
    <3>3. pc' \in [Proc -> Step] /\ pc'[p] = n /\ \A q \in Proc : q # p => pc'[q] = pc[q]
      BY <1>1, <2>1, <3>1 DEF Goto
    <3>4. off' \in [Proc -> Nat] /\ off'[p] = 0 /\ \A q \in Proc : q # p => off'[q] = off[q]
      BY <1>1, <2>1
    <3> HIDE DEF Proc
    <3> QED  BY <1>3, <3>1, <3>2, <3>3, <3>4 DEF TypeInv, LoopInv
  <2>2. CASE ~LastUnit(p) /\ off' = [off EXCEPT ![p] = @ + 1] /\ UNCHANGED <<pc, buf>>
    <3>1. off[p] + 1 < Len(buf[p])
      BY <1>1, <2>2 DEF LastUnit
    <3>2. off' \in [Proc -> Nat] /\ off'[p] = off[p] + 1
          /\ \A q \in Proc : q # p => off'[q] = off[q]
      BY <1>1, <2>2
    <3> HIDE DEF Proc
    <3> QED  BY <1>1, <1>3, <2>2, <3>1, <3>2 DEF TypeInv, LoopInv
  <2> QED  BY <2>1, <2>2 DEF WritePipe
<1>5. \A x \in Proc : Len(buf'[x]) =< BufSize
  BY DropTypes DEF WritePipe
<1> QED  BY <1>2, <1>4, <1>5 DEF TypeInv, WritePipe

\* pis.read().
LEMMA ReadPipeTypes ==
  ASSUME TypeInv, NEW p \in Proc, ReadPipe(p), UNCHANGED <<duplicate, stop>>
  PROVE  TypeInv'
<1>1. /\ buf \in [Proc -> Seq(Nat)] /\ pc \in [Proc -> Step] /\ off \in [Proc -> Nat]
      /\ pipe \in Seq(Nat) /\ Len(pipe) =< PipeCap /\ pc[p] = "recv"
      /\ \A x \in Proc : Len(buf[x]) =< BufSize
  BY DEF ReadPipe, TypeInv, LoopInv
<1>2. SockTypeOK'
  BY SameSockTypeOK DEF ReadPipe, TypeInv, LoopInv
<1>3. CASE /\ \E k \in 1 .. BufSize :
                 /\ k =< Len(pipe)
                 /\ buf' = [buf EXCEPT ![p] = SubSeq(pipe, 1, k)]
                 /\ pipe' = SubSeq(pipe, k + 1, Len(pipe))
           /\ Goto(p, "send")
  <2>1. PICK k \in 1 .. BufSize :
           /\ k =< Len(pipe)
           /\ buf' = [buf EXCEPT ![p] = SubSeq(pipe, 1, k)]
           /\ pipe' = SubSeq(pipe, k + 1, Len(pipe))
    BY <1>3
  <2>2. k \in 1 .. Len(pipe) /\ k \in 1 .. BufSize /\ Len(pipe) \in Nat
    BY <1>1, <2>1, BufSizeAssumption
  <2>3. /\ SubSeq(pipe, 1, k) \in Seq(Nat) /\ Len(SubSeq(pipe, 1, k)) = k
        /\ pipe' \in Seq(Nat) /\ Len(pipe') = Len(pipe) - k
    BY <1>1, <2>1, <2>2, Cut
  <2>4. /\ buf' \in [Proc -> Seq(Nat)] /\ Len(buf'[p]) = k
        /\ \A q \in Proc : q # p => buf'[q] = buf[q]
    BY <1>1, <2>1, <2>3
  <2>5. /\ pc' \in [Proc -> Step] /\ pc'[p] = "send" /\ "send" \in Sends
        /\ \A q \in Proc : q # p => pc'[q] = pc[q]
    BY <1>1, <1>3, Names DEF Goto, Sends
  <2>6. off' = off /\ off[p] = 0
    BY <1>1 DEF ReadPipe, TypeInv, LoopInv, Sends
  <2>7. LoopInv(Proc, Step, Sends)'
    <3>1. \A q \in Proc : IF pc'[q] \in Sends THEN off'[q] < Len(buf'[q]) ELSE off'[q] = 0
      <4>1. off'[p] < Len(buf'[p])
        BY <2>2, <2>4, <2>6
      <4> QED  BY <2>4, <2>5, <2>6, <4>1 DEF TypeInv, LoopInv
    <3> QED  BY <1>1, <1>2, <2>4, <2>5, <2>6, <3>1 DEF LoopInv
  <2>8. \A x \in Proc : Len(buf'[x]) =< BufSize
    <3>1. Len(buf'[p]) =< BufSize
      BY <2>2, <2>4, BufSizeAssumption
    <3> QED  BY <1>1, <2>4, <3>1
  <2>9. Len(pipe') =< PipeCap
    BY <1>1, <2>2, <2>3, SizeAssumption
  <2> QED  BY <2>3, <2>7, <2>8, <2>9 DEF TypeInv, ReadPipe
<1>4. CASE Goto(p, "killed") /\ UNCHANGED <<buf, pipe>>
  <2>1. pc[p] \notin Sends /\ "killed" \in Step \ Sends
    BY <1>1, Names
  <2> QED  BY <1>2, <1>4, <2>1, MoveTypes DEF ReadPipe, pipeVars, TypeInv
<1> QED  BY <1>3, <1>4 DEF ReadPipe

LEMMA RegisterTypes ==
  ASSUME TypeInv, Register
  PROVE  TypeInv'
<1>1. ASSUME NEW at \in {"connectProd", "connectReplica"}, NEW s \in Sock,
             NEW next \in {"connectReplica", "streams"}, Connect(at, s, next)
      PROVE  TypeInv'
  <2>1. SockTypeOK'
    BY <1>1, ConnectedTypeOK, SameSockTypeOK DEF Connect, TypeInv, LoopInv
  <2>2. "main" \in Proc /\ pc["main"] \notin Sends /\ {next, "dead"} \subseteq Step \ Sends
    BY <1>1, Names DEF Connect, Sends
  <2> QED  BY <1>1, <2>1, <2>2, MoveTypes DEF Connect, TypeInv
<1>2. ASSUME NEW p \in Worker, Start(p) PROVE TypeInv'
  <2>1. /\ p \in Proc /\ pc["main"] = "start" /\ pc[p] = "none" /\ p # "main"
        /\ UNCHANGED <<buf, off, duplicate, pipeVars, stop>>
    BY <1>2, Names DEF Start, Worker
  <2>2. SockTypeOK'
    BY <1>2, SameSockTypeOK DEF Start, TypeInv, LoopInv
  <2>3. /\ pc' \in [Proc -> Step] /\ pc'[p] = "recv" /\ pc'["main"] \in {"start", "accept"}
        /\ \A q \in Proc : q \notin {p, "main"} => pc'[q] = pc[q]
    BY <1>2, <2>1, Names DEF Start, TypeInv, LoopInv
  <2>4. LoopInv(Proc, Step, Sends)'
    <3>1. \A q \in Proc : IF pc'[q] \in Sends THEN off'[q] < Len(buf'[q]) ELSE off'[q] = 0
      BY <2>1, <2>3 DEF TypeInv, LoopInv, Sends
    <3> QED  BY <2>1, <2>2, <2>3, <3>1 DEF TypeInv, LoopInv
  <2> QED  BY <2>1, <2>4 DEF TypeInv, pipeVars
<1>3. CASE MakeStreams
  <2>1. SockTypeOK'
    BY <1>3, SameSockTypeOK DEF MakeStreams, TypeInv, LoopInv
  <2>2. pc["main"] \notin Sends
    BY <1>3 DEF MakeStreams, Sends
  <2> QED  BY <1>3, <2>1, <2>2, Names, MoveTypes DEF MakeStreams, TypeInv
<1>4. CASE kill("main") /\ UNCHANGED <<duplicate, pipeVars>>
  BY <1>4, Names, KillTypes
<1>5. ConnectProd \/ ConnectReplica => TypeInv'
  BY <1>1, Names DEF ConnectProd, ConnectReplica
<1> QED  BY <1>2, <1>3, <1>4, <1>5 DEF Register

\* Every step of T1 .. T4.
LEMMA ThreadsTypes ==
  ASSUME TypeInv, T1 \/ T2 \/ T3 \/ T4
  PROVE  TypeInv'
<1>1. ASSUME NEW p \in Proc, NEW s \in Sock, Read(p, s), UNCHANGED <<duplicate, pipeVars, stop>>
      PROVE  TypeInv'
  <2>1. CASE ReadFails(p, s)
    <3>1. SockTypeOK'
      BY <2>1, SameSockTypeOK DEF ReadFails, TypeInv, LoopInv
    <3> QED  BY <1>1, <2>1, <3>1, Names, MoveTypes DEF ReadFails, TypeInv
  <2> QED  BY <1>1, <2>1, RecvTypes DEF Read
<1>2. ASSUME NEW p \in Proc, SeesStop(p), UNCHANGED <<duplicate, pipeVars, stop>>
      PROVE  TypeInv'
  <2>1. SockTypeOK'
    BY <1>2, SameSockTypeOK DEF SeesStop, TypeInv, LoopInv
  <2> QED  BY <1>2, <2>1, Names, MoveTypes DEF SeesStop, TypeInv
<1>3. ASSUME NEW p \in Proc, NEW in \in Sock, NEW out \in Sock,
             Communicate(p, in, out), UNCHANGED duplicate
      PROVE  TypeInv'
  BY <1>1, <1>2, <1>3, SendTypes, KillTypes DEF Communicate
<1>4. CASE CommunicateToServerAndPipe("T1") /\ UNCHANGED duplicate
  BY <1>1, <1>4, Names, SendTypes, KillTypes, WritePipeTypes DEF CommunicateToServerAndPipe
<1>5. CASE T3
  BY <1>5, Names, ReadPipeTypes, SendTypes DEF T3, CommunicatePipeToSock
<1>6. CASE T4
  <2>1. CASE Drain("T4", "replica") \/ DrainEnd("T4", "replica")
    <3>1. LoopInv(Proc, Step, Sends)'
      BY <2>1, Names, DrainLoop DEF TypeInv
    <3>2. buf' = buf
      BY <2>1 DEF Drain, DrainEnd
    <3>3. CASE UNCHANGED <<pipeVars, stop>>
      BY <1>6, <3>1, <3>2, <3>3 DEF T4, TypeInv, pipeVars
    <3>4. CASE kill("T4")
      BY <1>6, <3>4, Names, KillTypes DEF T4, CommunicateReplicaTo
    <3> QED  BY <1>6, <3>3, <3>4 DEF T4, CommunicateReplicaTo
  <2>2. CASE ReadFails("T4", "replica") /\ UNCHANGED <<pipeVars, stop>>
    BY <1>1, <1>6, <2>2, Names DEF T4, Read
  <2>3. CASE kill("T4") /\ UNCHANGED pipeVars
    BY <1>6, <2>3, Names, KillTypes DEF T4
  <2> QED  BY <1>6, <2>1, <2>2, <2>3 DEF T4, CommunicateReplicaTo
<1> QED  BY <1>3, <1>4, <1>5, <1>6, Names DEF T1, T2

LEMMA PeersTypes ==
  ASSUME TypeInv, Peers
  PROVE  TypeInv'
<1>1. PICK s \in Sock : Reads(s) \/ Writes(s) \/ Quits(s) \/ Resets(s)
  BY DEF Peers
<1>2. /\ UNCHANGED <<duplicate, pc, buf, off, pipeVars, stop>>
      /\ \/ PeerRead(s) \/ PeerWrite(s, FALSE) \/ PeerHalfClose(s) \/ PeerClose(s)
         \/ Reset(s, FALSE)
  BY <1>1 DEF Reads, Writes, Quits, Resets, procVars
<1>3. SockTypeOK'
  BY <1>2, PeerTypeOK DEF TypeInv, LoopInv
<1>4. LoopInv(Proc, Step, Sends)'
  BY <1>2, <1>3, SockLoop DEF TypeInv
<1> QED  BY <1>2, <1>4 DEF TypeInv, pipeVars

\* TypeInv is inductive.
LEMMA NextTypes == TypeInv /\ [Next]_vars => TypeInv'
<1> SUFFICES ASSUME TypeInv, [Next]_vars PROVE TypeInv'
  OBVIOUS
<1>1. CASE UNCHANGED vars
  <2>1. SockTypeOK'
    BY <1>1, SameSockTypeOK DEF vars, TypeInv, LoopInv
  <2>2. LoopInv(Proc, Step, Sends)'
    BY <1>1, <2>1, SockLoop DEF vars, TypeInv
  <2> QED  BY <1>1, <2>2 DEF vars, TypeInv
<1> QED  BY <1>1, RegisterTypes, ThreadsTypes, PeersTypes DEF Next

\* Type correctness, for either kind of registration, whatever the sizes and the
\* peers: pos.write() never fills the stream beyond its capacity, and no thread
\* holds more than one read() returns.
THEOREM JavaTypes == Spec => []TypeOK
<1>1. TypeInv => TypeOK
  BY DEF TypeInv, LoopInv, TypeOK
<1> QED  BY <1>1, InitTypes, NextTypes, PTL DEF Spec

----------------------------------------------------------------------------
(* The two streams of the connection.                                      *)

LEMMA InitStreams == Init => Before /\ Streams
<1> SUFFICES ASSUME Init PROVE Before /\ Streams
  OBVIOUS
<1>1. \A p \in {"T1", "T2", "T3", "T4"} : pc[p] = "none"
  BY Names DEF Init
<1>2. \A s \in {"client", "prod"} :
         got[s] = <<>> /\ outq[s] = <<>> /\ inq[s] = <<>> /\ sent[s] = 0
  BY Names DEF Init, SockInit
<1>3. Streams
  BY <1>1, <1>2, StreamInit DEF Streams
<1> QED  BY <1>1, <1>2, <1>3 DEF Before, Fresh, Init

\* A step outside the sockets, of a thread that holds nothing of the stream.
LEMMA QuietStream ==
  ASSUME TypeInv, NEW p \in {"T1", "T2"}, NEW s, NEW d, Stream(p, s, d),
         NEW q \in Proc, UNCHANGED sockVars,
         \/ q # p
         \/ pc[p] \in {"recv", "write"} /\ pc'[p] \notin {"send", "none"},
         UNCHANGED pc \/ \E next : Goto(q, next),
         \A r \in Proc : r # q => UNCHANGED <<buf[r], off[r]>>
  PROVE  Stream(p, s, d)'
<1>1. p \in Proc /\ pc \in [Proc -> Step]
  BY DEF Proc, TypeInv, LoopInv
<1>2. Writable(d)' = Writable(d) /\ UNCHANGED <<got, outq, inq, sent>>
  BY DEF Writable, sockVars
<1>3. CASE q # p
  <2>1. pc'[p] = pc[p]
    BY <1>1, <1>3 DEF Goto
  <2> QED  BY <1>1, <1>2, <1>3, <2>1, StreamStill
<1>4. CASE pc[p] \in {"recv", "write"} /\ pc'[p] \notin {"send", "none"}
  BY <1>2, <1>4, StreamMove DEF Flow
<1> QED  BY <1>3, <1>4

\* kill() of whichever thread ends at most the streams.
LEMMA KillStreams ==
  ASSUME TypeInv, Streams, NEW q \in {"main", "T1", "T2", "T4"}, kill(q)
  PROVE  Streams'
<1>1. /\ LoopInv(Proc, Step, Sends) /\ {"main", "T1", "T2", "T4"} \subseteq Proc
      /\ {"client", "prod", "replica"} \subseteq Sock
  BY Names DEF TypeInv
<1>2. PICK x \in {"client", "prod", "replica"}, at \in {"shut1", "shut2", "shut3"},
           next \in {"shut2", "shut3", "done"} : Shut(q, at, x, next)
  BY DEF kill
<1>3. ASSUME NEW p \in {"T1", "T2"}, NEW s \in Sock, NEW d \in Sock, Stream(p, s, d)
      PROVE  Stream(p, s, d)'
  <2>1. CASE q = p
    BY <1>1, <1>2, <1>3, <2>1, StreamShut DEF Flow
  <2>2. CASE q # p
    BY <1>1, <1>2, <1>3, <2>2, StreamOthers
  <2> QED  BY <2>1, <2>2
<1> QED  BY <1>1, <1>3 DEF Streams

\* The main thread connects before it starts the threads, and each stream starts
\* with all of its data before it.
LEMMA RegisterStreams ==
  ASSUME TypeInv, Before, Streams, Register
  PROVE  Before' /\ Streams'
<1>1. pc \in [Proc -> Step] /\ {"main", "T1", "T2", "T3", "T4"} \subseteq Proc
  BY Names DEF TypeInv, LoopInv
<1>2. CASE ConnectProd \/ ConnectReplica
  <2>1. /\ Connecting /\ \A p \in {"T1", "T2", "T3", "T4"} : pc'[p] = pc[p]
        /\ UNCHANGED <<got, outq, inq, sent, shut, buf, off, pipe>>
        /\ peer'["client"] = peer["client"]
    BY <1>1, <1>2, Names, ZenonT(60)
       DEF ConnectProd, ConnectReplica, Connect, Goto, Connected, sockVars, pipeVars,
           Connecting, TypeInv, LoopInv, SockTypeOK
  <2>2. pc["T1"] = "none" /\ pc["T2"] = "none"
    BY <2>1 DEF Before, Fresh
  <2>3. Streams'
    BY <2>1, <2>2, StreamStill DEF Streams
  <2> QED  BY <2>1, <2>3 DEF Before, Fresh
<1>3. ASSUME NEW p \in Worker, Start(p) PROVE Before' /\ Streams'
  <2>1. /\ p \in Proc /\ p # "main" /\ pc[p] = "none" /\ pc'[p] = "recv"
        /\ pc'["main"] \in {"start", "accept"}
        /\ \A q \in {"T1", "T2"} : q # p => pc'[q] = pc[q]
        /\ UNCHANGED <<sockVars, buf, off>>
    BY <1>1, <1>3, Names DEF Start, Worker
  <2>2. \A s \in Sock : Writable(s)' = Writable(s)
    BY <2>1 DEF Writable, sockVars
  <2>3. UNCHANGED <<got, outq, inq, sent>>
    BY <2>1 DEF sockVars
  <2>4. ASSUME NEW q \in {"T1", "T2"}, NEW s \in Sock, NEW d \in Sock, Stream(q, s, d)
        PROVE  Stream(q, s, d)'
    <3>1. CASE q = p
      BY <2>1, <2>2, <2>3, <2>4, <3>1, StreamMove DEF Flow
    <3>2. CASE q # p
      BY <2>1, <2>2, <2>3, <2>4, <3>2, StreamStill
    <3> QED  BY <3>1, <3>2
  <2>5. Before'
    BY <2>1 DEF Before, Connecting
  <2> QED  BY <2>4, <2>5, Names DEF Streams
<1>4. CASE MakeStreams
  <2>1. /\ UNCHANGED <<sockVars, buf, off>> /\ \E next : Goto("main", next)
        /\ pc["main"] = "streams" /\ pc'["main"] \in {"start", "shut1"}
    BY <1>1, <1>4 DEF MakeStreams, Goto
  <2>2. Before'
    BY <2>1 DEF Before, Connecting
  <2> QED  BY <1>1, <2>1, <2>2, QuietStream DEF Streams
<1>5. CASE kill("main")
  <2>1. pc'["main"] \notin {"connectProd", "connectReplica"}
    BY <1>1, <1>5 DEF kill, Shut, Goto
  <2> QED  BY <1>5, <2>1, KillStreams DEF Before, Connecting
<1> QED  BY <1>2, <1>3, <1>4, <1>5 DEF Register

\* A thread that runs leaves the main thread where it is.
LEMMA ThreadsBefore ==
  ASSUME TypeInv, Before, T1 \/ T2 \/ T3 \/ T4
  PROVE  Before'
<1>1. pc \in [Proc -> Step] /\ {"main", "T1", "T2", "T3", "T4"} \subseteq Proc
  BY Names DEF TypeInv, LoopInv
<1>2. ASSUME NEW p \in {"T1", "T2", "T3", "T4"}, pc[p] # "none",
             UNCHANGED pc \/ \E next : Goto(p, next)
      PROVE  Before'
  BY <1>1, <1>2 DEF Before, Fresh, Connecting, Goto
<1>3. CASE T1 \/ T2
  <2>1. PICK p \in {"T1", "T2"} : pc[p] # "none" /\ (UNCHANGED pc \/ \E next : Goto(p, next))
    BY <1>3 DEF T1, T2, Communicate, CommunicateToServerAndPipe, Read, ReadFails, Recv,
                Send, SeesStop, kill, Shut, WritePipe
  <2> QED  BY <1>2, <2>1
<1>4. CASE T3
  <2>1. pc["T3"] # "none" /\ (UNCHANGED pc \/ \E next : Goto("T3", next))
    BY <1>4 DEF T3, CommunicatePipeToSock, ReadPipe, Send
  <2> QED  BY <1>2, <2>1
<1>5. CASE T4
  <2>1. pc["T4"] # "none" /\ (UNCHANGED pc \/ \E next : Goto("T4", next))
    BY <1>5 DEF T4, CommunicateReplicaTo, ReadFails, Drain, DrainEnd, kill, Shut
  <2> QED  BY <1>2, <2>1
<1> QED  BY <1>3, <1>4, <1>5

\* T1, with or without the piped stream.
LEMMA T1Streams ==
  ASSUME TypeInv, Streams, T1
  PROVE  Streams'
<1>1. /\ LoopInv(Proc, Step, Sends) /\ "recv" \notin Sends /\ "send" \in Sends
      /\ {"T1", "T2"} \subseteq Proc /\ {"client", "prod"} \subseteq Sock
      /\ Stream("T1", "client", "prod") /\ Stream("T2", "prod", "client")
  BY Names DEF TypeInv, Streams, Sends
<1>2. CASE Recv("T1", "client", "send", "shut1")
  <2>1. Stream("T1", "client", "prod")'
    BY <1>1, <1>2, StreamRecv DEF Flow
  <2>2. Stream("T2", "prod", "client")'
    BY <1>1, <1>2, StreamOthers
  <2> QED  BY <2>1, <2>2 DEF Streams
<1>3. ASSUME NEW next \in {"recv", "write"}, Send("T1", "send", "prod", next)
      PROVE  Streams'
  <2>1. Stream("T1", "client", "prod")'
    BY <1>1, <1>3, StreamSend DEF Flow
  <2>2. Stream("T2", "prod", "client")'
    BY <1>1, <1>3, StreamOthers
  <2> QED  BY <2>1, <2>2 DEF Streams
<1>4. CASE ReadFails("T1", "client") \/ SeesStop("T1") \/ WritePipe("T1")
  <2>1. /\ pc["T1"] \in {"recv", "write"} /\ pc'["T1"] \notin {"send", "none"}
        /\ UNCHANGED pc \/ \E next : Goto("T1", next)
        /\ UNCHANGED sockVars
        /\ \A r \in Proc : r # "T1" => UNCHANGED <<buf[r], off[r]>>
    BY <1>1, <1>4 DEF ReadFails, SeesStop, WritePipe, Goto, Drop, LoopInv
  <2> QED  BY <1>1, <2>1, QuietStream DEF Streams
<1> QED  BY <1>2, <1>3, <1>4, KillStreams
         DEF T1, Communicate, CommunicateToServerAndPipe, Read

\* T2.
LEMMA T2Streams ==
  ASSUME TypeInv, Streams, T2
  PROVE  Streams'
<1>1. /\ LoopInv(Proc, Step, Sends) /\ "recv" \notin Sends /\ "send" \in Sends
      /\ {"T1", "T2"} \subseteq Proc /\ {"client", "prod"} \subseteq Sock
      /\ Stream("T1", "client", "prod") /\ Stream("T2", "prod", "client")
  BY Names DEF TypeInv, Streams, Sends
<1>2. CASE Recv("T2", "prod", "send", "shut1")
  <2>1. Stream("T2", "prod", "client")'
    BY <1>1, <1>2, StreamRecv DEF Flow
  <2>2. Stream("T1", "client", "prod")'
    BY <1>1, <1>2, StreamOthers
  <2> QED  BY <2>1, <2>2 DEF Streams
<1>3. CASE Send("T2", "send", "client", "recv")
  <2>1. Stream("T2", "prod", "client")'
    BY <1>1, <1>3, StreamSend DEF Flow
  <2>2. Stream("T1", "client", "prod")'
    BY <1>1, <1>3, StreamOthers
  <2> QED  BY <2>1, <2>2 DEF Streams
<1>4. CASE ReadFails("T2", "prod")
  <2>1. /\ pc["T2"] = "recv" /\ pc'["T2"] = "killed" /\ Goto("T2", "killed")
        /\ UNCHANGED <<sockVars, buf, off>>
    BY <1>1, <1>4 DEF ReadFails, Goto, LoopInv
  <2> QED  BY <1>1, <2>1, QuietStream DEF Streams
<1> QED  BY <1>2, <1>3, <1>4, KillStreams DEF T2, Communicate, Read

\* T3 and T4 deal with the replica only, and with the end of the connection.
LEMMA ReplicaStreams ==
  ASSUME TypeInv, Streams, T3 \/ T4
  PROVE  Streams'
<1>1. /\ LoopInv(Proc, Step, Sends) /\ {"T1", "T2", "T3", "T4"} \subseteq Proc
      /\ {"client", "prod", "replica"} \subseteq Sock
  BY Names DEF TypeInv
<1>2. CASE kill("T4")
  BY <1>2, KillStreams
<1>3. ASSUME ~kill("T4"), NEW p \in {"T1", "T2"}, NEW s \in {"client", "prod"},
             NEW d \in {"client", "prod"}, Stream(p, s, d)
      PROVE  Stream(p, s, d)'
  <2>1. CASE T3
    <3>1. CASE ReadPipe("T3")
      <4>1. /\ UNCHANGED <<sockVars, off>> /\ \E next : Goto("T3", next)
            /\ \A r \in Proc : r # "T3" => UNCHANGED buf[r]
        BY <1>1, <3>1 DEF ReadPipe, LoopInv
      <4> QED  BY <1>1, <1>3, <4>1, QuietStream
    <3>2. CASE Send("T3", "send", "replica", "recv")
      BY <1>1, <1>3, <3>2, StreamOthers
    <3> QED  BY <2>1, <3>1, <3>2 DEF T3, CommunicatePipeToSock
  <2>2. CASE T4
    <3>1. CASE Drain("T4", "replica") \/ DrainEnd("T4", "replica")
      BY <1>1, <1>3, <3>1, StreamOthers
    <3>2. CASE ReadFails("T4", "replica")
      <4>1. Goto("T4", "killed") /\ UNCHANGED <<sockVars, buf, off>>
        BY <3>2 DEF ReadFails
      <4> QED  BY <1>1, <1>3, <4>1, QuietStream
    <3> QED  BY <1>3, <2>2, <3>1, <3>2 DEF T4, CommunicateReplicaTo
  <2> QED  BY <2>1, <2>2
<1> QED  BY <1>2, <1>3 DEF Streams

\* The peers.
LEMMA PeersStreams ==
  ASSUME TypeInv, Before, Streams, Peers
  PROVE  Before' /\ Streams'
<1>1. /\ LoopInv(Proc, Step, Sends) /\ UNCHANGED <<pc, buf, off, pipe>>
      /\ {"T1", "T2"} \subseteq Proc /\ {"client", "prod"} \subseteq Sock
  BY Names DEF TypeInv, Peers, Reads, Writes, Quits, Resets, procVars, pipeVars
<1>2. PICK x \in Sock : \/ PeerRead(x) \/ PeerWrite(x, FALSE) \/ PeerHalfClose(x)
                        \/ PeerClose(x) \/ Reset(x, FALSE)
  BY DEF Peers, Reads, Writes, Quits, Resets
<1>3. ASSUME NEW p \in {"T1", "T2"}, NEW s \in {"client", "prod"}, NEW d \in {"client", "prod"},
             Stream(p, s, d)
      PROVE  Stream(p, s, d)'
  BY <1>1, <1>2, <1>3, StreamPeers
<1>4. Before'
  <2>1. ASSUME got["prod"] = <<>>, outq["prod"] = <<>>
        PROVE  got'["prod"] = <<>> /\ outq'["prod"] = <<>>
    <3>1. CASE PeerRead(x)
      BY <1>1, <2>1, <3>1 DEF PeerRead, LoopInv, SockTypeOK
    <3>2. CASE Reset(x, FALSE)
      <4>1. \A k \in 0 .. Len(<<>>) - 1 : FALSE
        OBVIOUS
      <4>2. x # "prod"
        BY <2>1, <3>2, <4>1 DEF Reset
      <4> QED  BY <1>1, <2>1, <3>2, <4>2 DEF Reset, LoopInv, SockTypeOK
    <3>3. CASE PeerWrite(x, FALSE) \/ PeerHalfClose(x) \/ PeerClose(x)
      BY <2>1, <3>3 DEF PeerWrite, PeerHalfClose, PeerClose
    <3> QED  BY <1>2, <3>1, <3>2, <3>3
  <2> QED  BY <1>1, <2>1 DEF Before, Fresh, Connecting
<1> QED  BY <1>3, <1>4 DEF Streams

\* Before and the streams are inductive with the types.
LEMMA NextStreams ==
  ASSUME TypeInv, Before, Streams, [Next]_vars
  PROVE  Before' /\ Streams'
<1>1. CASE UNCHANGED vars
  <2>1. Writable("prod")' = Writable("prod") /\ Writable("client")' = Writable("client")
    BY <1>1 DEF vars, sockVars, Writable
  <2>2. Streams'
    BY <1>1, <2>1, StreamStill DEF Streams, vars, sockVars
  <2> QED  BY <1>1, <2>2 DEF Before, Fresh, Connecting, vars, sockVars
<1> QED  BY <1>1, RegisterStreams, ThreadsBefore, T1Streams, T2Streams, ReplicaStreams,
            PeersStreams DEF Next

\* Whatever the replica does and wherever the closes of two kill()s meet, what the
\* client has read is the beginning of the production server's replies.
THEOREM JavaReplies == Spec => []RepliesInOrder
<1>1. Init => TypeInv /\ Before /\ Streams
  BY InitTypes, InitStreams
<1>2. TypeInv /\ Before /\ Streams /\ [Next]_vars => (TypeInv /\ Before /\ Streams)'
  BY NextTypes, NextStreams
<1>3. TypeInv /\ Before /\ Streams => RepliesInOrder
  BY DEF Streams, Stream, Ahead, RepliesInOrder
<1> QED  BY <1>1, <1>2, <1>3, PTL DEF Spec

----------------------------------------------------------------------------
(* The copy.                                                               *)

\* The numbers that the proofs below calculate with.
LEMMA Counts ==
  ASSUME TypeInv
  PROVE  /\ Copied = Passed("replica") /\ Forwarded = Passed("prod")
         /\ Copied \in Nat /\ Forwarded \in Nat
         /\ \A s \in {"client", "prod", "replica"} :
               /\ inq[s] \in Seq(Nat) /\ outq[s] \in Seq(Nat) /\ got[s] \in Seq(Nat)
               /\ Len(inq[s]) \in Nat /\ Len(outq[s]) \in Nat /\ Len(got[s]) \in Nat
               /\ sent[s] \in Nat
         /\ pipe \in Seq(Nat) /\ Len(pipe) \in Nat
         /\ \A p \in {"T1", "T3"} :
               /\ buf[p] \in Seq(Nat) /\ Len(buf[p]) \in Nat /\ off[p] \in Nat
               /\ pc[p] \in Sends => off[p] < Len(buf[p])
               /\ pc[p] \notin Sends => off[p] = 0
         /\ Held("T3") \in Nat /\ Rest \in Nat /\ Early \in Nat /\ Line \in Nat
<1>1. \A s \in {"client", "prod", "replica"} :
         /\ inq[s] \in Seq(Nat) /\ outq[s] \in Seq(Nat) /\ got[s] \in Seq(Nat)
         /\ Len(inq[s]) \in Nat /\ Len(outq[s]) \in Nat /\ Len(got[s]) \in Nat
         /\ sent[s] \in Nat
  <2>1. ASSUME NEW s \in {"client", "prod", "replica"}
        PROVE  /\ inq[s] \in Seq(Nat) /\ outq[s] \in Seq(Nat) /\ got[s] \in Seq(Nat)
               /\ sent[s] \in Nat
    <3>1. s \in Sock
      BY Names
    <3> QED  BY <3>1 DEF TypeInv, LoopInv, SockTypeOK
  <2> QED  BY <2>1, SMTT(60)
<1>2. \A p \in {"T1", "T3"} :
         /\ buf[p] \in Seq(Nat) /\ Len(buf[p]) \in Nat /\ off[p] \in Nat
         /\ pc[p] \in Sends => off[p] < Len(buf[p])
         /\ pc[p] \notin Sends => off[p] = 0
  BY Names DEF TypeInv, LoopInv
<1>3. Held("T3") \in Nat /\ Rest \in Nat /\ Early \in Nat
  BY <1>2 DEF Held, Rest, Early, Sends
<1>4. Copied \in Nat /\ Forwarded \in Nat /\ pipe \in Seq(Nat) /\ Len(pipe) \in Nat
  <2>1. /\ Len(got["replica"]) \in Nat /\ Len(outq["replica"]) \in Nat
        /\ Len(got["prod"]) \in Nat /\ Len(outq["prod"]) \in Nat
    BY <1>1, Zenon
  <2>2. Copied \in Nat /\ Forwarded \in Nat
    <3>1. \A i, j \in Nat : i + j \in Nat
      OBVIOUS
    <3> QED  BY <2>1, <3>1, Zenon DEF Copied, Forwarded
  <2> QED  BY <2>2 DEF TypeInv
<1>5. Line \in Nat
  BY <1>3, <1>4 DEF Line
<1> QED  BY <1>1, <1>2, <1>3, <1>4, <1>5 DEF Copied, Forwarded, Passed

\* A step that the copy does not feel: a thread starts, or T1 stops forwarding.
LEMMA CopyStill ==
  ASSUME TypeInv, Links, Copies,
         UNCHANGED <<duplicate, pipe, buf["T1"], off["T1"], buf["T3"], off["T3"],
                     got["replica"], outq["replica"], got["prod"], outq["prod"],
                     inq["client"], sent["client"]>>,
         \/ pc'["T1"] = pc["T1"]
         \/ /\ pc["T1"] \notin Sends \cup {"done", "killed"} /\ pc'["T1"] \notin Sends
            /\ pc'["T1"] \in {"none", "recv"} => pc["T1"] \in {"none", "recv"},
         pc'["T3"] = pc["T3"] \/ (pc["T3"] = "none" /\ pc'["T3"] = "recv" /\ duplicate),
         Writable("prod")' => Writable("prod"),
         Writable("replica")' => Writable("replica")
  PROVE  Links' /\ Copies'
<1>1. /\ Copied' = Copied /\ Forwarded' = Forwarded /\ Held("T3")' = Held("T3")
      /\ Rest' = Rest /\ Early' = Early
  BY DEF Copied, Forwarded, Held, Rest, Early, Sends
<1>2. Line' = Line
  BY <1>1 DEF Line
<1>3. Links'
  BY DEF Links, Ended, Sends
<1>4. /\ Copying' => Copying
      /\ Filling' => Filling
      /\ pc'["T1"] \in Sends => pc["T1"] \in Sends
      /\ pc'["T3"] = "send" => pc["T3"] = "send"
  BY DEF Copying, Filling, Sends
<1>5. Copy'
  <2>1. CopyAhead'
    BY <1>1 DEF Copies, Copy, CopyAhead, Ahead
  <2>2. ASSUME Copying' PROVE (Line =< sent["client"])' /\ CopyHeld' /\ CopyPiped'
    <3>1. Line =< sent["client"] /\ CopyHeld /\ CopyPiped
      BY <1>4, <2>2 DEF Copies, Copy
    <3>2. CopyHeld'
      BY <1>1, <1>4, <3>1 DEF CopyHeld
    <3>3. CopyPiped'
      BY <1>1, <3>1 DEF CopyPiped
    <3> QED  BY <1>2, <3>1, <3>2, <3>3
  <2>3. ASSUME Copying', Filling' PROVE CopyRest'
    <3>1. CopyRest
      BY <1>4, <2>3 DEF Copies, Copy
    <3> QED  BY <1>1, <1>2, <1>4, <3>1 DEF CopyRest
  <2> QED  BY <2>1, <2>2, <2>3 DEF Copy
<1>6. Lag' /\ Served'
  BY <1>1, <1>2 DEF Copies, Lag, Served
<1>7. Followed'
  <2>1. pc'["T1"] = "write" => pc["T1"] = "write"
    BY DEF Sends
  <2> QED  BY <1>1, <1>4, <2>1 DEF Copies, Followed
<1> QED  BY <1>3, <1>5, <1>6, <1>7 DEF Copies

\* Connecting makes a server writable, and has nothing yet to be compared.
LEMMA CopyConnect ==
  ASSUME TypeInv, Links, Copies, Connecting, Before,
         UNCHANGED <<duplicate, buf, off, pipe, pc["T1"], pc["T3"],
                     got, outq, inq, sent>>
  PROVE  Links' /\ Copies'
<1>1. /\ pc["T1"] = "none" /\ pc["T3"] = "none" /\ pipe = <<>>
      /\ got["prod"] = <<>> /\ outq["prod"] = <<>>
      /\ got["replica"] = <<>> /\ outq["replica"] = <<>>
  BY DEF Before, Fresh, Links
<1>2. Len(<<>>) = 0
  OBVIOUS
<1>3. /\ Copied' = Copied /\ Forwarded' = Forwarded /\ Held("T3")' = Held("T3")
      /\ Rest' = Rest
  BY <1>1 DEF Copied, Forwarded, Held, Rest
<1>4. Line' = Line
  BY <1>3 DEF Line
<1>5. Forwarded = 0 /\ Line = 0 /\ Early' = 0
  BY <1>1, <1>2 DEF Forwarded, Line, Copied, Held, Early
<1>6. Links'
  BY <1>1 DEF Links
<1>7. Copy'
  BY <1>1, <1>3, <1>4
     DEF Copies, Copy, CopyAhead, Ahead, Copying, Filling, CopyHeld, CopyPiped, CopyRest, Sends
<1>8. Lag' /\ Served'
  BY <1>3, <1>4, <1>5 DEF Copies, Lag, Served
<1>9. Followed'
  BY <1>1, <1>2, <1>3, <1>5 DEF Followed, Copied
<1> QED  BY <1>6, <1>7, <1>8, <1>9 DEF Copies

\* T1 reads what the client has written.
LEMMA CopyRecv ==
  ASSUME TypeInv, Links, Copies, Stream("T1", "client", "prod"),
         Recv("T1", "client", "send", "shut1"), UNCHANGED <<duplicate, pipe>>
  PROVE  Links' /\ Copies'
<1>1. /\ pc \in [Proc -> Step] /\ buf \in [Proc -> Seq(Nat)] /\ pc["T1"] = "recv"
      /\ UNCHANGED off
  BY DEF TypeInv, LoopInv, Recv
<1>2. CASE AtEnd("client") /\ Goto("T1", "shut1") /\ UNCHANGED <<sockVars, buf>>
  <2>1. pc'["T1"] = "shut1" /\ pc'["T3"] = pc["T3"]
    BY <1>1, <1>2, Names DEF Goto
  <2> QED  BY <1>1, <1>2, <2>1, CopyStill DEF sockVars, Writable, Sends
<1>3. CASE /\ \E k \in 1 .. BufSize :
                 /\ k =< Len(inq["client"])
                 /\ buf' = [buf EXCEPT !["T1"] = SubSeq(inq["client"], 1, k)]
                 /\ Receive("client", k)
           /\ Goto("T1", "send")
  <2> DEFINE q == inq["client"]
             b == buf'["T1"]
             l == Line
             n == sent["client"]
  <2>1. PICK k \in 1 .. BufSize :
           /\ k =< Len(q)
           /\ buf' = [buf EXCEPT !["T1"] = SubSeq(q, 1, k)]
           /\ Receive("client", k)
    BY <1>3
  <2>2. q \in Seq(Nat) /\ Len(q) \in Nat /\ l \in Nat /\ n \in Nat
    BY Counts
  <2>3. k \in 1 .. Len(q) /\ k \in Nat
    BY <2>1, <2>2, BufSizeAssumption
  <2>4. /\ b = SubSeq(q, 1, k) /\ buf'["T3"] = buf["T3"]
        /\ pc'["T1"] = "send" /\ pc'["T3"] = pc["T3"]
    BY <1>1, <1>3, <2>1, Names DEF Goto
  <2>5. /\ inq'["client"] = SubSeq(q, k + 1, Len(q))
        /\ UNCHANGED <<outq, got, sent, shut, peer>>
    BY <2>1, Names DEF Receive, TypeInv, LoopInv, SockTypeOK
  <2>6. /\ Len(b) = k /\ \A i \in 1 .. k : b[i] = q[i]
        /\ Len(inq'["client"]) = Len(q) - k
    BY <2>2, <2>3, <2>4, <2>5, Cut
  <2>7. /\ Copied' = Copied /\ Forwarded' = Forwarded /\ Held("T3")' = Held("T3")
        /\ UNCHANGED <<Writable("prod"), Writable("replica")>>
    BY <1>1, <2>4, <2>5 DEF Copied, Forwarded, Held, Writable
  <2>8. l' = l
    BY <2>7 DEF Line
  <2>9. Early = 0 /\ Early' = 0 /\ Rest = 0 /\ Rest' = k
    <3>1. off["T1"] = 0
      BY <1>1, Counts DEF Sends
    <3> QED  BY <1>1, <2>4, <2>6, <3>1 DEF Early, Rest
  <2>10. Links'
    BY <1>1, <2>4, <2>5, <2>7 DEF Links, Ended
  <2>11. Copy'
    <3>1. CopyAhead'
      BY <2>5, <2>7 DEF Copies, Copy, CopyAhead, Ahead
    <3>2. ASSUME Copying'
          PROVE  (Line =< sent["client"])' /\ CopyHeld' /\ CopyPiped' /\ (Filling' => CopyRest')
      <4>1. Copying /\ (Filling' => Filling)
        BY <1>1, <2>4, <2>7, <3>2 DEF Copying, Filling
      <4>2. Line =< n /\ CopyHeld /\ CopyPiped /\ (Filling => CopyRest)
        BY <4>1 DEF Copies, Copy
      <4>3. CopyHeld' /\ CopyPiped'
        BY <1>1, <2>4, <2>7, <4>2 DEF CopyHeld, CopyPiped
      <4>4. ASSUME Filling' PROVE CopyRest'
        <5>1. l + 0 + Len(q) = n
          BY <2>9, <4>1, <4>2, <4>4 DEF CopyRest
        <5>2. \A i \in 1 .. Len(q) : q[i] = 0 + n - Len(q) + i
          BY SockAssumption DEF Stream, Behind
        <5> HIDE DEF q, b, l, n
        <5>3. ASSUME NEW i \in 1 .. k PROVE b[i] = l + k - k + i
          <6>1. i \in 1 .. Len(q) /\ i \in Nat
            BY <2>2, <2>3
          <6>2. b[i] = 0 + n - Len(q) + i
            BY <2>6, <5>2, <6>1
          <6> QED  BY <2>2, <2>3, <5>1, <6>1, <6>2
        <5>4. l + k + (Len(q) - k) = n
          BY <2>2, <2>3, <5>1
        <5> QED  BY <2>4, <2>5, <2>6, <2>8, <2>9, <5>3, <5>4 DEF CopyRest, l, n, b
      <4> QED  BY <2>5, <2>8, <4>2, <4>3, <4>4
    <3> QED  BY <3>1, <3>2 DEF Copy
  <2>12. Lag' /\ Served'
    BY <2>5, <2>7, <2>8, <2>9 DEF Copies, Lag, Served
  <2>13. Followed'
    BY <1>1, <2>4, <2>7 DEF Copies, Followed
  <2> QED  BY <2>10, <2>11, <2>12, <2>13 DEF Copies
<1> QED  BY <1>2, <1>3 DEF Recv

\* T1 sends to production what it will then put into the stream.
LEMMA CopySend ==
  ASSUME TypeInv, Links, Copies, Stream("T1", "client", "prod"),
         Send("T1", "send", "prod", IF duplicate THEN "write" ELSE "recv"),
         UNCHANGED <<duplicate, pipe>>
  PROVE  Links' /\ Copies'
<1> DEFINE b == buf["T1"]
           k == off["T1"]
           m == Len(b)
           f == Forwarded
           n == sent["client"]
           next == IF duplicate THEN "write" ELSE "recv"
<1>1. /\ pc \in [Proc -> Step] /\ buf \in [Proc -> Seq(Nat)] /\ off \in [Proc -> Nat]
      /\ pc["T1"] = "send"
  BY DEF TypeInv, LoopInv, Send
<1>2. /\ b \in Seq(Nat) /\ k \in Nat /\ m \in Nat /\ k < m /\ f \in Nat /\ n \in Nat
      /\ Line \in Nat
  BY <1>1, Counts DEF Sends
<1>3. /\ UNCHANGED <<got, inq, sent, shut, peer, outq["replica"]>>
      /\ UNCHANGED <<pc["T3"], buf["T3"], off["T3"]>>
      /\ \/ Transmit("prod", NextUnit("T1")) /\ k + 1 # m /\ off'["T1"] = k + 1
            /\ UNCHANGED <<pc, buf>>
         \/ Transmit("prod", NextUnit("T1")) /\ k + 1 = m /\ off'["T1"] = 0
            /\ pc'["T1"] = next /\ (duplicate => buf' = buf)
         \/ /\ ~Writable("prod") /\ UNCHANGED outq /\ off'["T1"] = 0
            /\ pc'["T1"] \in {next, "killed"}
            /\ pc'["T1"] = "write" => buf' = buf
  <2>1. CASE Transmit("prod", NextUnit("T1"))
    <3>1. /\ UNCHANGED <<got, inq, sent, shut, peer, outq["replica"]>> /\ Writable("prod")
      BY <2>1, Names DEF Transmit, TypeInv, LoopInv, SockTypeOK
    <3> QED  BY <1>1, <2>1, <3>1, Names DEF Send, CutShort, LastUnit, Goto, Drop, Writable, Broken, sockVars
  <2>2. CASE ~Transmit("prod", NextUnit("T1"))
    BY <1>1, <2>2, Names DEF Send, CutShort, Goto, Drop, Writable, Broken, sockVars
  <2> QED  BY <2>1, <2>2
<1>4. /\ Copied' = Copied /\ Held("T3")' = Held("T3")
      /\ UNCHANGED <<Writable("prod"), Writable("replica")>>
  BY <1>3 DEF Copied, Held, Writable
<1>5. Line' = Line
  BY <1>4 DEF Line
<1>6. Links'
  BY <1>1, <1>3, <1>4 DEF Links, Ended
<1>7. Copy'
  <2>1. CopyAhead'
    BY <1>3, <1>4 DEF Copies, Copy, CopyAhead, Ahead
  <2>2. ASSUME Copying'
        PROVE  (Line =< sent["client"])' /\ CopyHeld' /\ CopyPiped' /\ (Filling' => CopyRest')
    <3>1. Copying /\ (Filling' => Filling)
      BY <1>1, <1>3, <1>4, <2>2 DEF Copying, Filling, Sends
    <3>2. Line =< n /\ CopyHeld /\ CopyPiped /\ (Filling => CopyRest)
      BY <3>1 DEF Copies, Copy
    <3>3. CopyHeld' /\ CopyPiped'
      BY <1>3, <1>4, <3>2 DEF CopyHeld, CopyPiped
    <3>4. ASSUME Filling' PROVE CopyRest'
      <4>1. duplicate /\ pc'["T1"] # "killed"
        BY <3>4 DEF Filling, Sends
      <4>2. buf' = buf /\ Rest' = Rest
        <5>1. \/ pc'["T1"] = "send" /\ buf' = buf
              \/ pc'["T1"] = "write" /\ buf' = buf /\ off'["T1"] = 0
          BY <1>1, <1>3, <4>1
        <5> QED  BY <1>1, <1>2, <5>1 DEF Rest
      <4>3. CopyRest /\ pc["T1"] \in Sends
        BY <1>1, <3>1, <3>2, <3>4 DEF Sends
      <4> QED  BY <1>3, <1>5, <4>2, <4>3 DEF CopyRest
    <3> QED  BY <1>3, <1>5, <3>2, <3>3, <3>4
  <2> QED  BY <2>1, <2>2 DEF Copy
<1>8. CASE ~Writable("prod")
  <2>1. Lag' /\ Followed'
    BY <1>4, <1>8 DEF Lag, Followed
  <2>2. UNCHANGED outq["prod"]
    BY <1>3, <1>8 DEF Transmit
  <2>3. Served'
    BY <1>3, <2>2 DEF Copies, Served, Forwarded
  <2> QED  BY <1>6, <1>7, <2>1, <2>3 DEF Copies
<1>9. CASE Writable("prod")
  <2>1. /\ f + (m - k) + Len(inq["client"]) = n
        /\ \A i \in 1 .. m : b[i] = 0 + f - k + i
    BY <1>1, <1>9, Counts, SockAssumption DEF Stream, Joined, Held, Flow
  <2>2. Len(inq["client"]) \in Nat
    BY Counts
  <2>3. f' = f + 1
    <3>1. Transmit("prod", NextUnit("T1"))
      BY <1>3, <1>9
    <3>2. outq'["prod"] = Append(outq["prod"], NextUnit("T1")) /\ got' = got
      BY <3>1, Names DEF Transmit, TypeInv, LoopInv, SockTypeOK
    <3>3. outq["prod"] \in Seq(Nat) /\ Len(outq["prod"]) \in Nat /\ Len(got["prod"]) \in Nat
      BY Counts
    <3>4. NextUnit("T1") \in Nat
      BY <1>2, ElementOfSeq DEF NextUnit
    <3>5. Len(outq'["prod"]) = Len(outq["prod"]) + 1
      BY <3>2, <3>3, <3>4, AppendProperties
    <3>6. \A i, j \in Nat : i + (j + 1) = (i + j) + 1
      OBVIOUS
    <3>7. Forwarded' = Len(got["prod"]) + Len(outq'["prod"])
      BY <3>2 DEF Forwarded
    <3> QED  BY <3>3, <3>5, <3>6, <3>7, Zenon DEF Forwarded
  <2>4. \/ k + 1 # m /\ off'["T1"] = k + 1 /\ UNCHANGED <<pc, buf>>
        \/ k + 1 = m /\ off'["T1"] = 0 /\ pc'["T1"] = next /\ (duplicate => buf' = buf)
    BY <1>3, <1>9
  <2>5. Lag'
    <3>1. ASSUME duplicate PROVE Early' = Early + 1
      BY <1>1, <1>2, <2>4, <3>1 DEF Early
    <3>2. Early \in Nat
      BY Counts
    <3> QED  BY <1>2, <1>4, <1>5, <2>3, <3>1, <3>2 DEF Copies, Lag
  <2>6. Served'
    BY <1>2, <1>3, <2>1, <2>2, <2>3 DEF Served
  <2>7. Followed'
    <3>1. Copied \in Nat /\ Followed
      BY Counts DEF Copies
    <3>2. ASSUME pc'["T1"] = "write" PROVE buf' = buf /\ k + 1 = m
      BY <1>1, <2>4, <3>2
    <3>3. ASSUME pc'["T1"] = "write", NEW i \in 1 .. m PROVE b[i] =< f + 1
      <4>1. i \in Nat /\ i =< m
        BY <1>2
      <4>2. k + 1 = m
        BY <3>2, <3>3
      <4>3. b[i] = 0 + f - k + i
        BY <2>1
      <4> HIDE DEF b, k, m, f
      <4> QED  BY <1>2, <4>1, <4>2, <4>3
    <3>4. pipe \in Seq(Nat) /\ buf["T3"] \in Seq(Nat)
      BY Counts
    <3>5. \A j \in Nat : j =< f => j =< f + 1
      BY <1>2
    <3>6. /\ \A i \in 1 .. Len(pipe) : pipe[i] \in Nat
          /\ \A i \in 1 .. Len(buf["T3"]) : buf["T3"][i] \in Nat
      BY <3>4, ElementOfSeq
    <3>7. Copied' =< f + 1
      BY <1>4, <1>9, <3>1, <3>5 DEF Followed
    <3>8. \A i \in 1 .. Len(pipe') : pipe'[i] =< f + 1
      BY <1>9, <3>1, <3>5, <3>6 DEF Followed
    <3>9. pc'["T3"] = "send" => \A i \in 1 .. Len(buf'["T3"]) : buf'["T3"][i] =< f + 1
      BY <1>3, <1>9, <3>1, <3>5, <3>6 DEF Followed
    <3>10. pc'["T1"] = "write" => \A i \in 1 .. Len(buf'["T1"]) : buf'["T1"][i] =< f + 1
      BY <3>2, <3>3
    <3> QED  BY <2>3, <3>7, <3>8, <3>9, <3>10 DEF Followed
  <2> QED  BY <1>6, <1>7, <2>5, <2>6, <2>7 DEF Copies
<1> QED  BY <1>8, <1>9
\* T1 puts the next unit of its buffer into the stream, or finds that T3 is dead.
LEMMA CopyWrite ==
  ASSUME TypeInv, Links, Copies, WritePipe("T1"), UNCHANGED duplicate
  PROVE  Links' /\ Copies'
<1> DEFINE b == buf["T1"]
           k == off["T1"]
           m == Len(b)
           f == Forwarded
           n == sent["client"]
           c == Copied
           h == Held("T3")
           r == Len(pipe)
           l == Line
           u == NextUnit("T1")
           q == Len(inq["client"])
<1>1. /\ pc \in [Proc -> Step] /\ buf \in [Proc -> Seq(Nat)] /\ off \in [Proc -> Nat]
      /\ pc["T1"] = "write" /\ duplicate
      /\ UNCHANGED <<got, outq, inq, sent, shut, peer>>
  BY DEF TypeInv, LoopInv, WritePipe, Links, sockVars
<1>2. /\ b \in Seq(Nat) /\ k \in Nat /\ m \in Nat /\ k < m /\ f \in Nat /\ n \in Nat
      /\ c \in Nat /\ h \in Nat /\ r \in Nat /\ l \in Nat /\ pipe \in Seq(Nat)
      /\ q \in Nat
  BY <1>1, Counts DEF Sends
<1>3. /\ UNCHANGED <<pc["T3"], buf["T3"], off["T3"]>>
      /\ \/ /\ pipe' = Append(pipe, u)
            /\ \/ k + 1 = m /\ off'["T1"] = 0 /\ pc'["T1"] = "recv"
               \/ k + 1 # m /\ off'["T1"] = k + 1 /\ UNCHANGED <<pc, buf>>
         \/ /\ Ended("T3") /\ pc'["T1"] = "killed" /\ pipe' = pipe
  BY <1>1, Names DEF WritePipe, LastUnit, Goto, Drop, pipeVars
<1>4. /\ Copied' = c /\ Forwarded' = f /\ Held("T3")' = h
      /\ UNCHANGED <<Writable("prod"), Writable("replica")>>
  BY <1>1, <1>3 DEF Copied, Forwarded, Held, Writable
<1>5. Rest = m - k /\ Early = m - k /\ l = c + h + r
  BY <1>1 DEF Rest, Early, Line
<1>6. Served'
  BY <1>1, <1>4 DEF Copies, Served
<1>7. CASE Ended("T3") /\ pc'["T1"] = "killed" /\ pipe' = pipe
  <2>1. pc["T3"] = "killed" /\ pc'["T3"] = "killed" /\ ~Writable("replica")
    BY <1>1, <1>3, <1>7 DEF Links, Ended
  <2>2. Links'
    BY <1>1, <1>4, <1>7, <2>1 DEF Links, Ended
  <2>3. Copy'
    BY <1>1, <1>4, <2>1 DEF Copies, Copy, CopyAhead, Ahead, Copying
  <2>4. Lag'
    BY <1>4, <2>1 DEF Lag
  <2>5. Followed'
    BY <1>4, <1>7, <2>1 DEF Copies, Followed
  <2> QED  BY <1>6, <2>2, <2>3, <2>4, <2>5 DEF Copies
<1>8. CASE /\ pipe' = Append(pipe, u)
           /\ \/ k + 1 = m /\ off'["T1"] = 0 /\ pc'["T1"] = "recv"
              \/ k + 1 # m /\ off'["T1"] = k + 1 /\ UNCHANGED <<pc, buf>>
  <2>1. u = b[k + 1] /\ u \in Nat /\ k + 1 \in 1 .. m
    BY <1>2, ElementOfSeq, SMTT(60) DEF NextUnit
  <2>2. /\ Len(pipe') = r + 1 /\ pipe'[r + 1] = u
        /\ \A i \in 1 .. r : pipe'[i] = pipe[i]
    BY <1>2, <1>8, <2>1, AppendProperties
  <2>3. Line' = l + 1
    <3>1. \A i, j, x \in Nat : i + j + (x + 1) = (i + j + x) + 1
      OBVIOUS
    <3>2. Line' = c + h + (r + 1)
      BY <1>4, <2>2 DEF Line
    <3> HIDE DEF c, h, r, l
    <3> QED  BY <1>2, <1>5, <3>1, <3>2
  <2>4. Rest' = m - k - 1 /\ Early' = m - k - 1 /\ pc'["T1"] \in {"recv", "write"}
        /\ (pc'["T1"] = "write" => buf' = buf)
    <3>1. CASE k + 1 = m /\ off'["T1"] = 0 /\ pc'["T1"] = "recv"
      <4>1. Rest' = 0 /\ Early' = 0
        BY <3>1 DEF Rest, Early
      <4> HIDE DEF k, m
      <4> QED  BY <1>2, <3>1, <4>1
    <3>2. CASE off'["T1"] = k + 1 /\ UNCHANGED <<pc, buf>>
      <4>1. Rest' = m - (k + 1) /\ Early' = m - (k + 1)
        BY <1>1, <3>2 DEF Rest, Early
      <4> HIDE DEF k, m
      <4> QED  BY <1>1, <1>2, <3>2, <4>1
    <3> QED  BY <1>8, <3>1, <3>2
  <2>5. Links'
    BY <1>1, <1>3, <1>4, <1>8 DEF Links, Ended
  <2> HIDE DEF b, k, m, f, n, c, h, r, l, u, q
  <2>6. Copy'
    <3>1. CopyAhead'
      BY <1>1, <1>4 DEF Copies, Copy, CopyAhead, Ahead, c
    <3>2. ASSUME Copying'
          PROVE  (Line =< sent["client"])' /\ CopyHeld' /\ CopyPiped' /\ (Filling' => CopyRest')
      <4>1. Copying /\ Filling
        BY <1>1, <1>3, <1>4, <3>2 DEF Copying, Filling, Sends
      <4>2. CopyHeld /\ CopyPiped /\ CopyRest
        BY <4>1 DEF Copies, Copy
      <4>3. /\ l + (m - k) + q = n
            /\ \A i \in 1 .. m : b[i] = l + (m - k) - m + i
            /\ \A i \in 1 .. r : pipe[i] = c + h + i
        BY <1>1, <1>5, <4>2 DEF CopyRest, CopyPiped, Sends, l, m, b, n, r, c, h, q
      <4>4. u = l + 1
        <5>1. u = l + (m - k) - m + (k + 1)
          BY <2>1, <4>3
        <5> QED  BY <1>2, <5>1
      <4>5. l + 1 =< n
        BY <1>2, <4>3
      <4>6. CopyHeld'
        BY <1>3, <1>4, <4>2 DEF CopyHeld, c
      <4>7. CopyPiped'
        <5>1. ASSUME NEW i \in 1 .. r + 1 PROVE pipe'[i] = c + h + i
          <6>1. CASE i = r + 1
            BY <1>2, <1>5, <2>2, <4>4, <6>1
          <6>2. CASE i # r + 1
            <7>1. i \in 1 .. r
              BY <1>2, <6>2
            <7> QED  BY <2>2, <4>3, <7>1
          <6> QED  BY <6>1, <6>2
        <5> QED  BY <1>4, <2>2, <5>1 DEF CopyPiped
      <4>8. CopyRest'
        <5>1. (l + 1) + (m - k - 1) + q = n
          BY <1>2, <4>3
        <5>2. ASSUME NEW i \in 1 .. m PROVE b[i] = (l + 1) + (m - k - 1) - m + i
          <6>1. b[i] = l + (m - k) - m + i /\ i \in Nat
            BY <1>2, <4>3
          <6> QED  BY <1>2, <6>1
        <5>3. pc'["T1"] \in Sends => buf' = buf
          BY <2>4 DEF Sends
        <5> QED  BY <1>1, <2>3, <2>4, <5>1, <5>2, <5>3 DEF CopyRest, n, m, b, q
      <4> QED  BY <1>1, <2>3, <4>5, <4>6, <4>7, <4>8 DEF n
    <3> QED  BY <3>1, <3>2 DEF Copy
  <2>7. Lag'
    <3>1. f = l + (m - k) => f = (l + 1) + (m - k - 1)
      BY <1>2
    <3> QED  BY <1>4, <1>5, <2>3, <2>4, <3>1 DEF Copies, Lag, f, l
  <2>8. Followed'
    <3>1. Followed
      BY DEF Copies
    <3>2. ASSUME Writable("prod")
          PROVE  \A i \in 1 .. r + 1 : pipe'[i] =< f
      <4>1. u =< f /\ \A i \in 1 .. r : pipe[i] =< f
        BY <1>1, <2>1, <3>1, <3>2 DEF Followed, b, m, f, r
      <4>2. \A i \in 1 .. r + 1 : i = r + 1 \/ i \in 1 .. r
        BY <1>2
      <4> QED  BY <2>2, <4>1, <4>2
    <3>3. /\ pc'["T1"] = "write" => buf' = buf /\ pc["T1"] = "write"
          /\ pc'["T3"] = pc["T3"] /\ buf'["T3"] = buf["T3"]
      BY <1>1, <1>3, <2>4
    <3> QED  BY <1>4, <2>2, <3>1, <3>2, <3>3 DEF Followed, f, c
  <2> QED  BY <1>6, <2>5, <2>6, <2>7, <2>8 DEF Copies
<1> QED  BY <1>3, <1>7, <1>8

\* T3 takes what is in the stream, or finds T1 dead.
LEMMA CopyReadPipe ==
  ASSUME TypeInv, Links, Copies, ReadPipe("T3"), UNCHANGED duplicate
  PROVE  Links' /\ Copies'
<1> DEFINE f == Forwarded
           c == Copied
           r == Len(pipe)
           b == buf'["T3"]
<1>1. /\ pc \in [Proc -> Step] /\ buf \in [Proc -> Seq(Nat)] /\ pc["T3"] = "recv"
      /\ UNCHANGED <<off, duplicate, got, outq, inq, sent, shut, peer>> /\ duplicate
  BY DEF TypeInv, LoopInv, ReadPipe, sockVars, Links
<1>2. /\ f \in Nat /\ c \in Nat /\ r \in Nat /\ pipe \in Seq(Nat) /\ off["T3"] = 0
  BY <1>1, Counts DEF Sends
<1>3. pc'["T1"] = pc["T1"] /\ buf'["T1"] = buf["T1"] /\ pc'["T3"] \in {"send", "killed"}
  BY <1>1, Names DEF ReadPipe, Goto
<1>4. /\ Copied' = c /\ Forwarded' = f /\ Rest' = Rest /\ Early' = Early
      /\ UNCHANGED <<Writable("prod"), Writable("replica")>>
  BY <1>1, <1>3 DEF Copied, Forwarded, Rest, Early, Writable
<1>5. Served'
  BY <1>1, <1>4 DEF Copies, Served
<1>6. CopyAhead'
  BY <1>1, <1>4 DEF Copies, Copy, CopyAhead, Ahead
<1>7. CASE Ended("T1") /\ Goto("T3", "killed") /\ UNCHANGED <<buf, pipe>>
  <2>1. pc'["T3"] = "killed" /\ Ended("T1")'
    BY <1>1, <1>3, <1>7, Names DEF Goto, Ended
  <2>2. Line' = Line
    BY <1>1, <1>4, <1>7, <2>1 DEF Line, Held
  <2>3. Links'
    BY <1>1, <1>3, <1>4, <2>1 DEF Links
  <2>4. Copy'
    BY <1>6, <2>1 DEF Copy, Copying
  <2>5. Lag'
    BY <1>1, <1>4, <2>2 DEF Copies, Lag
  <2>6. Followed'
    BY <1>3, <1>4, <1>7, <2>1 DEF Copies, Followed
  <2> QED  BY <1>5, <2>3, <2>4, <2>5, <2>6 DEF Copies
<1>8. CASE /\ \E k \in 1 .. BufSize :
                 /\ k =< Len(pipe)
                 /\ buf' = [buf EXCEPT !["T3"] = SubSeq(pipe, 1, k)]
                 /\ pipe' = SubSeq(pipe, k + 1, Len(pipe))
           /\ Goto("T3", "send")
  <2>1. PICK k \in 1 .. BufSize :
           /\ k =< Len(pipe)
           /\ buf' = [buf EXCEPT !["T3"] = SubSeq(pipe, 1, k)]
           /\ pipe' = SubSeq(pipe, k + 1, Len(pipe))
    BY <1>8
  <2>2. k \in 1 .. r /\ k \in Nat
    BY <1>2, <2>1, BufSizeAssumption
  <2>3. b = SubSeq(pipe, 1, k) /\ pc'["T3"] = "send"
    BY <1>1, <1>8, <2>1, Names DEF Goto
  <2>4. /\ Len(b) = k /\ \A i \in 1 .. k : b[i] = pipe[i]
        /\ Len(pipe') = r - k /\ \A i \in 1 .. r - k : pipe'[i] = pipe[k + i]
    <3>1. pipe \in Seq(Nat) /\ k \in 1 .. Len(pipe) /\ r = Len(pipe)
      BY <1>2, <2>2
    <3>2. /\ Len(SubSeq(pipe, 1, k)) = k /\ \A i \in 1 .. k : SubSeq(pipe, 1, k)[i] = pipe[i]
          /\ Len(SubSeq(pipe, k + 1, Len(pipe))) = Len(pipe) - k
          /\ \A i \in 1 .. Len(pipe) - k : SubSeq(pipe, k + 1, Len(pipe))[i] = pipe[k + i]
      BY <3>1, Cut
    <3> HIDE DEF b, r
    <3> QED  BY <2>1, <2>3, <3>1, <3>2
  <2>5. Held("T3") = 0 /\ Held("T3")' = k
    BY <1>1, <1>2, <2>2, <2>3, <2>4 DEF Held
  <2>6. Line' = Line
    <3>1. Line = c + 0 + r /\ Line' = c + k + (r - k)
      BY <1>4, <2>4, <2>5 DEF Line
    <3> HIDE DEF c, r
    <3> QED  BY <1>2, <2>2, <3>1
  <2>7. Links'
    BY <1>1, <1>3, <2>3 DEF Links
  <2> HIDE DEF f, c, r, b
  <2>8. Copy'
    <3>1. ASSUME Copying'
          PROVE  (Line =< sent["client"])' /\ CopyHeld' /\ CopyPiped' /\ (Filling' => CopyRest')
      <4>1. Copying /\ (Filling' => Filling)
        BY <1>1, <1>3, <1>4, <2>3, <3>1 DEF Copying, Filling
      <4>2. Line =< sent["client"] /\ CopyPiped /\ (Filling => CopyRest)
        BY <4>1 DEF Copies, Copy
      <4>3. \A i \in 1 .. r : pipe[i] = c + 0 + i
        BY <2>5, <4>2 DEF CopyPiped, c, r
      <4>4. CopyHeld'
        <5>1. ASSUME NEW i \in 1 .. k PROVE b[i] = c - 0 + i
          <6>1. i \in 1 .. r /\ i \in Nat
            BY <1>2, <2>2
          <6>2. b[i] = c + 0 + i
            BY <2>4, <4>3, <6>1
          <6> QED  BY <1>2, <6>1, <6>2
        <5> QED  BY <1>1, <1>2, <1>4, <2>4, <5>1 DEF CopyHeld, b, c
      <4>5. CopyPiped'
        <5>1. ASSUME NEW i \in 1 .. r - k PROVE pipe'[i] = c + k + i
          <6>1. k + i \in 1 .. r /\ i \in Nat
            BY <1>2, <2>2
          <6>2. pipe'[i] = c + 0 + (k + i)
            BY <2>4, <4>3, <6>1
          <6> QED  BY <1>2, <2>2, <6>1, <6>2
        <5> QED  BY <1>4, <2>4, <2>5, <5>1 DEF CopyPiped, c
      <4>6. Filling' => CopyRest'
        BY <1>1, <1>3, <1>4, <2>6, <4>1, <4>2 DEF CopyRest
      <4> QED  BY <1>1, <2>6, <4>2, <4>4, <4>5, <4>6
    <3> QED  BY <1>6, <3>1 DEF Copy
  <2>9. Lag'
    BY <1>1, <1>4, <2>6 DEF Copies, Lag, f
  <2>10. Followed'
    <3>1. ASSUME Writable("prod")
          PROVE  /\ \A i \in 1 .. k : b[i] =< f
                 /\ \A i \in 1 .. r - k : pipe'[i] =< f
      <4>1. \A i \in 1 .. r : pipe[i] =< f
        BY <3>1 DEF Copies, Followed, f, r
      <4>2. /\ \A i \in 1 .. k : i \in 1 .. r
            /\ \A i \in 1 .. r - k : k + i \in 1 .. r
        BY <1>2, <2>2
      <4> QED  BY <2>4, <4>1, <4>2
    <3> QED  BY <1>3, <1>4, <2>4, <3>1 DEF Copies, Followed, f, c, b
  <2> QED  BY <1>5, <2>7, <2>8, <2>9, <2>10 DEF Copies
<1> QED  BY <1>7, <1>8 DEF ReadPipe

\* T3 sends to the replica, or finds it gone.
LEMMA CopySendReplica ==
  ASSUME TypeInv, Links, Copies, Send("T3", "send", "replica", "recv"),
         UNCHANGED <<duplicate, pipe>>
  PROVE  Links' /\ Copies'
<1> DEFINE b == buf["T3"]
           k == off["T3"]
           m == Len(b)
           f == Forwarded
           n == sent["client"]
           c == Copied
           r == Len(pipe)
           u == NextUnit("T3")
<1>1. /\ pc \in [Proc -> Step] /\ buf \in [Proc -> Seq(Nat)] /\ off \in [Proc -> Nat]
      /\ pc["T3"] = "send" /\ duplicate /\ SockTypeOK
  BY DEF TypeInv, LoopInv, Send, Links
<1>2. /\ b \in Seq(Nat) /\ k \in Nat /\ m \in Nat /\ k < m /\ f \in Nat /\ n \in Nat
      /\ c \in Nat /\ r \in Nat /\ pipe \in Seq(Nat)
  BY <1>1, Counts DEF Sends
<1>3. /\ UNCHANGED <<inq, sent, shut, peer, got, outq["prod"]>>
      /\ UNCHANGED <<pc["T1"], buf["T1"], off["T1"]>>
      /\ \/ Transmit("replica", u) /\ k + 1 = m /\ pc'["T3"] = "recv"
         \/ Transmit("replica", u) /\ k + 1 # m /\ off'["T3"] = k + 1 /\ UNCHANGED <<pc, buf>>
         \/ /\ ~Writable("replica") /\ UNCHANGED outq
            /\ pc'["T3"] \in {"recv", "killed"}
  <2>1. CASE Transmit("replica", u)
    <3>1. UNCHANGED <<got, inq, sent, shut, peer, outq["prod"]>> /\ Writable("replica")
      BY <1>1, <2>1, Names DEF Transmit, SockTypeOK
    <3> QED  BY <1>1, <2>1, <3>1, Names DEF Send, CutShort, LastUnit, Goto, Drop, Writable, Broken, sockVars
  <2>2. CASE ~Transmit("replica", u)
    BY <1>1, <2>2, Names DEF Send, CutShort, Goto, Drop, Writable, Broken, sockVars
  <2> QED  BY <2>1, <2>2
<1>4. /\ Forwarded' = f /\ Rest' = Rest /\ Early' = Early
      /\ UNCHANGED <<Writable("prod"), Writable("replica")>>
  BY <1>3 DEF Forwarded, Rest, Early, Writable
<1>5. Served'
  BY <1>3, <1>4 DEF Copies, Served
<1>6. CASE ~Writable("replica") /\ UNCHANGED outq /\ pc'["T3"] \in {"recv", "killed"}
  <2>1. Copied' = Copied /\ UNCHANGED <<got, outq>>
    BY <1>3, <1>6 DEF Copied
  <2>2. Links'
    BY <1>1, <1>3, <1>4, <1>6 DEF Links
  <2>3. Copy'
    BY <1>3, <1>4, <1>6, <2>1 DEF Copies, Copy, CopyAhead, Ahead, Copying
  <2>4. Lag' /\ Followed'
    BY <1>3, <1>4, <1>6, <2>1 DEF Copies, Lag, Followed
  <2> QED  BY <1>5, <2>2, <2>3, <2>4 DEF Copies
<1>7. CASE /\ Transmit("replica", u)
           /\ \/ k + 1 = m /\ pc'["T3"] = "recv"
              \/ k + 1 # m /\ off'["T3"] = k + 1 /\ UNCHANGED <<pc, buf>>
  <2>1. Writable("replica") /\ Copying
    BY <1>1, <1>7 DEF Transmit, Copying
  <2>2. CopyAhead /\ Line =< n /\ CopyHeld /\ CopyPiped /\ (Filling => CopyRest)
    BY <2>1 DEF Copies, Copy
  <2>3. u = b[k + 1] /\ u \in Nat /\ k + 1 \in 1 .. m
    BY <1>2, ElementOfSeq, SMTT(60) DEF NextUnit
  <2>4. /\ \A i \in 1 .. m : b[i] = c - k + i
        /\ \A i \in 1 .. r : pipe[i] = c + Held("T3") + i
    BY <1>1, <2>2 DEF CopyHeld, CopyPiped
  <2>5. Held("T3") = m - k /\ Held("T3")' = m - (k + 1)
    <3>1. Held("T3") = m - k
      BY <1>1 DEF Held
    <3>2. CASE k + 1 = m /\ pc'["T3"] = "recv"
      <4>1. Held("T3")' = 0
        BY <3>2 DEF Held
      <4> HIDE DEF k, m
      <4> QED  BY <1>2, <3>1, <3>2, <4>1
    <3>3. CASE off'["T3"] = k + 1 /\ UNCHANGED <<pc, buf>>
      BY <1>1, <3>1, <3>3 DEF Held
    <3> QED  BY <1>7, <3>2, <3>3
  <2>6. Line = c + (m - k) + r /\ Line' = Copied' + (m - (k + 1)) + r
    BY <2>5 DEF Line
  <2>7. Links'
    BY <1>1, <1>3, <1>7 DEF Links
  <2>8. Copied = Passed("replica") /\ Base["client"] = 0
    BY SockAssumption, Counts
  <2> HIDE DEF b, k, m, f, n, c, r, u
  <2>9. u = c + 1
    <3>1. u = c - k + (k + 1)
      BY <2>3, <2>4
    <3> QED  BY <1>2, <3>1
  <2>10. Ahead("client", "replica")' /\ Copied' = c + 1
    <3>1. u = Base["client"] + Passed("replica") + 1
      BY <1>2, <2>8, <2>9 DEF c
    <3>2. Ahead("client", "replica")' /\ Passed("replica")' = Passed("replica") + 1
      BY <1>1, <1>7, <2>2, <2>3, <3>1, Names, AheadSend DEF CopyAhead
    <3>3. Copied' = Passed("replica")'
      BY DEF Copied, Passed
    <3> QED  BY <2>8, <3>2, <3>3 DEF c
  <2>11. Line' = Line /\ c + 1 =< n
    BY <1>2, <2>2, <2>6, <2>10
  <2>12. Copy'
    <3>1. CopyAhead'
      BY <1>3, <2>10, <2>11 DEF CopyAhead, n
    <3>2. CopyHeld'
      <4>1. ASSUME pc'["T3"] = "send" PROVE off'["T3"] = k + 1 /\ buf' = buf
        BY <1>7, <4>1
      <4>2. ASSUME NEW i \in 1 .. m PROVE b[i] = (c + 1) - (k + 1) + i
        <5>1. b[i] = c - k + i /\ i \in Nat
          BY <1>2, <2>4
        <5> QED  BY <1>2, <5>1
      <4> QED  BY <2>10, <4>1, <4>2 DEF CopyHeld, b, m
    <3>3. CopyPiped'
      <4>1. ASSUME NEW i \in 1 .. r PROVE pipe[i] = (c + 1) + (m - (k + 1)) + i
        <5>1. pipe[i] = c + (m - k) + i /\ i \in Nat
          BY <1>2, <2>4, <2>5
        <5> QED  BY <1>2, <5>1
      <4> QED  BY <2>5, <2>10, <4>1 DEF CopyPiped, r
    <3>4. Filling' => CopyRest'
      BY <1>3, <1>4, <2>2, <2>11 DEF Filling, CopyRest
    <3>5. (Line =< sent["client"])'
      BY <1>3, <2>2, <2>11 DEF n
    <3> QED  BY <3>1, <3>2, <3>3, <3>4, <3>5 DEF Copy
  <2>13. Lag'
    BY <1>4, <2>11 DEF Copies, Lag, f
  <2>14. Followed'
    <3>1. ASSUME Writable("prod") PROVE c + 1 =< f
      <4>1. u =< f
        BY <1>1, <2>3, <3>1 DEF Copies, Followed, b, m, f
      <4> QED  BY <2>9, <4>1
    <3>2. pc'["T3"] = "send" => pc["T3"] = "send" /\ buf' = buf
      BY <1>1, <1>7
    <3> QED  BY <1>3, <1>4, <2>10, <3>1, <3>2 DEF Copies, Followed, f
  <2> QED  BY <1>5, <2>7, <2>12, <2>13, <2>14 DEF Copies
<1> QED  BY <1>3, <1>6, <1>7

\* The peers write, read, leave, and have connections reset.
LEMMA CopyPeers ==
  ASSUME TypeInv, Links, Copies, Streams, Peers
  PROVE  Links' /\ Copies'
<1>1. /\ UNCHANGED <<duplicate, pc, buf, off, pipe>> /\ SockTypeOK
      /\ {"client", "prod", "replica"} \subseteq Sock
  BY Names DEF TypeInv, LoopInv, Peers, Reads, Writes, Quits, Resets, procVars, pipeVars
<1>2. PICK x \in Sock : \/ PeerRead(x) \/ PeerWrite(x, FALSE) \/ PeerHalfClose(x)
                        \/ PeerClose(x) \/ Reset(x, FALSE)
  BY DEF Peers, Reads, Writes, Quits, Resets
<1>3. ASSUME UNCHANGED <<got["replica"], outq["replica"], got["prod"], outq["prod"],
                         inq["client"], sent["client"]>>,
             Writable("prod")' => Writable("prod"),
             Writable("replica")' => Writable("replica")
      PROVE  Links' /\ Copies'
  BY <1>1, <1>3, CopyStill
<1>4. /\ Rest' = Rest /\ Early' = Early /\ Held("T3")' = Held("T3")
      /\ Forwarded = Passed("prod") /\ Copied = Passed("replica")
      /\ Forwarded' = Passed("prod")' /\ Copied' = Passed("replica")'
  BY <1>1 DEF Rest, Early, Held, Forwarded, Copied, Passed
<1>5. /\ Copied \in Nat /\ Forwarded \in Nat /\ sent["client"] \in Nat /\ Line \in Nat
      /\ Len(inq["client"]) \in Nat /\ inq["client"] \in Seq(Nat) /\ Rest \in Nat
  BY Counts
<1>6. Ahead("client", "prod") /\ Ahead("client", "replica")
  BY DEF Streams, Stream, Copies, Copy, CopyAhead
<1>7. CASE PeerHalfClose(x) \/ PeerClose(x)
  <2>1. /\ Writable("prod")' => Writable("prod")
        /\ Writable("replica")' => Writable("replica")
    BY <1>1, <1>7 DEF PeerHalfClose, PeerClose, Writable, SockTypeOK
  <2> QED  BY <1>3, <1>7, <2>1 DEF PeerHalfClose, PeerClose
<1>8. CASE PeerRead(x)
  <2>1. CASE x = "client"
    BY <1>1, <1>3, <1>8, <2>1 DEF PeerRead, SockTypeOK, Writable
  <2>2. ASSUME x \in {"prod", "replica"}
        PROVE  /\ Forwarded' = Forwarded /\ Copied' = Copied
               /\ Ahead("client", "replica")'
               /\ UNCHANGED <<inq, sent, Writable("prod"), Writable("replica")>>
               /\ x = "replica" => outq["replica"] # <<>>
               /\ x = "prod" => UNCHANGED <<got["replica"], outq["replica"]>>
    <3>1. Len(<<>>) = 0
      OBVIOUS
    <3>2. /\ Ahead("client", x)' /\ Passed(x)' = Passed(x) /\ Len(outq[x]) # 0
          /\ UNCHANGED <<inq, sent, shut, peer>>
      BY <1>1, <1>6, <1>8, <2>2, AheadRead
    <3>3. \A y \in Sock : y # x => UNCHANGED <<got[y], outq[y]>>
      BY <1>1, <1>8 DEF PeerRead, SockTypeOK
    <3>4. Writable("prod")' = Writable("prod") /\ Writable("replica")' = Writable("replica")
      BY <3>2 DEF Writable
    <3> QED  BY <1>1, <1>4, <1>6, <2>2, <3>1, <3>2, <3>3, <3>4, ZenonT(60) DEF Ahead, Passed
  <2>3. CASE x \in {"prod", "replica"}
    <3>1. Line' = Line
      BY <1>1, <1>4, <2>2, <2>3 DEF Line
    <3>2. Links'
      BY <1>1, <2>2, <2>3 DEF Links, Ended
    <3>3. Copy'
      <4>1. Copying' = Copying /\ Filling' = Filling
        BY <1>1, <2>2, <2>3 DEF Copying, Filling
      <4>2. CopyAhead'
        BY <2>2, <2>3 DEF Copies, Copy, CopyAhead
      <4>3. CopyHeld' = CopyHeld /\ CopyPiped' = CopyPiped
        BY <1>1, <1>4, <2>2, <2>3 DEF CopyHeld, CopyPiped
      <4>4. CopyRest' = CopyRest
        BY <1>1, <1>4, <2>2, <2>3, <3>1 DEF CopyRest
      <4> QED  BY <2>2, <2>3, <3>1, <4>1, <4>2, <4>3, <4>4 DEF Copies, Copy
    <3>4. Lag' /\ Served'
      BY <1>1, <1>4, <2>2, <2>3, <3>1 DEF Copies, Lag, Served
    <3>5. Followed'
      BY <1>1, <2>2, <2>3 DEF Copies, Followed
    <3> QED  BY <3>2, <3>3, <3>4, <3>5 DEF Copies
  <2> QED  BY <2>1, <2>3, SockAssumption
<1>9. CASE Reset(x, FALSE)
  <2>1. CASE x = "client"
    BY <1>1, <1>3, <1>9, <2>1 DEF Reset, SockTypeOK, Writable
  <2>2. ASSUME x \in {"prod", "replica"}
        PROVE  /\ Ahead("client", x)' /\ Passed(x)' =< Passed(x) /\ outq[x] # <<>>
               /\ UNCHANGED <<got, inq, sent, shut, peer>>
               /\ ~Writable(x) /\ ~Writable(x)'
               /\ \A y \in Sock : y # x => UNCHANGED outq[y]
    <3>1. Len(<<>>) = 0
      OBVIOUS
    <3>2. /\ Ahead("client", x)' /\ Passed(x)' =< Passed(x) /\ Len(outq[x]) # 0
          /\ shut[x] \/ FALSE
          /\ UNCHANGED <<got, inq, sent, shut, peer>>
      BY <1>1, <1>6, <1>9, <2>2, AheadReset
    <3>3. \A y \in Sock : y # x => UNCHANGED outq[y]
      BY <1>1, <1>9 DEF Reset, SockTypeOK
    <3> QED  BY <3>1, <3>2, <3>3 DEF Writable
  <2>3. CASE x = "prod"
    <3>1. /\ Forwarded' =< Forwarded /\ ~Writable("prod")' /\ ~Writable("prod")
          /\ UNCHANGED <<got, inq, sent, shut, peer, outq["replica"]>>
      BY <1>1, <1>4, <2>2, <2>3
    <3>2. Copied' = Copied /\ Forwarded' \in Nat
      <4>1. outq'["prod"] \in Seq(Nat) /\ got["prod"] \in Seq(Nat)
        BY <1>1, <1>9, PeerTypeOK DEF SockTypeOK
      <4>2. Len(outq'["prod"]) \in Nat /\ Len(got["prod"]) \in Nat
        BY <4>1
      <4>3. \A i, j \in Nat : i + j \in Nat
        OBVIOUS
      <4>4. Forwarded' \in Nat
        BY <3>1, <4>2, <4>3, Zenon DEF Forwarded
      <4> QED  BY <3>1, <4>4 DEF Copied
    <3>3. Line' = Line /\ Writable("replica")' = Writable("replica")
      BY <1>1, <1>4, <3>1, <3>2 DEF Line, Writable
    <3>4. Links'
      BY <1>1, <3>1, <3>3 DEF Links, Ended
    <3>5. Copy'
      <4>1. Copying' = Copying /\ Filling' = Filling
        BY <1>1, <3>3 DEF Copying, Filling
      <4>2. CopyAhead' = CopyAhead
        BY <3>1, <3>2 DEF CopyAhead, Ahead
      <4>3. CopyHeld' = CopyHeld /\ CopyPiped' = CopyPiped /\ CopyRest' = CopyRest
        BY <1>1, <1>4, <3>1, <3>2, <3>3 DEF CopyHeld, CopyPiped, CopyRest
      <4> QED  BY <3>1, <3>3, <4>1, <4>2, <4>3 DEF Copies, Copy
    <3>6. Lag' /\ Followed'
      BY <3>1 DEF Lag, Followed
    <3>7. Served'
      BY <1>5, <3>1, <3>2 DEF Copies, Served
    <3> QED  BY <3>4, <3>5, <3>6, <3>7 DEF Copies
  <2>4. CASE x = "replica"
    <3>1. /\ Copied' =< Copied /\ ~Writable("replica")' /\ ~Writable("replica")
          /\ UNCHANGED <<got, inq, sent, shut, peer, outq["prod"]>>
          /\ Ahead("client", "replica")' /\ outq["replica"] # <<>>
      BY <1>1, <1>4, <2>2, <2>4
    <3>2. Forwarded' = Forwarded /\ Copied' \in Nat
      <4>1. outq'["replica"] \in Seq(Nat) /\ got["replica"] \in Seq(Nat)
        BY <1>1, <1>9, PeerTypeOK DEF SockTypeOK
      <4>2. Len(outq'["replica"]) \in Nat /\ Len(got["replica"]) \in Nat
        BY <4>1
      <4>3. \A i, j \in Nat : i + j \in Nat
        OBVIOUS
      <4>4. Copied' \in Nat
        BY <3>1, <4>2, <4>3, Zenon DEF Copied
      <4> QED  BY <3>1, <4>4 DEF Forwarded
    <3>3. Writable("prod")' = Writable("prod") /\ pc["T3"] # "none"
      BY <3>1 DEF Writable, Links
    <3>4. Links'
      BY <1>1, <3>1, <3>3 DEF Links, Ended
    <3>5. Copied' =< sent'["client"] /\ (Copied =< Forwarded => Copied' =< Forwarded)
      BY <1>5, <3>1, <3>2 DEF Copies, Copy, CopyAhead
    <3>6. Copy'
      BY <1>1, <3>1, <3>3, <3>5 DEF Copy, CopyAhead, Copying
    <3>7. Lag' /\ Served'
      BY <3>1, <3>2 DEF Copies, Lag, Served
    <3>8. Followed'
      BY <1>1, <3>2, <3>3, <3>5 DEF Copies, Followed
    <3> QED  BY <3>4, <3>6, <3>7, <3>8 DEF Copies
  <2> QED  BY <2>1, <2>3, <2>4, SockAssumption
<1>10. CASE PeerWrite(x, FALSE)
  <2>1. CASE x # "client"
    BY <1>1, <1>3, <1>10, <2>1 DEF PeerWrite, SockTypeOK, Writable
  <2>2. CASE x = "client"
    <3> DEFINE n == sent["client"]
               q == Len(inq["client"])
    <3>1. /\ UNCHANGED <<got, outq, shut, peer>> /\ sent'["client"] = n + 1
          /\ inq'["client"] = Append(inq["client"], Base["client"] + n + 1)
      BY <1>1, <1>10, <2>2 DEF PeerWrite, SockTypeOK
    <3>2. Len(inq'["client"]) = q + 1
      BY <1>5, <3>1, SockAssumption, AppendProperties
    <3>3. /\ Copied' = Copied /\ Forwarded' = Forwarded
          /\ UNCHANGED <<Writable("prod"), Writable("replica")>>
      BY <3>1 DEF Copied, Forwarded, Writable
    <3>4. Line' = Line
      BY <1>1, <1>4, <3>3 DEF Line
    <3>5. Links'
      BY <1>1, <3>1, <3>3 DEF Links, Ended
    <3> HIDE DEF n, q
    <3>6. \A i \in Nat : i =< n => i =< n + 1
      BY <1>5 DEF n
    <3>7. Copy'
      <4>1. Copying' = Copying /\ Filling' = Filling
        BY <1>1, <3>3 DEF Copying, Filling
      <4>2. CopyAhead'
        BY <1>5, <3>1, <3>3, <3>6 DEF Copies, Copy, CopyAhead, Ahead, n
      <4>3. CopyHeld' = CopyHeld /\ CopyPiped' = CopyPiped
        BY <1>1, <1>4, <3>3 DEF CopyHeld, CopyPiped
      <4>4. CopyRest => CopyRest'
        <5>1. \A i, j, k \in Nat : i + j + k = n => i + j + (k + 1) = n + 1
          BY <1>5 DEF n
        <5>2. ASSUME CopyRest PROVE Line + Rest + (q + 1) = n + 1
          BY <1>5, <5>1, <5>2, ZenonT(60) DEF CopyRest, n, q
        <5>3. Rest' = Rest
          BY <1>4
        <5> QED  BY <1>1, <3>1, <3>2, <3>4, <5>2, <5>3 DEF CopyRest
      <4>5. Line =< n => Line' =< sent'["client"]
        BY <1>5, <3>1, <3>4, <3>6
      <4> QED  BY <4>1, <4>2, <4>3, <4>4, <4>5 DEF Copies, Copy, n
    <3>8. Lag'
      BY <1>1, <1>4, <3>3, <3>4 DEF Copies, Lag
    <3>9. Served'
      BY <1>5, <3>1, <3>3, <3>6 DEF Copies, Served, n
    <3>10. Followed'
      BY <1>1, <3>3 DEF Copies, Followed
    <3> QED  BY <3>5, <3>7, <3>8, <3>9, <3>10 DEF Copies
  <2> QED  BY <2>1, <2>2
<1> QED  BY <1>2, <1>7, <1>8, <1>9, <1>10

LEMMA InitCopies == Init => Links /\ Copies
<1> SUFFICES ASSUME Init PROVE Links /\ Copies
  OBVIOUS
<1>1. /\ pc["T1"] = "none" /\ pc["T3"] = "none" /\ pipe = <<>> /\ sent["client"] = 0
      /\ inq["client"] = <<>>
      /\ \A s \in {"prod", "replica"} : got[s] = <<>> /\ outq[s] = <<>>
  BY Names DEF Init, SockInit
<1>2. Len(<<>>) = 0 /\ \A i \in 1 .. 0 : FALSE
  OBVIOUS
<1>3. Copied = 0 /\ Forwarded = 0 /\ Held("T3") = 0 /\ Rest = 0 /\ Early = 0
  <2>1. Copied = 0 + 0 /\ Forwarded = 0 + 0
    BY <1>1, <1>2, Zenon DEF Copied, Forwarded
  <2>2. Held("T3") = 0 /\ Rest = 0 /\ Early = 0
    BY <1>1, Zenon DEF Held, Rest, Early
  <2> QED  BY <2>1, <2>2
<1>4. Line = 0
  BY <1>1, <1>2, <1>3 DEF Line
<1>5. Links
  BY <1>1 DEF Links
<1>6. Copy
  <2>1. CopyAhead
    BY <1>1, <1>2, <1>3 DEF CopyAhead, Ahead
  <2>2. CopyHeld /\ CopyPiped /\ CopyRest
    BY <1>1, <1>2, <1>3, <1>4 DEF CopyHeld, CopyPiped, CopyRest, Sends
  <2> QED  BY <1>1, <1>4, <2>1, <2>2 DEF Copy
<1>7. Lag /\ Served
  BY <1>1, <1>3, <1>4 DEF Lag, Served
<1>8. Followed
  BY <1>1, <1>2, <1>3 DEF Followed
<1> QED  BY <1>5, <1>6, <1>7, <1>8 DEF Copies

\* What the copy does not feel of the threads: kill() and failing reads.
LEMMA CopyEnds ==
  ASSUME TypeInv, Links, Copies, NEW p \in {"main", "T1", "T2", "T4"},
         kill(p) \/ SeesStop(p) \/ \E s \in Sock : ReadFails(p, s),
         UNCHANGED <<duplicate, pipe>>
  PROVE  Links' /\ Copies'
<1>1. /\ pc \in [Proc -> Step] /\ {"main", "T1", "T2", "T3", "T4"} \subseteq Proc /\ SockTypeOK
      /\ {"client", "prod", "replica"} \subseteq Sock
  BY Names DEF TypeInv, LoopInv
<1>2. /\ UNCHANGED <<buf, off, got, outq, inq, sent, peer>>
      /\ \A s \in {"prod", "replica"} : shut[s] => shut'[s]
      /\ pc[p] \in {"recv", "shut1", "shut2", "shut3"}
      /\ \E next \in {"shut1", "shut2", "shut3", "done", "killed"} : Goto(p, next)
  BY <1>1 DEF kill, Shut, ShutDown, SeesStop, ReadFails, sockVars, SockTypeOK
<1>3. /\ pc'[p] \in {"shut1", "shut2", "shut3", "done", "killed"}
      /\ \A q \in {"T1", "T3"} : q # p => pc'[q] = pc[q]
  BY <1>1, <1>2 DEF Goto
<1>4. /\ Writable("prod")' => Writable("prod")
      /\ Writable("replica")' => Writable("replica")
  BY <1>2 DEF Writable
<1>5. pc'["T3"] = pc["T3"]
  BY <1>3
<1>6. CASE p = "T1"
  BY <1>2, <1>3, <1>4, <1>5, <1>6, CopyStill DEF Sends
<1>7. CASE p # "T1"
  <2>1. pc'["T1"] = pc["T1"]
    BY <1>3, <1>7
  <2> QED  BY <1>2, <1>4, <1>5, <2>1, CopyStill
<1> QED  BY <1>6, <1>7

\* The main thread.
LEMMA CopyRegister ==
  ASSUME TypeInv, Before, Links, Copies, Register
  PROVE  Links' /\ Copies'
<1>1. pc \in [Proc -> Step]
  BY DEF TypeInv, LoopInv
<1>2. CASE ConnectProd \/ ConnectReplica
  <2>1. /\ Connecting /\ UNCHANGED <<pc["T1"], pc["T3"]>>
        /\ UNCHANGED <<duplicate, buf, off, pipe, got, outq, inq, sent>>
    BY <1>1, <1>2, Names
       DEF ConnectProd, ConnectReplica, Connect, Goto, Connected, sockVars, pipeVars,
           Connecting
  <2> QED  BY <2>1, CopyConnect
<1>3. ASSUME NEW p \in Worker, Start(p) PROVE Links' /\ Copies'
  <2>1. /\ p \in Proc /\ p # "main" /\ pc[p] = "none" /\ pc'[p] = "recv"
        /\ \A q \in {"T1", "T3"} : q # p => pc'[q] = pc[q]
        /\ UNCHANGED <<duplicate, sockVars, buf, off, pipe>>
        /\ p = "T3" => duplicate
    BY <1>1, <1>3, Names DEF Start, Worker, pipeVars
  <2>2. /\ UNCHANGED <<got, outq, inq, sent>>
        /\ UNCHANGED <<Writable("prod"), Writable("replica")>>
    BY <2>1 DEF sockVars, Writable
  <2> QED  BY <2>1, <2>2, CopyStill DEF Sends
<1>4. CASE MakeStreams
  <2>1. /\ UNCHANGED <<pc["T1"], pc["T3"], duplicate, buf, off, pipe, got, outq, inq, sent>>
        /\ UNCHANGED <<Writable("prod"), Writable("replica")>>
    BY <1>1, <1>4, Names DEF MakeStreams, Goto, sockVars, pipeVars, Writable
  <2> QED  BY <2>1, CopyStill
<1>5. CASE kill("main") /\ UNCHANGED <<duplicate, pipeVars>>
  BY <1>5, CopyEnds DEF pipeVars
<1> QED  BY <1>2, <1>3, <1>4, <1>5 DEF Register

\* The threads.
LEMMA CopyT1 ==
  ASSUME TypeInv, Links, Copies, Streams, T1
  PROVE  Links' /\ Copies'
<1>1. "client" \in Sock /\ UNCHANGED duplicate /\ Stream("T1", "client", "prod")
  BY Names DEF T1, Streams
<1>2. CASE duplicate
  <2>1. CommunicateToServerAndPipe("T1")
    BY <1>2 DEF T1
  <2>2. CASE Read("T1", "client") /\ UNCHANGED <<pipeVars, stop>>
    BY <1>1, <2>2, CopyRecv, CopyEnds DEF Read, pipeVars
  <2>3. CASE Send("T1", "send", "prod", "write") /\ UNCHANGED <<pipeVars, stop>>
    BY <1>1, <1>2, <2>3, CopySend DEF pipeVars
  <2>4. CASE WritePipe("T1")
    BY <1>1, <2>4, CopyWrite
  <2>5. CASE kill("T1") /\ UNCHANGED pipeVars
    BY <1>1, <2>5, CopyEnds DEF pipeVars
  <2> QED  BY <2>1, <2>2, <2>3, <2>4, <2>5 DEF CommunicateToServerAndPipe
<1>3. CASE ~duplicate
  <2>1. Communicate("T1", "client", "prod")
    BY <1>3 DEF T1
  <2>2. CASE Read("T1", "client") /\ UNCHANGED <<pipeVars, stop>>
    BY <1>1, <2>2, CopyRecv, CopyEnds DEF Read, pipeVars
  <2>3. CASE Send("T1", "send", "prod", "recv") /\ UNCHANGED <<pipeVars, stop>>
    BY <1>1, <1>3, <2>3, CopySend DEF pipeVars
  <2>4. CASE SeesStop("T1") /\ UNCHANGED <<pipeVars, stop>>
    BY <1>1, <2>4, CopyEnds DEF pipeVars
  <2>5. CASE kill("T1") /\ UNCHANGED pipeVars
    BY <1>1, <2>5, CopyEnds DEF pipeVars
  <2> QED  BY <2>1, <2>2, <2>3, <2>4, <2>5 DEF Communicate
<1> QED  BY <1>2, <1>3

LEMMA CopyOthers ==
  ASSUME TypeInv, Links, Copies, T2 \/ T3 \/ T4
  PROVE  Links' /\ Copies'
<1>1. /\ pc \in [Proc -> Step] /\ buf \in [Proc -> Seq(Nat)] /\ off \in [Proc -> Nat]
      /\ {"T1", "T2", "T3", "T4"} \subseteq Proc /\ SockTypeOK /\ UNCHANGED duplicate
      /\ {"client", "prod", "replica"} \subseteq Sock
  BY Names DEF TypeInv, LoopInv, T2, T3, T4
<1>2. ASSUME NEW p \in {"T2", "T4"}, UNCHANGED pipe,
             \/ Recv(p, "prod", "send", "shut1")
             \/ Send(p, "send", "client", "recv")
             \/ Drain(p, "replica") \/ DrainEnd(p, "replica")
      PROVE  Links' /\ Copies'
  <2>1. /\ UNCHANGED <<pc["T1"], pc["T3"], buf["T1"], buf["T3"], off["T1"], off["T3"]>>
    BY <1>1, <1>2 DEF Recv, Send, Drain, DrainEnd, Goto, Drop
  <2>2. /\ UNCHANGED <<got, outq["prod"], outq["replica"], inq["client"], sent, shut, peer>>
    BY <1>1, <1>2
       DEF Recv, Receive, Send, Transmit, Drain, DrainEnd, sockVars, SockTypeOK
  <2>3. UNCHANGED <<Writable("prod"), Writable("replica")>>
    BY <2>2 DEF Writable
  <2> QED  BY <1>1, <1>2, <2>1, <2>2, <2>3, CopyStill
<1>3. CASE T2
  BY <1>1, <1>2, <1>3, CopyEnds DEF T2, Communicate, Read, pipeVars
<1>4. CASE T3
  BY <1>1, <1>4, CopyReadPipe, CopySendReplica DEF T3, CommunicatePipeToSock, pipeVars
<1>5. CASE T4
  BY <1>1, <1>2, <1>5, CopyEnds DEF T4, CommunicateReplicaTo, pipeVars
<1> QED  BY <1>3, <1>4, <1>5

\* The whole invariant.
LEMMA InitInv == Init => Inv
BY InitTypes, InitStreams, InitCopies DEF Inv

LEMMA NextInv == Inv /\ [Next]_vars => Inv'
<1> SUFFICES ASSUME Inv, [Next]_vars PROVE Inv'
  OBVIOUS
<1>1. TypeInv' /\ Before' /\ Streams'
  BY NextTypes, NextStreams DEF Inv
<1>2. CASE UNCHANGED vars
  <2>1. /\ UNCHANGED <<duplicate, pipe, buf, off, pc, got, outq, inq, sent>>
        /\ UNCHANGED <<Writable("prod"), Writable("replica")>>
    BY <1>2 DEF vars, sockVars, Writable
  <2> QED  BY <1>1, <2>1, CopyStill DEF Inv
<1>3. CASE Next
  BY <1>1, <1>3, CopyRegister, CopyT1, CopyOthers, CopyPeers DEF Inv, Next
<1> QED  BY <1>2, <1>3

----------------------------------------------------------------------------
(* What follows for the replica.                                           *)

\* As long as both servers are connected production is ahead of the replica by no
\* more than what fits into the stream and the buffers of T1 and T3, whatever the
\* sizes and however slow the replica: nothing is dropped on the way.
THEOREM JavaLag == Spec => []StreamBoundsLag
<1>1. Inv => StreamBoundsLag
  <2> SUFFICES ASSUME Inv, duplicate, Writable("prod"), Writable("replica")
               PROVE  Forwarded - Copied =< PipeCap + Len(buf["T1"]) + Len(buf["T3"])
    BY DEF StreamBoundsLag
  <2> DEFINE l1 == Len(buf["T1"])
             l3 == Len(buf["T3"])
             h == Held("T3")
             e == Early
             c == Copied
             f == Forwarded
             r == Len(pipe)
  <2>1. f = c + h + r + e
    BY DEF Inv, Copies, Lag, Line
  <2>2. r =< PipeCap /\ PipeCap \in Nat /\ c \in Nat /\ r \in Nat /\ f \in Nat
    BY Counts, SizeAssumption DEF Inv, TypeInv
  <2>3. h \in Nat /\ e \in Nat /\ l1 \in Nat /\ l3 \in Nat
    BY Counts DEF Inv
  <2>4. h =< l3 /\ e =< l1
    <3>1. /\ off["T1"] \in Nat /\ off["T3"] \in Nat
          /\ pc["T1"] \in Sends => off["T1"] < l1
      BY Counts DEF Inv
    <3>2. h = l3 - off["T3"] \/ h = 0
      BY DEF Held
    <3>3. (pc["T1"] \in Sends /\ e = off["T1"]) \/ e = l1 - off["T1"] \/ e = 0
      BY DEF Early, Sends
    <3> HIDE DEF l1, l3, h, e
    <3> QED  BY <2>3, <3>1, <3>2, <3>3
  <2>5. f - c =< PipeCap + l1 + l3
    <3> HIDE DEF l1, l3, h, e, c, f, r
    <3> QED  BY <2>1, <2>2, <2>3, <2>4
  <2> QED  BY <2>5
<1> QED  BY <1>1, InitInv, NextInv, PTL DEF Spec

\* While the connection to production stands nothing is in the stream or at the
\* replica that production has not been sent before.
THEOREM JavaNeverAhead == Spec => []CloneNeverAhead
<1>1. Inv => CloneNeverAhead
  <2> SUFFICES ASSUME Inv, Writable("prod"),
                      NEW u \in Units(got["replica"]) \cup Units(outq["replica"]) \cup Units(pipe)
               PROVE  u =< Forwarded
    BY DEF CloneNeverAhead
  <2> DEFINE g == Len(got["replica"])
             o == Len(outq["replica"])
  <2>1. /\ g \in Nat /\ o \in Nat /\ Forwarded \in Nat /\ Copied = g + o /\ Copied =< Forwarded
        /\ \A i \in 1 .. Len(pipe) : pipe[i] =< Forwarded
        /\ \A i \in 1 .. g : got["replica"][i] = 0 + i
        /\ \A i \in 1 .. o : outq["replica"][i] = 0 + g + i
    BY Counts, SockAssumption
       DEF Inv, Copies, Followed, Copy, CopyAhead, Ahead, Copied
  <2> HIDE DEF g, o
  <2>2. CASE u \in Units(got["replica"])
    <3>1. PICK i \in 1 .. g : u = got["replica"][i]
      BY <2>2 DEF Units, g
    <3> QED  BY <2>1, <3>1
  <2>3. CASE u \in Units(outq["replica"])
    <3>1. PICK i \in 1 .. o : u = outq["replica"][i]
      BY <2>3 DEF Units, o
    <3>2. u = 0 + g + i /\ i \in Nat /\ i =< o
      BY <2>1, <3>1
    <3> QED  BY <2>1, <3>2
  <2>4. CASE u \in Units(pipe)
    BY <2>1, <2>4 DEF Units
  <2> QED  BY <2>2, <2>3, <2>4
<1> QED  BY <1>1, InitInv, NextInv, PTL DEF Spec

\* The steps of the proxy change neither what has been written nor what has been read.
LEMMA InsideSteps ==
  ASSUME Register \/ T1 \/ T2 \/ T3 \/ T4
  PROVE  UNCHANGED <<sent, got>>
<1>1. ASSUME NEW p, NEW s, Read(p, s) PROVE UNCHANGED <<sent, got>>
  BY <1>1 DEF Read, ReadFails, Recv, Receive, sockVars
<1>2. ASSUME NEW p, NEW at, NEW s, NEW next, Send(p, at, s, next) PROVE UNCHANGED <<sent, got>>
  BY <1>2 DEF Send, Transmit, sockVars
<1>3. ASSUME NEW p, kill(p) PROVE UNCHANGED <<sent, got>>
  BY <1>3 DEF kill, Shut, ShutDown
<1>4. CASE Register
  BY <1>3, <1>4
     DEF Register, ConnectProd, ConnectReplica, Connect, Connected, MakeStreams, Start, sockVars
<1>5. CASE T1 \/ T2
  BY <1>1, <1>2, <1>3, <1>5
     DEF T1, T2, Communicate, CommunicateToServerAndPipe, SeesStop, WritePipe, sockVars
<1>6. CASE T3
  BY <1>2, <1>6 DEF T3, CommunicatePipeToSock, ReadPipe, sockVars
<1>7. CASE T4
  BY <1>3, <1>7
     DEF T4, CommunicateReplicaTo, ReadFails, Drain, DrainEnd, Receive, sockVars
<1> QED  BY <1>4, <1>5, <1>6, <1>7

\* What a server reads is the next unit.
LEMMA NextRead ==
  ASSUME Inv, NEW s \in {"prod", "replica"}, PeerRead(s)
  PROVE  /\ got'[s] = Append(got[s], Len(got[s]) + 1)
         /\ Len(got[s]) < sent["client"]
         /\ Len(got[s]) \in Nat /\ sent["client"] \in Nat
         /\ \A i \in 1 .. Len(got[s]) : got[s][i] = i
         /\ \A x \in Sock : x # s => got'[x] = got[x]
         /\ sent' = sent
<1> DEFINE g == Len(got[s])
           o == Len(outq[s])
           n == sent["client"]
<1>1. Ahead("client", s) /\ Passed(s) =< n
  BY Counts DEF Inv, Streams, Stream, Copies, Copy, CopyAhead, Served
<1>2. /\ g \in Nat /\ o \in Nat /\ n \in Nat /\ outq[s] \in Seq(Nat) /\ s \in Sock
      /\ got \in [Sock -> Seq(Nat)]
  BY Counts, Names DEF Inv, TypeInv, LoopInv, SockTypeOK
<1>3. /\ outq[s] # <<>> /\ got' = [got EXCEPT ![s] = Append(@, Head(outq[s]))] /\ sent' = sent
  BY DEF PeerRead
<1>4. o > 0 /\ Head(outq[s]) = outq[s][1]
  BY <1>2, <1>3, HeadTailProperties
<1>5. /\ \A i \in 1 .. g : got[s][i] = 0 + i
      /\ \A i \in 1 .. o : outq[s][i] = 0 + g + i
      /\ g + o =< n
  BY <1>1, SockAssumption DEF Ahead, Passed
<1> HIDE DEF g, o, n
<1>6. Head(outq[s]) = g + 1 /\ g < n /\ \A i \in 1 .. g : got[s][i] = i
  BY <1>2, <1>4, <1>5
<1> QED  BY <1>2, <1>3, <1>6 DEF g, n

\* Every step is one of the Mirror's, or changes nothing it shows.
LEMMA StepMirrors ==
  ASSUME Inv, [Next]_vars
  PROVE  [Promise!Next]_(Promise!vars)
<1> USE DEF Promise!vars
<1>1. CASE UNCHANGED vars
  BY <1>1 DEF vars, sockVars
<1>2. CASE Register \/ T1 \/ T2 \/ T3 \/ T4
  BY <1>2, InsideSteps
<1>3. CASE Peers
  <2>1. PICK x \in Sock : \/ PeerRead(x) \/ PeerWrite(x, FALSE) \/ PeerHalfClose(x)
                          \/ PeerClose(x) \/ Reset(x, FALSE)
    BY <1>3 DEF Peers, Reads, Writes, Quits, Resets
  <2>2. /\ {"client", "prod", "replica"} = Sock
        /\ got \in [Sock -> Seq(Nat)] /\ sent \in [Sock -> Nat]
    BY SockAssumption DEF Inv, TypeInv, LoopInv, SockTypeOK
  <2>3. CASE PeerHalfClose(x) \/ PeerClose(x) \/ Reset(x, FALSE)
    BY <2>3 DEF PeerHalfClose, PeerClose, Reset
  <2>4. CASE PeerWrite(x, FALSE)
    <3>1. CASE x = "client"
      BY <2>2, <2>4, <3>1 DEF PeerWrite, Promise!Next, Promise!Request
    <3>2. CASE x # "client"
      BY <2>2, <2>4, <3>2 DEF PeerWrite
    <3> QED  BY <3>1, <3>2
  <2>5. CASE PeerRead(x) /\ x = "client"
    BY <2>2, <2>5 DEF PeerRead
  <2>6. CASE PeerRead(x) /\ x = "prod"
    <3>1. /\ got'["prod"] = Append(got["prod"], Len(got["prod"]) + 1)
          /\ Len(got["prod"]) < sent["client"]
          /\ got'["replica"] = got["replica"] /\ sent' = sent
      BY <2>2, <2>6, NextRead
    <3> QED  BY <3>1 DEF Promise!Next, Promise!Deliver
  <2>7. CASE PeerRead(x) /\ x = "replica"
    <3> DEFINE g == Len(got["replica"])
               n == sent["client"]
    <3>1. /\ got'["replica"] = Append(got["replica"], g + 1)
          /\ g < n /\ g \in Nat /\ n \in Nat
          /\ \A i \in 1 .. g : got["replica"][i] = i
          /\ got'["prod"] = got["prod"] /\ sent' = sent
      BY <2>2, <2>7, NextRead
    <3>2. Promise!Last = g
      <4>1. Len(<<>>) = 0 /\ (got["replica"] # <<>> => g # 0)
        BY <2>2
      <4>2. g # 0 => got["replica"][g] = g
        BY <3>1
      <4> QED  BY <4>1, <4>2 DEF Promise!Last
    <3> HIDE DEF g, n
    <3>3. g + 1 \in g + 1 .. n /\ g + 1 .. (g + 1) - 1 = {}
      BY <3>1
    <3>4. \E u \in Promise!Last + 1 .. n :
             /\ u \notin {}
             /\ Promise!Last + 1 .. u - 1 \subseteq {}
             /\ got'["replica"] = Append(got["replica"], u)
      BY <3>1, <3>2, <3>3
    <3> QED  BY <3>1, <3>4 DEF Promise!Next, Promise!Copy, n
  <2> QED  BY <2>1, <2>2, <2>3, <2>4, <2>5, <2>6, <2>7
<1> QED  BY <1>1, <1>2, <1>3 DEF Next

\* The registration implements the Mirror and never skips: production and the
\* replica each read the client's stream, unit by unit, and nothing that the
\* client has not written; for every size, and whoever leaves when.
THEOREM JavaMirrors == Spec => MirrorsTraffic
<1>1. Init => Promise!Init
  BY Names DEF Init, SockInit, Promise!Init
<1> QED  BY <1>1, InitInv, NextInv, StepMirrors, PTL DEF Spec, MirrorsTraffic, Promise!Spec

=============================================================================
