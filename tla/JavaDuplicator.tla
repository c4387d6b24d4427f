--------------------------- MODULE JavaDuplicator ---------------------------
(***************************************************************************)
(* The duplicator in Java, modules/javaTCPProxyRaw: one client connection, *)
(* from its accept() on.                                                   *)
(*                                                                         *)
(* The main thread runs the constructor of Register: it connects to the    *)
(* production server and, when duplicating, to the replica, and starts     *)
(*   T1  client -> production, and into the piped stream                   *)
(*   T2  production -> client                                              *)
(*   T3  piped stream -> replica     (when duplicating)                    *)
(*   T4  replica -> nowhere          (when duplicating)                    *)
(* The piped stream blocks its writer while it is full.  A thread that     *)
(* reads end of file closes all sockets with Register.kill(); one that     *)
(* gets an IOException only ends itself, which is "killed" in Forwarder.   *)
(* Registrations share only the JVM, which other ones keep running.        *)
(***************************************************************************)
EXTENDS Forwarder

CONSTANTS
    Modes,       \* the values Proxy.isDuplicate() may have
    PipeCap,     \* units the PipedInputStream holds
    MaxSent,     \* bound: units the client writes
    Reply,       \* units a server writes for each unit it has read
    MaxReply,    \* bound: MaxReply[s], units server s writes in all
    Leaving      \* <<s, "half">>, <<s, "closed">>: how a peer may close its end

ASSUME ModesAssumption == Modes \subseteq BOOLEAN
ASSUME SizeAssumption ==
    /\ PipeCap \in Nat \ {0}
    /\ MaxSent \in Nat
    /\ Reply \in [{"prod", "replica"} -> Nat]
    /\ MaxReply \in [{"prod", "replica"} -> Nat]
    /\ Leaving \subseteq Sock \X {"half", "closed"}
ASSUME SockAssumption == Sock = {"client", "prod", "replica"} /\ Base["client"] = 0

VARIABLES
    duplicate,   \* Proxy.isDuplicate()
    pipe,        \* what T1 has written to pos and T3 has yet to read from pis
    wrote,       \* pis knows its writing thread: T1 has written to pos
    stop         \* ClienttoServer.isRunning has been reset

vars == <<duplicate, sockVars, pc, buf, off, pipe, wrote, stop>>
pipeVars == <<pipe, wrote>>

Worker == IF duplicate THEN {"T1", "T2", "T3", "T4"} ELSE {"T1", "T2"}
Proc == {"main", "T1", "T2", "T3", "T4"}

Step == Over \cup LoopStep
        \cup {"connectProd", "connectReplica", "streams", "start", "accept",
              "dead", "write", "shut3"}

\* Types, and the capacities nothing may exceed.
TypeOK ==
    /\ SockTypeOK
    /\ duplicate \in Modes
    /\ pc \in [Proc -> Step]
    /\ buf \in [Proc -> Seq(Nat)]
    /\ off \in [Proc -> Nat]
    /\ pipe \in Seq(Nat)
    /\ wrote \in BOOLEAN
    /\ stop \in BOOLEAN
    /\ \A p \in Proc : Len(buf[p]) =< BufSize
    /\ Len(pipe) =< PipeCap

Init ==
    /\ SockInit({"client"})
    /\ duplicate \in Modes
    /\ pc = [p \in Proc |-> IF p = "main" THEN "connectProd" ELSE "none"]
    /\ buf = [p \in Proc |-> <<>>]
    /\ off = [p \in Proc |-> 0]
    /\ pipe = <<>>
    /\ wrote = FALSE
    /\ stop = FALSE

----------------------------------------------------------------------------
(* The main thread: new Register() between two accept().                   *)

\* new Socket().  When it throws, kill() runs before insocket is set: its
\* NullPointerException ends the main thread, with every socket left open.
Connect(at, s, next) ==
    /\ pc["main"] = at
    /\ \/ Connected(s) /\ Goto("main", next)
       \/ Goto("main", "dead") /\ UNCHANGED sockVars
    /\ UNCHANGED <<duplicate, buf, off, pipeVars, stop>>

ConnectProd ==
    Connect("connectProd", "prod", IF duplicate THEN "connectReplica" ELSE "streams")
ConnectReplica == Connect("connectReplica", "replica", "streams")

\* The streams of the sockets, and the pipe.  When one throws now, kill() closes
\* every socket and the main thread goes back to accept().
MakeStreams ==
    /\ pc["main"] = "streams"
    /\ Goto("main", "start") \/ Goto("main", "shut1")
    /\ UNCHANGED <<duplicate, sockVars, buf, off, pipeVars, stop>>

\* Mutants: the client's, or the replica's, connection is not closed.
kill_ServerOnly(p) == Shut(p, "shut1", "prod", "done") /\ UNCHANGED stop
kill_NoReplica(p) ==
    \/ Shut(p, "shut1", "prod", "shut2") /\ stop' = (stop \/ (~duplicate /\ p # "main"))
    \/ Shut(p, "shut2", "client", "done") /\ UNCHANGED stop

\* Register.kill(): ClienttoServer, which only a plain registration has, is
\* told to stop if there is one yet, then the sockets are closed one after the
\* other.
kill(p) ==
    \/ Shut(p, "shut1", "prod", "shut2") /\ stop' = (stop \/ (~duplicate /\ p # "main"))
    \/ Shut(p, "shut2", "client", IF duplicate THEN "shut3" ELSE "done") /\ UNCHANGED stop
    \/ Shut(p, "shut3", "replica", "done") /\ UNCHANGED stop

\* Thread.start(), in the order of the workers' names; then accept() again.
Start(p) ==
    /\ pc["main"] = "start"
    /\ p \in Worker /\ pc[p] = "none"
    /\ p # "T1" => pc[IF p = "T2" THEN "T1" ELSE IF p = "T3" THEN "T2" ELSE "T3"] # "none"
    /\ pc' = [pc EXCEPT ![p] = "recv",
                        !["main"] = IF \A q \in Worker : q = p \/ pc[q] # "none"
                                    THEN "accept" ELSE @]
    /\ UNCHANGED <<duplicate, sockVars, buf, off, pipeVars, stop>>

Register ==
    \/ ConnectProd \/ ConnectReplica \/ MakeStreams \/ \E p \in Worker : Start(p)
    \/ kill("main") /\ UNCHANGED <<duplicate, pipeVars>>

----------------------------------------------------------------------------
(* The workers.                                                            *)

\* in.read() throws: another thread has closed the socket, or a reset came.
ReadFails(p, s) ==
    /\ pc[p] = "recv"
    /\ Broken(s)
    /\ Goto(p, "killed")
    /\ UNCHANGED <<sockVars, buf, off>>

\* in.read(): data, end of file, or an exception; nothing of a closed socket.
Read(p, s) == (~shut[s] /\ Recv(p, s, "send", "shut1")) \/ ReadFails(p, s)

\* The loop sees isRunning reset.  The field is not volatile: it may not, too.
SeesStop(p) ==
    /\ pc[p] = "recv" /\ stop
    /\ Goto(p, "shut1")
    /\ UNCHANGED <<sockVars, buf, off>>

Communicate(p, in, out) ==
    \/ (Read(p, in) \/ Send(p, "send", out, "recv")) /\ UNCHANGED <<pipeVars, stop>>
    \/ p = "T1" /\ SeesStop(p) /\ UNCHANGED <<pipeVars, stop>>
    \/ kill(p) /\ UNCHANGED pipeVars

Ended(p) == pc[p] \in {"done", "killed"}

\* Mutants: nobody waits for room in the stream; what does not fit is dropped.
WritePipe_NoWait(p) ==
    /\ pc[p] = "write"
    /\ pipe' = pipe \o buf[p] /\ wrote' = TRUE
    /\ Goto(p, "recv") /\ Drop(p, "recv")
    /\ UNCHANGED <<sockVars, off, stop>>
WritePipe_Drop(p) ==
    /\ pc[p] = "write"
    /\ pipe' = IF Len(pipe) < PipeCap THEN Append(pipe, Head(buf[p])) ELSE pipe
    /\ wrote' = TRUE
    /\ Goto(p, "recv") /\ Drop(p, "recv")
    /\ UNCHANGED <<sockVars, off, stop>>

\* pos.write(): unit by unit, waiting while the stream is full.  On entry and
\* while it waits it throws if the thread that reads is dead.
WritePipe(p) ==
    /\ pc[p] = "write"
    /\ \/ /\ off[p] = 0 => ~Ended("T3")
          /\ Len(pipe) < PipeCap
          /\ pipe' = Append(pipe, NextUnit(p))
          /\ wrote' = TRUE
          /\ IF LastUnit(p)
             THEN off' = [off EXCEPT ![p] = 0] /\ Goto(p, "recv") /\ Drop(p, "recv")
             ELSE off' = [off EXCEPT ![p] = @ + 1] /\ UNCHANGED <<pc, buf>>
       \/ /\ Ended("T3")
          /\ off[p] = 0 \/ Len(pipe) = PipeCap
          /\ off' = [off EXCEPT ![p] = 0] /\ Goto(p, "killed") /\ Drop(p, "killed")
          /\ UNCHANGED pipeVars
    /\ UNCHANGED <<sockVars, stop>>

\* Mutant: the server's write() is missing.
CommunicateToServerAndPipe_NoServer(p) ==
    \/ /\ (~shut["client"] /\ Recv(p, "client", "write", "shut1")) \/ ReadFails(p, "client")
       /\ UNCHANGED <<pipeVars, stop>>
    \/ WritePipe(p)
    \/ kill(p) /\ UNCHANGED pipeVars

\* Mutant: T1 writes to the replica itself, before it writes to the server.
CommunicateToServerAndPipe_Direct(p) ==
    \/ /\ \/ (~shut["client"] /\ Recv(p, "client", "write", "shut1")) \/ ReadFails(p, "client")
          \/ Send(p, "write", "replica", "send")
          \/ Send(p, "send", "prod", "recv")
       /\ UNCHANGED <<pipeVars, stop>>
    \/ kill(p) /\ UNCHANGED pipeVars

CommunicateToServerAndPipe(p) ==
    \/ (Read(p, "client") \/ Send(p, "send", "prod", "write")) /\ UNCHANGED <<pipeVars, stop>>
    \/ WritePipe(p)
    \/ kill(p) /\ UNCHANGED pipeVars

\* pis.read(): some of what is there.  Nothing closes pos, so there is no end
\* of file, but an exception once the thread that wrote is dead.
ReadPipe(p) ==
    /\ pc[p] = "recv"
    /\ \/ /\ \E k \in 1 .. BufSize :
                /\ k =< Len(pipe)
                /\ buf' = [buf EXCEPT ![p] = SubSeq(pipe, 1, k)]
                /\ pipe' = SubSeq(pipe, k + 1, Len(pipe))
          /\ Goto(p, "send")
       \/ /\ pipe = <<>> /\ wrote /\ Ended("T1")
          /\ Goto(p, "killed")
          /\ UNCHANGED <<buf, pipe>>
    /\ UNCHANGED <<sockVars, off, wrote>>

CommunicatePipeToSock(p) ==
    /\ \/ ReadPipe(p)
       \/ Send(p, "send", "replica", "recv") /\ UNCHANGED pipeVars
    /\ UNCHANGED stop

CommunicateReplicaTo(p) ==
    \/ /\ \/ ~shut["replica"] /\ (Drain(p, "replica") \/ DrainEnd(p, "replica"))
          \/ ReadFails(p, "replica")
       /\ UNCHANGED <<pipeVars, stop>>
    \/ kill(p) /\ UNCHANGED pipeVars

T1 == /\ \/ duplicate /\ CommunicateToServerAndPipe("T1")
         \/ ~duplicate /\ Communicate("T1", "client", "prod")
      /\ UNCHANGED duplicate
\* Mutant: the client gets the replica's replies.
T2_Replica == Communicate("T2", "replica", "client") /\ UNCHANGED duplicate

T2 == Communicate("T2", "prod", "client") /\ UNCHANGED duplicate
T3 == CommunicatePipeToSock("T3") /\ UNCHANGED duplicate
T4 == CommunicateReplicaTo("T4") /\ UNCHANGED duplicate

----------------------------------------------------------------------------
(* The peers.  The JVM does not exit, so only close() ends a socket.       *)

procVars == <<duplicate, pc, buf, off, pipeVars, stop>>

Owes(s) ==
    IF s = "client" THEN sent[s] < MaxSent
    ELSE sent[s] < Reply[s] * Len(got[s]) /\ sent[s] < MaxReply[s]

Reads(s) == PeerRead(s) /\ UNCHANGED procVars
Writes(s) == Owes(s) /\ PeerWrite(s, FALSE) /\ UNCHANGED procVars
Quits(s) ==
    /\ \/ <<s, "half">> \in Leaving /\ PeerHalfClose(s)
       \/ <<s, "closed">> \in Leaving /\ PeerClose(s)
    /\ UNCHANGED procVars
Resets(s) == Reset(s, FALSE) /\ UNCHANGED procVars

Peers == \E s \in Sock : Reads(s) \/ Writes(s) \/ Quits(s) \/ Resets(s)

Next == Register \/ T1 \/ T2 \/ T3 \/ T4 \/ Peers

Spec == Init /\ [][Next]_vars

\* The JVM runs every thread that can go on, the client and the production
\* server read.  Nothing is assumed of the replica.
FairSpec ==
    /\ Spec
    /\ WF_vars(\E p \in Worker : Start(p))
    /\ WF_vars(T1) /\ WF_vars(T2) /\ WF_vars(T3) /\ WF_vars(T4)
    /\ WF_vars(Reads("client")) /\ WF_vars(Reads("prod"))

----------------------------------------------------------------------------
(* Properties.                                                             *)

\* The client reads exactly the production server's replies, in order, with
\* any interleaving of the threads and of the closes of two kill()s.
RepliesInOrder == \A i \in 1 .. Len(got["client"]) : got["client"][i] = Base["prod"] + i

Forwarded == Len(got["prod"]) + Len(outq["prod"])
Copied == Len(got["replica"]) + Len(outq["replica"])

\* While the registration stands the replica is never ahead of production: a
\* unit is in the stream or at the replica only after out.write() to the
\* server took it.
CloneNeverAhead ==
    Writable("prod") =>
        \A u \in Units(got["replica"]) \cup Units(outq["replica"]) \cup Units(pipe) :
            u =< Forwarded

\* The other side of a stream that drops nothing: as long as both servers are
\* connected production gets no further ahead of the replica than the stream and
\* what T1 and T3 have in their hands, so a slow replica holds production back.
StreamBoundsLag ==
    duplicate /\ Writable("prod") /\ Writable("replica") =>
        Forwarded - Copied =< PipeCap + Len(buf["T1"]) + Len(buf["T3"])

\* Seen from the peers the registration is a Mirror that skips nothing:
\* production and the replica read the client's units one after the other.
Promise == INSTANCE Mirror WITH
               sent <- sent["client"], prod <- got["prod"],
               clone <- got["replica"], skipped <- {}
MirrorsTraffic == Promise!Spec

Used == IF duplicate THEN Sock ELSE {"client", "prod"}
PipeFull == pc["T1"] = "write" /\ Len(pipe) = PipeCap

\* End of file from any peer, the replica included, closes all connections:
\* unless a peer resets its own, which ends only the thread that notices, or
\* T1 is stuck in a full stream and cannot read the client's end of file.
EndSpreads ==
    (pc["main"] = "accept" /\ \E s \in Sock : peer[s] = "half")
        ~> (\/ \A t \in Used : shut[t]
            \/ \E t \in Used : peer[t] = "closed"
            \/ []PipeFull)

\* Production depends on the replica in two ways and no other: whatever the
\* client has written by some time, the server has read it all at a later one,
\* unless an end goes away, the replica's too, or the replica stops reading and
\* the stream stays full.
ProductionServed ==
    pc["main"] = "accept"
        ~> (\/ Len(got["prod"]) = sent["client"]
            \/ \E s \in Used : shut[s] \/ peer[s] # "open"
            \/ []PipeFull)

\* Once a kill() has begun every thread ends, those waiting in the stream too;
\* but T3 waits for ever on a stream that T1 has never written to.
ThreadsEnd ==
    (pc["main"] = "accept" /\ shut["prod"])
        ~> \A p \in Worker : Ended(p) \/ (p = "T3" /\ ~wrote)
=============================================================================
