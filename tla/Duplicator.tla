----------------------------- MODULE Duplicator -----------------------------
(***************************************************************************)
(* The network duplicator, modules/proxy/proxyClone/proxy.c: one client    *)
(* connection, from the moment its process enters handle_client().         *)
(*                                                                         *)
(* H is that process.  It connects to the production server and, when      *)
(* duplicating, to the debug clone, makes the pipe of the asynchronous     *)
(* mode and forks T1 .. T4, which share the three sockets and the pipe:    *)
(*   T1  client -> production (and the clone, or the pipe)                 *)
(*   T2  production -> client (waiting for the clone's answer with -s)     *)
(*   T3  pipe -> clone        (with -a)                                    *)
(*   T4  clone -> nowhere     (with -a)                                    *)
(***************************************************************************)
EXTENDS Forwarder, FiniteSets

CONSTANTS
    Modes,           \* the options the proxy may be started with
    PipeCap,         \* units the pipe holds at most, by option -b
    PipeMin,         \* units it holds in any case: pages are wasted on short
                     \* buffers, and that -b took effect is not looked at
    MaxSent,         \* bound: units the client writes
    Reply,           \* units a server writes for each unit it has read
    MaxReply,        \* bound: MaxReply[s], units server s writes in all
    Sequential,      \* the servers that answer a unit before they read the next
    Leaving,         \* <<s, "half">>, <<s, "closed">>: how a peer may close its end
    MaxLeave,        \* bound: peers that do in one behaviour
    MayFail          \* the workers whose fork() may return -1

ASSUME ModesAssumption == Modes \subseteq SUBSET {"-a", "-s"}
ASSUME SizeAssumption ==
    /\ PipeCap \in Nat /\ PipeMin \in 0 .. PipeCap
    /\ MaxSent \in Nat
    /\ Reply \in [{"prod", "dup"} -> Nat]
    /\ MaxReply \in [{"prod", "dup"} -> Nat]
    /\ Sequential \subseteq {"prod", "dup"}
    /\ Leaving \subseteq Sock \X {"half", "closed"} /\ MaxLeave \in Nat
    /\ MayFail \subseteq {"T1", "T2", "T3", "T4"}
ASSUME SockAssumption == Sock = {"client", "prod", "dup"} /\ Base["client"] = 0

VARIABLES
    mode,      \* the options -a and -s, as parse_options() found them
    pipe,      \* pfds: units written by T1 that T3 has yet to read
    dropped    \* units of the buffers T1 reported with "Buffer overflow?"

vars == <<mode, sockVars, pc, buf, off, pipe, dropped>>

Worker == {"T1", "T2", "T3", "T4"}
Proc == Worker \cup {"H"}
Synch == "-s" \in mode
Asynch == "-a" \in mode
Duplicating == Synch \/ Asynch

Step == Over \cup LoopStep
        \cup {"connectProd", "connectDup", "pipe", "fork", "sleep",
              "sendDup", "recvDup", "write", "shut3"}

\* Every process has its own descriptors of the sockets; a socket nobody shut
\* is closed by the kernel when the last process that has it open exits.
Gone == \A p \in Proc : pc[p] \in Over

\* Types, and the capacities nothing may exceed: the sockets', the pipes' and
\* the buffers'.
TypeOK ==
    /\ SockTypeOK
    /\ mode \in Modes
    /\ pc \in [Proc -> Step]
    /\ buf \in [Proc -> Seq(Nat)]
    /\ off \in [Proc -> Nat]
    /\ pipe \in Seq(Nat)
    /\ dropped \in SUBSET Nat
    /\ \A p \in Proc : Len(buf[p]) =< BufSize
    /\ Len(pipe) =< PipeCap

Init ==
    /\ SockInit({"client"})
    /\ mode \in Modes
    /\ pc = [p \in Proc |-> IF p = "H" THEN "connectProd" ELSE "none"]
    /\ buf = [p \in Proc |-> <<>>]
    /\ off = [p \in Proc |-> 0]
    /\ pipe = <<>>
    /\ dropped = {}

----------------------------------------------------------------------------
(* handle_client()                                                         *)

\* create_connection() to the production server; on failure H exits, and the
\* client's connection with it.
ConnectProd ==
    /\ pc["H"] = "connectProd"
    /\ \/ /\ Connected("prod")
          /\ Goto("H", IF Duplicating THEN "connectDup" ELSE "fork")
       \/ Goto("H", "done") /\ UNCHANGED sockVars
    /\ UNCHANGED <<mode, buf, off, pipe, dropped>>

\* create_dup_connection_synch() to the clone; on failure H exits too.  That
\* includes the timeout of a connect() to a clone that does not accept.
ConnectDup ==
    /\ pc["H"] = "connectDup"
    /\ \/ /\ Connected("dup")
          /\ Goto("H", IF Asynch THEN "pipe" ELSE "fork")
       \/ Goto("H", "done") /\ UNCHANGED sockVars
    /\ UNCHANGED <<mode, buf, off, pipe, dropped>>

\* pipe(pfds), exit(1) on failure; setNonblocking(pfds[1]), which a fresh
\* descriptor does not refuse; setBufferSize(), whose failure is only printed
\* and leaves the pipe smaller (PipeMin).
MakePipe ==
    /\ pc["H"] = "pipe"
    /\ Goto("H", "fork") \/ Goto("H", "done")
    /\ UNCHANGED <<mode, sockVars, buf, off, pipe, dropped>>

\* The first step of each worker.
Entry(p) == IF p = "T3" THEN "sleep" ELSE "recv"

\* fork() of p; -1 is not looked at, and H goes on without p.  After the last
\* fork H closes its sockets and exits.
Forks(p, last) ==
    /\ pc["H"] = "fork"
    /\ pc[p] = "none"
    /\ \E step \in {Entry(p)} \cup (IF p \in MayFail THEN {"done"} ELSE {}) :
          pc' = [pc EXCEPT ![p] = step, !["H"] = IF last THEN "done" ELSE @]
    /\ UNCHANGED <<mode, sockVars, buf, off, pipe, dropped>>

ForkT1 == Forks("T1", FALSE)
ForkT2 == pc["T1"] # "none" /\ Forks("T2", ~Asynch)
ForkT3 == Asynch /\ pc["T2"] # "none" /\ Forks("T3", FALSE)
ForkT4 == pc["T3"] # "none" /\ Forks("T4", TRUE)

handle_client ==
    ConnectProd \/ ConnectDup \/ MakePipe \/ ForkT1 \/ ForkT2 \/ ForkT3 \/ ForkT4

----------------------------------------------------------------------------
(* The workers.                                                            *)

pipeVars == <<pipe, dropped>>

\* The end of the synchronous loops: three sockets, one after the other.
Shut3(p, s1, s2, s3) ==
    \/ Shut(p, "shut1", s1, "shut2")
    \/ Shut(p, "shut2", s2, "shut3")
    \/ Shut(p, "shut3", s3, "done")

\* Mutant: the second send(), to the clone, is missing.
forward_data_synch_OneSend(p) ==
    /\ \/ Recv(p, "client", "send", "shut1")
       \/ Send(p, "send", "prod", "recv")
       \/ Shut3(p, "prod", "dup", "client")
    /\ UNCHANGED pipeVars

forward_data_synch(p) ==
    /\ \/ Recv(p, "client", "send", "shut1")
       \/ Send(p, "send", "prod", "sendDup")
       \/ Send(p, "sendDup", "dup", "recv")
       \/ Shut3(p, "prod", "dup", "client")
    /\ UNCHANGED pipeVars

\* recv(dup, n): at most as much as production sent is read and thrown away.
RecvDup(p) ==
    /\ pc[p] = "recvDup"
    /\ \/ \E k \in 1 .. Len(buf[p]) :
             k =< Len(inq["dup"]) /\ Receive("dup", k)
       \/ AtEnd("dup") /\ UNCHANGED sockVars
    /\ Goto(p, "recv")
    /\ Drop(p, "recv")
    /\ UNCHANGED off

\* Mutant: the clone's answer goes to the client.
receive_data_synch_Swap(p) ==
    /\ \/ Recv(p, "dup", "send", "shut1")
       \/ Send(p, "send", "client", "recv")
       \/ Shut3(p, "client", "dup", "prod")
    /\ UNCHANGED pipeVars

receive_data_synch(p) ==
    /\ \/ Recv(p, "prod", "send", "shut1")
       \/ Send(p, "send", "client", "recvDup")
       \/ RecvDup(p)
       \/ Shut3(p, "client", "dup", "prod")
    /\ UNCHANGED pipeVars

\* Mutant: one unit more than the pipe holds.
Fits_OneMore(p) == Len(pipe) + Len(buf[p]) =< PipeCap + 1

\* The non-blocking pipe may have room for the whole buffer.
Fits(p) == Len(pipe) + Len(buf[p]) =< PipeCap

\* Mutant: one unit less.
Overflows_OneLess(p) == Len(pipe) + Len(buf[p]) >= PipeMin

\* It may have none.
Overflows(p) == Len(pipe) + Len(buf[p]) > PipeMin

\* Mutant: a nearly full pipe takes the first unit and the rest is lost unseen.
WritePipe_Short(p, next) ==
    /\ pc[p] = "write"
    /\ IF Len(pipe) < PipeCap
       THEN pipe' = Append(pipe, Head(buf[p])) /\ UNCHANGED dropped
       ELSE dropped' = dropped \cup Units(buf[p]) /\ UNCHANGED pipe
    /\ Goto(p, next) /\ Drop(p, next)
    /\ UNCHANGED <<sockVars, off>>

\* Mutant: the pipe blocks, as it does without setNonblocking().
WritePipe_Blocks(p, next) ==
    /\ pc[p] = "write"
    /\ Fits(p) /\ pipe' = pipe \o buf[p]
    /\ Goto(p, next) /\ Drop(p, next)
    /\ UNCHANGED <<sockVars, off, dropped>>

\* write(pfds[1]): the pipe does not block and takes the whole buffer (which
\* is shorter than PIPE_BUF) or nothing.  A full pipe is reported and the
\* buffer is dropped.  T1 itself has pfds[0] open, so there is no SIGPIPE.
WritePipe(p, next) ==
    /\ pc[p] = "write"
    /\ \/ Fits(p) /\ pipe' = pipe \o buf[p] /\ UNCHANGED dropped
       \/ Overflows(p) /\ dropped' = dropped \cup Units(buf[p]) /\ UNCHANGED pipe
    /\ Goto(p, next)
    /\ Drop(p, next)
    /\ UNCHANGED <<sockVars, off>>

\* Mutant: the pipe is written before production.
forward_data_asynch_PipeFirst(p) ==
    \/ WritePipe(p, "send")
    \/ /\ \/ Recv(p, "client", "write", "shut1")
          \/ Send(p, "send", "prod", "recv")
          \/ Shut2(p, "prod", "client")
       /\ UNCHANGED pipeVars

\* Mutant: the production socket is closed but not shut.
forward_data_asynch_NoShut(p) ==
    \/ WritePipe(p, "recv")
    \/ /\ \/ Recv(p, "client", "send", "shut2")
          \/ Send(p, "send", "prod", "write")
          \/ Shut(p, "shut2", "client", "done")
       /\ UNCHANGED pipeVars

forward_data_asynch(p) ==
    \/ WritePipe(p, "recv")
    \/ /\ \/ Recv(p, "client", "send", "shut1")
          \/ Send(p, "send", "prod", "write")
          \/ Shut2(p, "prod", "client")
       /\ UNCHANGED pipeVars

\* Mutant: the last unit read stays in the pipe.
ReadPipe_Twice(p) ==
    /\ pc[p] = "recv"
    /\ \E k \in 1 .. BufSize :
          /\ k =< Len(pipe)
          /\ buf' = [buf EXCEPT ![p] = SubSeq(pipe, 1, k)]
          /\ pipe' = SubSeq(pipe, k, Len(pipe))
    /\ Goto(p, "send")
    /\ UNCHANGED <<sockVars, off, dropped>>

\* read(pfds[0]): T3 has inherited pfds[1], so the pipe never reads end of
\* file and the loop has no way out.
ReadPipe(p) ==
    /\ pc[p] = "recv"
    /\ \E k \in 1 .. BufSize :
          /\ k =< Len(pipe)
          /\ buf' = [buf EXCEPT ![p] = SubSeq(pipe, 1, k)]
          /\ pipe' = SubSeq(pipe, k + 1, Len(pipe))
    /\ Goto(p, "send")
    /\ UNCHANGED <<sockVars, off, dropped>>

forward_data_pipe(p) ==
    \/ /\ pc[p] = "sleep"
       /\ Goto(p, "recv")
       /\ UNCHANGED <<sockVars, buf, off, pipeVars>>
    \/ ReadPipe(p)
    \/ Send(p, "send", "dup", "recv") /\ UNCHANGED pipeVars

\* Mutant: the clone's answers are left unread.
receive_data_asynch_NoDrain(p) ==
    /\ DrainEnd(p, "dup") \/ Shut(p, "shut1", "dup", "done")
    /\ UNCHANGED pipeVars

receive_data_asynch(p) ==
    /\ Drain(p, "dup") \/ DrainEnd(p, "dup") \/ Shut(p, "shut1", "dup", "done")
    /\ UNCHANGED pipeVars

\* Which loop each worker runs.  With both options T1 also enters
\* forward_data_asynch, with closed descriptors, and leaves it at once.
T1 == /\ \/ ~Duplicating /\ forward_data("T1", "client", "prod") /\ UNCHANGED pipeVars
         \/ Synch /\ forward_data_synch("T1")
         \/ Asynch /\ ~Synch /\ forward_data_asynch("T1")
      /\ UNCHANGED mode
T2 == /\ \/ ~Synch /\ forward_data("T2", "prod", "client") /\ UNCHANGED pipeVars
         \/ Synch /\ receive_data_synch("T2")
      /\ UNCHANGED mode
T3 == forward_data_pipe("T3") /\ UNCHANGED mode
T4 == receive_data_asynch("T4") /\ UNCHANGED mode

----------------------------------------------------------------------------
(* The peers.                                                              *)

ClientWrite == sent["client"] < MaxSent /\ PeerWrite("client", Gone)

\* The production server and the clone answer what they have read.
Owes(s) == /\ peer[s] = "open" /\ ~shut[s] /\ ~Gone
           /\ sent[s] < Reply[s] * Len(got[s])
           /\ sent[s] < MaxReply[s]
ServerWrite(s) == Owes(s) /\ PeerWrite(s, Gone)

procVars == <<mode, pc, buf, off, pipe, dropped>>

Reads(s) ==
    (s \in Sequential => ~Owes(s)) /\ PeerRead(s) /\ UNCHANGED procVars
Writes(s) ==
    /\ IF s = "client" THEN ClientWrite ELSE ServerWrite(s)
    /\ UNCHANGED procVars
Leavers == {s \in Sock : peer[s] \in {"half", "closed"}}
Quits(s) ==
    /\ Cardinality(Leavers \cup {s}) =< MaxLeave
    /\ \/ <<s, "half">> \in Leaving /\ PeerHalfClose(s)
       \/ <<s, "closed">> \in Leaving /\ PeerClose(s)
    /\ UNCHANGED procVars
Resets(s) == Reset(s, Gone) /\ UNCHANGED procVars

Peers == \E s \in Sock : Reads(s) \/ Writes(s) \/ Quits(s) \/ Resets(s)

Next == handle_client \/ T1 \/ T2 \/ T3 \/ T4 \/ Peers

Spec == Init /\ [][Next]_vars

----------------------------------------------------------------------------
(* Fairness.                                                               *)

\* The operating system runs every process that is not blocked.  Connecting
\* to a server is a step of that server as well.
ProxyFairness ==
    /\ WF_vars(ConnectProd) /\ WF_vars(MakePipe)
    /\ WF_vars(ForkT1 \/ ForkT2 \/ ForkT3 \/ ForkT4)
    /\ WF_vars(T1) /\ WF_vars(T2) /\ WF_vars(T3) /\ WF_vars(T4)

\* The client reads its replies and the production server its requests.
ProductionFairness == WF_vars(Reads("client")) /\ WF_vars(Reads("prod"))

\* The clone accepts, reads what comes and answers it in full.
CloneFairness ==
    WF_vars(ConnectDup) /\ WF_vars(Reads("dup")) /\ WF_vars(Writes("dup"))

\* Nothing is assumed of the clone.
FairSpec == Spec /\ ProxyFairness /\ ProductionFairness

FairCloneSpec == FairSpec /\ CloneFairness

----------------------------------------------------------------------------
(* Safety.                                                                 *)

\* What T1 has handed to the production server.
Forwarded == Len(got["prod"]) + Len(outq["prod"])

\* The proxy still serves the connection and its peer reads.
Stands(s) == Writable(s) /\ ~Gone

Increasing(q) == \A i, j \in 1 .. Len(q) : i < j => q[i] < q[j]

\* The production server reads exactly the client's stream, from its start
\* and without a gap, whatever the clone, T2 and the resets do (forward_data,
\* forward_data_synch, forward_data_asynch).
ProductionInOrder == \A i \in 1 .. Len(got["prod"]) : got["prod"][i] = i

\* The client reads exactly the production server's replies, in order: no
\* reply is lost, and none of the clone's takes its place.
RepliesInOrder == \A i \in 1 .. Len(got["client"]) : got["client"][i] = Base["prod"] + i

\* The clone reads the client's units in order, and misses none but those of
\* the buffers whose overflow T1 has reported: neither the pipe, nor T3's
\* partial reads of it, nor a teardown makes another gap.
CloneFaithful ==
    LET q == got["dup"] IN
    /\ Increasing(q)
    /\ \A i \in 1 .. Len(q) :
          /\ q[i] \notin dropped
          /\ \A u \in 1 .. q[i] : u \in dropped \/ \E j \in 1 .. i : q[j] = u

\* While production is connected the clone is never ahead of it: a unit is in
\* the pipe or at the clone only after send() took it for production.
CloneNeverAhead ==
    Stands("prod") =>
        \A u \in Units(got["dup"]) \cup Units(outq["dup"]) \cup Units(pipe) :
            u =< Forwarded

LastRead == IF got["dup"] = <<>> THEN 0 ELSE got["dup"][Len(got["dup"])]

\* paper/window.tex: the debug window.  While the clone is connected and T3 runs, a
\* buffer is given up only when the clone has more than PipeMin units to read, up to
\* the last one of that buffer: as long as it is no further behind, it misses nothing.
WindowHolds ==
    [][(Stands("dup") /\ pc["T3"] # "killed" /\ dropped' # dropped) =>
          \E u \in dropped' : u > LastRead + PipeMin]_vars

\* With -s the clone is never more than one buffer behind production while
\* all three connections stand.
SynchLag ==
    (Synch /\ Stands("prod") /\ Stands("dup")) =>
        Forwarded - (Len(got["dup"]) + Len(outq["dup"])) =< BufSize

\* T1 waits for the clone to read, the clone for T2 to read its answer, T2 for
\* production to answer, and production for T1 to send the next request.
CircularWait ==
    /\ pc["T1"] = "sendDup" /\ Len(outq["dup"]) = SockCap
    /\ "dup" \in Sequential /\ Owes("dup") /\ Len(inq["dup"]) = SockCap
    /\ pc["T2"] = "recv" /\ inq["prod"] = <<>>
    /\ outq["prod"] = <<>> /\ ~Owes("prod")
    /\ \A s \in Sock : peer[s] = "open" /\ ~shut[s]

\* paper/proxyDup.tex:18: the clone's traffic is dropped while the client's
\* connection stays active, so its answers cannot stop the connection.
NoCircularWait == ~CircularWait

\* Seen from the three peers, the connection is a Mirror: clone reads go on in
\* the order and with the gaps that module allows, step by step.
Promise == INSTANCE Mirror WITH
               sent <- sent["client"], prod <- got["prod"],
               clone <- got["dup"], skipped <- dropped
MirrorsTraffic == Promise!Spec

----------------------------------------------------------------------------
(* Liveness.                                                               *)

\* A connection that has ended, or whose peer is gone.
Ended(s) == shut[s] \/ Gone \/ peer[s] = "closed"

\* The peer stopped writing or left, or the proxy ended its connection.
Left(s) == Ended(s) \/ peer[s] = "half"

Delivered(n) == Len(got["prod"]) >= n

\* paper/proxyDup.tex:81: with -a, a clone that does not read, answer, or stay
\* up does not hold up production.  Once the workers run, whatever the client
\* has written by some time, the production server has read it all at a later
\* one, or that connection ends.
ProductionUndisturbed ==
    pc["T1"] # "none" ~> (Len(got["prod"]) = sent["client"] \/ Ended("prod"))

\* Once the workers run, when one end of the production connection goes away
\* the other is told, even if a worker was killed by SIGPIPE on the way.
TearDownTogether ==
    /\ (pc["H"] = "done" /\ peer["client"] = "closed") ~> Ended("prod")
    /\ (pc["H"] = "done" /\ peer["prod"] = "closed") ~> Ended("client")

\* paper/proxyDup.tex:81 again, from the moment the client is accepted and
\* before the workers run: a client and a production server that stay up are
\* not held up by the clone.
AcceptedIsServed ==
    \A n \in 1 .. MaxSent :
        sent["client"] >= n ~> (Delivered(n) \/ Left("client") \/ Left("prod"))

\* README.md:18: what runs in the clone, its crash included, does not disturb
\* the production server and its client.
CloneCrashIsSafe ==
    \A n \in 1 .. MaxSent :
        (pc["T1"] # "none" /\ sent["client"] >= n)
            ~> (Delivered(n) \/ Left("client") \/ Left("prod"))

\* The clone can read, or can write an answer it owes.
CloneToMove ==
    \/ outq["dup"] # <<>> /\ ("dup" \in Sequential => ~Owes("dup"))
    \/ Owes("dup") /\ Len(inq["dup"]) < SockCap

\* The proxy is never what keeps data from the clone: the pipe and the socket
\* are not empty for ever only if the clone could go on and does not.  T3 must
\* keep sending, and T4 must keep taking the clone's answers.
CloneNotBlocked ==
    []<>(\/ pipe = <<>> /\ outq["dup"] = <<>>
         \/ Ended("dup")
         \/ CloneToMove)

\* paper/window.tex:18: until the buffer overflows the clone faithfully
\* represents production, so it too sees its client go.
CloneSeesClose ==
    PeerAtEnd("prod", Gone) ~> (PeerAtEnd("dup", Gone) \/ peer["dup"] # "open"
                                  \/ dropped # {})
=============================================================================
