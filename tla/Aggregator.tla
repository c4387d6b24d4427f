----------------------------- MODULE Aggregator -----------------------------
(***************************************************************************)
(* The network aggregator, modules/proxy/proxyAgg: between a container and *)
(* the servers behind it.  What the production container sends goes to the *)
(* backend, and the replies go back to it and into a pipe; what the clone  *)
(* sends is thrown away, and it is answered from the pipe.                 *)
(*                                                                         *)
(* Every accepted connection x has a handler <<x, "H">>, which takes the   *)
(* next index of its kind from shared memory; the n-th production and the  *)
(* n-th clone connection are meant to get the same pipe.  Its workers are  *)
(*   W1  production -> backend           R1  clone -> nowhere              *)
(*   W2  backend -> production and pipe  R2  pipe -> clone                 *)
(*   R3  what R1 becomes when its loop ends: it falls into the second fork *)
(*       and reads the same pipe, with the clone's socket closed.          *)
(* (W1 falls into a second fork too; its child finds both of its sockets   *)
(* closed and exits.)                                                      *)
(***************************************************************************)
EXTENDS Forwarder, FiniteSets

CONSTANTS
    Prod,        \* the connections of the production container
    Clone,       \* the connections of the clone
    Backend,     \* Backend[a]: the aggregator's connection to the backend for a
    NumConns,    \* NUM_CONNS: how many pipes there are
    Served,      \* how many connections of each kind may have come and gone before
    PipeCap,     \* units a pipe holds at most
    PipeMin,     \* units it holds in any case: pages are wasted on short buffers
    MaxSent,     \* bound: MaxSent[s], units the peer of s writes
    Leaving,     \* <<s, "half">>, <<s, "closed">>: how a peer may close its end
    Mortal,      \* connections whose handler may be killed or get SIGTERM
    MayFail      \* connections for which a fork() may return -1

Conn == Prod \cup Clone

ASSUME ConnAssumption ==
    /\ IsFiniteSet(Conn)
    /\ Prod \cap Clone = {}
    /\ Backend \in [Prod -> Sock \ Conn]
    /\ \A a, b \in Prod : Backend[a] = Backend[b] => a = b
    /\ Sock = Conn \cup {Backend[a] : a \in Prod}
ASSUME QueueAssumption ==
    /\ NumConns \in Nat /\ Served \subseteq Nat /\ PipeCap \in Nat /\ PipeMin \in 0 .. PipeCap
    /\ MaxSent \in [Sock -> Nat]
    /\ Leaving \subseteq Sock \X {"half", "closed"}
    /\ Mortal \subseteq Conn /\ MayFail \subseteq Conn

\* As everywhere, the units of the replies can be told from each other.
ASSUME UnitsAssumption ==
    \A a, b \in Prod : \A n \in 1 .. MaxSent[Backend[a]], m \in 1 .. MaxSent[Backend[b]] :
        a # b => Base[Backend[a]] + n # Base[Backend[b]] + m

VARIABLES
    shm,        \* the two counters in shared memory
    mutex,      \* the connections whose handler holds the semaphore
    idx,        \* idx[x]: the handler's c or c2, the index of its pipe
    val,        \* val[x]: the counter as increment_shm_counter() loaded it
    pipes,      \* pipes_arr
    dropped     \* units reported with "Buffer Overflow"

aggVars == <<shm, mutex, idx, val>>
pipeVars == <<pipes, dropped>>
vars == <<sockVars, pc, buf, off, aggVars, pipeVars>>

Handler(x) == <<x, "H">>
Proc == (Conn \X {"H"}) \cup (Prod \X {"W1", "W2"}) \cup (Clone \X {"R1", "R2", "R3"})
Step == Over \cup LoopStep
        \cup {"connect", "get", "check", "lock", "load", "store", "unlock",
              "fork1", "fork2", "write", "fork"}

Index == 0 .. NumConns - 1
Kind(x) == IF x \in Prod THEN "prod" ELSE "clone"

\* The connection a socket belongs to, and its end in every process.  R3 is
\* forked from a process that has closed its socket.
Owner(s) == IF s \in Conn THEN s ELSE CHOOSE a \in Prod : Backend[a] = s
Gone(s) == \A p \in Proc : p[1] = Owner(s) /\ p[2] # "R3" => pc[p] \in Over

\* Types, and the capacities of sockets and pipes.  Nothing bounds the counters: past
\* NUM_CONNS connections of a kind an index is not that of a pipe.
TypeOK ==
    /\ SockTypeOK
    /\ pc \in [Proc -> Step]
    /\ buf \in [Proc -> Seq(Nat)]
    /\ off \in [Proc -> Nat]
    /\ shm \in [{"prod", "clone"} -> Nat]
    /\ mutex \in SUBSET Conn
    /\ idx \in [Conn -> Nat]
    /\ val \in [Conn -> Nat]
    /\ pipes \in [Index -> Seq(Nat)]
    /\ dropped \in SUBSET Nat
    /\ \A i \in Index : Len(pipes[i]) =< PipeCap

Init ==
    /\ SockInit({})
    /\ pc = [p \in Proc |-> "none"]
    /\ buf = [p \in Proc |-> <<>>]
    /\ off = [p \in Proc |-> 0]
    /\ \E n \in Served : shm = [k \in {"prod", "clone"} |-> n]
    /\ mutex = {}
    /\ idx = [x \in Conn |-> NumConns]
    /\ val = [x \in Conn |-> 0]
    /\ pipes = [i \in Index |-> <<>>]
    /\ dropped = {}

----------------------------------------------------------------------------
(* The handlers.                                                           *)

\* accept(), fork(), and handle_client() tells the two kinds apart by address.
Accept(x) ==
    /\ pc[Handler(x)] = "none"
    /\ Connected(x)
    /\ Goto(Handler(x), IF x \in Prod THEN "connect" ELSE "get")
    /\ UNCHANGED <<buf, off, aggVars, pipeVars>>

\* create_connection() to the backend, which may fail.
CreateConnection(x) ==
    /\ pc[Handler(x)] = "connect"
    /\ \/ Connected(Backend[x]) /\ Goto(Handler(x), "get")
       \/ Goto(Handler(x), "killed") /\ UNCHANGED sockVars
    /\ UNCHANGED <<buf, off, aggVars, pipeVars>>

\* A step of the handler that touches neither sockets nor pipes.
Inner(x, at, next) ==
    /\ pc[Handler(x)] = at
    /\ Goto(Handler(x), next)
    /\ UNCHANGED <<sockVars, buf, off, pipeVars>>

\* get_shm_counter() or get_shm_counter2(): read without the semaphore.
GetCounter(x) ==
    /\ Inner(x, "get", IF x \in Prod THEN "lock" ELSE "check")
    /\ idx' = [idx EXCEPT ![x] = shm[Kind(x)]]
    /\ UNCHANGED <<shm, mutex, val>>

\* Mutant: the clone may be one connection ahead.
CheckOrder_Ahead(x) ==
    /\ Inner(x, "check", IF idx[x] > shm["prod"] THEN "killed" ELSE "lock")
    /\ UNCHANGED aggVars

\* "Error in connection order": the clone's connection is not kept.
CheckOrder(x) ==
    /\ Inner(x, "check", IF idx[x] >= shm["prod"] THEN "killed" ELSE "lock")
    /\ UNCHANGED aggVars

\* Mutant: p() does not wait.
Lock_Barges(x) ==
    /\ Inner(x, "lock", "load")
    /\ mutex' = mutex \cup {x}
    /\ UNCHANGED <<shm, idx, val>>

\* p(mutex), int val = *shmptr, *shmptr = ++val, v(mutex).
Lock(x) ==
    /\ mutex = {}
    /\ Inner(x, "lock", "load")
    /\ mutex' = {x}
    /\ UNCHANGED <<shm, idx, val>>
Load(x) ==
    /\ Inner(x, "load", "store")
    /\ val' = [val EXCEPT ![x] = shm[Kind(x)]]
    /\ UNCHANGED <<shm, mutex, idx>>
Store(x) ==
    /\ Inner(x, "store", "unlock")
    /\ shm' = [shm EXCEPT ![Kind(x)] = val[x] + 1]
    /\ UNCHANGED <<mutex, idx, val>>
Unlock(x) ==
    /\ Inner(x, "unlock", "fork1")
    /\ mutex' = mutex \ {x}
    /\ UNCHANGED <<shm, idx, val>>

\* fork() of the two workers; -1 is not looked at, and the handler goes on without
\* the worker.  After the second it exits.
Fork(x, at, role, next) ==
    /\ pc[Handler(x)] = at
    /\ \/ pc' = [pc EXCEPT ![<<x, role>>] = "recv", ![Handler(x)] = next]
       \/ x \in MayFail /\ Goto(Handler(x), next)
    /\ UNCHANGED <<sockVars, buf, off, aggVars, pipeVars>>
ForkFirst(x) == Fork(x, "fork1", IF x \in Prod THEN "W1" ELSE "R1", "fork2")
ForkSecond(x) == Fork(x, "fork2", IF x \in Prod THEN "W2" ELSE "R2", "done")

\* Mutant: without SEM_UNDO the semaphore dies with its holder.
Terminated_NoUndo(x) ==
    /\ x \in Mortal
    /\ pc[Handler(x)] \notin Over
    /\ Goto(Handler(x), "killed")
    /\ UNCHANGED <<sockVars, buf, off, aggVars, pipeVars>>

\* sigterm_handler() exits, as SIGKILL does; SEM_UNDO gives the semaphore back.
Terminated(x) ==
    /\ x \in Mortal
    /\ pc[Handler(x)] \notin Over
    /\ Goto(Handler(x), "killed")
    /\ mutex' = mutex \ {x}
    /\ UNCHANGED <<sockVars, buf, off, shm, idx, val, pipeVars>>

increment_shm_counter(x) == Lock(x) \/ Load(x) \/ Store(x) \/ Unlock(x)
handle_client(x) ==
    \/ CreateConnection(x) \/ CheckOrder(x) \/ GetCounter(x)
    \/ increment_shm_counter(x) \/ ForkFirst(x) \/ ForkSecond(x)

----------------------------------------------------------------------------
(* The workers.                                                            *)

\* Mutant: one unit more than the pipe holds.
Fits_OneMore(p, i) == Len(pipes[i]) + Len(buf[p]) =< PipeCap + 1

\* The pipe may have room for the whole buffer, or none for it.
Fits(p, i) == Len(pipes[i]) + Len(buf[p]) =< PipeCap
Overflows(p, i) == Len(pipes[i]) + Len(buf[p]) > PipeMin

\* Mutant: the pipes are left blocking.
WritePipe_Blocks(p, i, next) ==
    /\ pc[p] = "write"
    /\ Fits(p, i)
    /\ pipes' = [pipes EXCEPT ![i] = @ \o buf[p]]
    /\ Goto(p, next) /\ Drop(p, next)
    /\ UNCHANGED <<sockVars, off, dropped>>

\* write(pipe) takes the whole buffer or, when there is no room, nothing.
Put(p, i) ==
    Fits(p, i) /\ pipes' = [pipes EXCEPT ![i] = @ \o buf[p]] /\ UNCHANGED dropped
Refuse(p, i) ==
    Overflows(p, i) /\ dropped' = dropped \cup Units(buf[p]) /\ UNCHANGED pipes
WritePipe(p, i, next) ==
    /\ pc[p] = "write"
    /\ Put(p, i) \/ Refuse(p, i)
    /\ Goto(p, next)
    /\ Drop(p, next)
    /\ UNCHANGED <<sockVars, off>>

\* pipes_arr[c] past its end is some other int of the program: with gcc -fcommon the
\* option flags, the halves of the host pointers and the port numbers.  They are taken to
\* be the descriptor of no pipe and of no connection: write() fails and is reported,
\* or its data goes where nobody looks for it (0 and 1, the flags, are the terminal).
WriteAstray(p, next) ==
    /\ pc[p] = "write"
    /\ dropped' \in {dropped, dropped \cup Units(buf[p])}
    /\ Goto(p, next)
    /\ Drop(p, next)
    /\ UNCHANGED <<sockVars, off, pipes>>

\* Mutant: the replies go into the pipe first.
forward_data_to_dest_and_pipe_PipeFirst(p, src, dst, i) ==
    \/ i \in Index /\ WritePipe(p, i, "send")
    \/ i \notin Index /\ WriteAstray(p, "send")
    \/ /\ \/ Recv(p, src, "write", "shut1")
          \/ Send(p, "send", dst, "recv")
          \/ Shut2(p, dst, src)
       /\ UNCHANGED pipeVars

forward_data_to_dest_and_pipe(p, src, dst, i) ==
    \/ i \in Index /\ WritePipe(p, i, "recv")
    \/ i \notin Index /\ WriteAstray(p, "recv")
    \/ /\ \/ Recv(p, src, "send", "shut1")
          \/ Send(p, "send", dst, "write")
          \/ Shut2(p, dst, src)
       /\ UNCHANGED pipeVars

\* The clone's data is dropped; then R1 falls into the second fork().
read_data_and_drop(p, x) ==
    /\ \/ Drain(p, x) \/ DrainEnd(p, x) \/ Shut(p, "shut1", x, "fork")
       \/ /\ pc[p] = "fork"
          /\ \/ pc' = [pc EXCEPT ![p] = "done", ![<<x, "R3">>] = "recv"]
             \/ x \in MayFail /\ Goto(p, "done")
          /\ UNCHANGED <<sockVars, buf, off>>
    /\ UNCHANGED pipeVars

\* Mutant: the last unit read stays in the pipe.
ReadPipe_Twice(p, i) ==
    /\ pc[p] = "recv"
    /\ \E k \in 1 .. BufSize :
          /\ k =< Len(pipes[i])
          /\ buf' = [buf EXCEPT ![p] = SubSeq(pipes[i], 1, k)]
          /\ pipes' = [pipes EXCEPT ![i] = SubSeq(@, k, Len(@))]
    /\ Goto(p, "send")
    /\ UNCHANGED <<sockVars, off, dropped>>

\* read(pipe): every process of the aggregator has the writing ends of all the
\* pipes, so there is no end of file.
ReadPipe(p, i) ==
    /\ pc[p] = "recv"
    /\ \E k \in 1 .. BufSize :
          /\ k =< Len(pipes[i])
          /\ buf' = [buf EXCEPT ![p] = SubSeq(pipes[i], 1, k)]
          /\ pipes' = [pipes EXCEPT ![i] = SubSeq(@, k + 1, Len(@))]
    /\ Goto(p, "send")
    /\ UNCHANGED <<sockVars, off, dropped>>

\* Past the end of pipes_arr read() waits for ever or fails, which ends the loop.
ReadAstray(p, next) ==
    /\ pc[p] = "recv"
    /\ Goto(p, next)
    /\ UNCHANGED <<sockVars, buf, off, pipeVars>>

read_pipe_dest(p, x, i) ==
    \/ i \in Index /\ ReadPipe(p, i)
    \/ i \notin Index /\ ReadAstray(p, "shut1")
    \/ /\ Send(p, "send", x, "recv") \/ Shut(p, "shut1", x, "done")
       /\ UNCHANGED pipeVars

\* send() on a closed descriptor fails, so that the data is lost.
read_pipe_nowhere(p, i) ==
    \/ i \in Index /\ ReadPipe(p, i)
    \/ i \notin Index /\ ReadAstray(p, "done")
    \/ /\ pc[p] = "send"
       /\ Goto(p, "recv")
       /\ Drop(p, "recv")
       /\ UNCHANGED <<sockVars, off, pipeVars>>

W1(x) == forward_data(<<x, "W1">>, x, Backend[x]) /\ UNCHANGED <<aggVars, pipeVars>>
W2(x) == /\ forward_data_to_dest_and_pipe(<<x, "W2">>, Backend[x], x, idx[x])
         /\ UNCHANGED aggVars
R1(x) == read_data_and_drop(<<x, "R1">>, x) /\ UNCHANGED aggVars
R2(x) == read_pipe_dest(<<x, "R2">>, x, idx[x]) /\ UNCHANGED aggVars
R3(x) == read_pipe_nowhere(<<x, "R3">>, idx[x]) /\ UNCHANGED aggVars

----------------------------------------------------------------------------
(* The peers: the two containers and the backend.                          *)

procVars == <<pc, buf, off, aggVars, pipeVars>>

Reads(s) == PeerRead(s) /\ UNCHANGED procVars
Writes(s) == sent[s] < MaxSent[s] /\ PeerWrite(s, Gone(s)) /\ UNCHANGED procVars
Quits(s) ==
    /\ \/ <<s, "half">> \in Leaving /\ PeerHalfClose(s)
       \/ <<s, "closed">> \in Leaving /\ PeerClose(s)
    /\ UNCHANGED procVars
Resets(s) == Reset(s, Gone(s)) /\ UNCHANGED procVars

Next ==
    \/ \E x \in Conn : Accept(x) \/ handle_client(x) \/ Terminated(x)
    \/ \E x \in Prod : W1(x) \/ W2(x)
    \/ \E x \in Clone : R1(x) \/ R2(x) \/ R3(x)
    \/ \E s \in Sock : Reads(s) \/ Writes(s) \/ Quits(s) \/ Resets(s)

Spec == Init /\ [][Next]_vars

\* Every process that is not blocked runs.  The production container and its
\* backend read; nothing is assumed of the clone.
FairSpec ==
    /\ Spec
    /\ \A x \in Conn : WF_vars(handle_client(x))
    /\ \A x \in Prod : WF_vars(W1(x)) /\ WF_vars(W2(x))
    /\ \A x \in Clone : WF_vars(R1(x)) /\ WF_vars(R2(x)) /\ WF_vars(R3(x))
    /\ \A s \in Sock \ Clone : WF_vars(Reads(s))

----------------------------------------------------------------------------
(* Safety.                                                                 *)

\* What the connections that use pipe i are.  A connection of the clone whose
\* handler dies between its two forks has no R2 and reads with its R3 all the same.
Writers(i) == {a \in Prod : pc[<<a, "W2">>] # "none" /\ idx[a] = i}
Readers(i) == {y \in Clone : idx[y] = i /\ (\/ pc[<<y, "R2">>] # "none"
                                            \/ pc[<<y, "R3">>] # "none")}

\* Reply n of the backend to a, as a unit.
ReplyUnit(a, n) == Base[Backend[a]] + n

\* The handlers that have stored the counter: none of their increments is lost,
\* whichever handlers run at once and are killed (p, v and SEM_UNDO).
Counted(k) == {x \in Conn : Kind(x) = k
                            /\ pc[Handler(x)] \in {"unlock", "fork1", "fork2", "done"}}
NoLostIncrement == \A k \in {"prod", "clone"} : Cardinality(Counted(k)) =< shm[k]

\* A clone connection is let in only with the index of a production connection
\* that has been counted (the check in handle_clone_client against a counter
\* that moves meanwhile).
CloneFollows ==
    \A y \in Clone :
        pc[Handler(y)] \in {"lock", "load", "store", "unlock", "fork1", "fork2", "done"}
            => idx[y] < shm["prod"]

\* The production container and its backend read exactly each other's data, in
\* order, nothing left out and nothing repeated, whatever short counts send() returns,
\* whoever is killed or shuts down between two steps, and without a pipe as well.
ProductionExact ==
    \A a \in Prod :
        /\ \A i \in 1 .. Len(got[Backend[a]]) : got[Backend[a]][i] = Base[a] + i
        /\ \A i \in 1 .. Len(got[a]) : got[a][i] = ReplyUnit(a, i)

\* A clone that shares its pipe with one production connection and with no other
\* clone reads that connection's replies, in order, and misses none but those
\* reported as overflow: R2 and R3 reading the same pipe make no other gap.
ReplayFaithful ==
    \A i \in Index : \A a \in Prod, y \in Clone :
        (Writers(i) = {a} /\ Readers(i) = {y}) =>
            \A j \in 1 .. Len(got[y]) : \E n \in 1 .. sent[Backend[a]] :
                /\ got[y][j] = ReplyUnit(a, n)
                /\ \A k \in 1 .. j - 1 : got[y][k] < got[y][j]
                /\ \A m \in 1 .. n - 1 : \/ ReplyUnit(a, m) \in dropped
                                         \/ \E k \in 1 .. j - 1 : got[y][k] = ReplyUnit(a, m)

\* While a production connection stands, the clone is answered with a reply
\* only after production was.
CloneNeverAhead ==
    \A a \in Prod : Writable(a) /\ ~Gone(a) =>
        \A n \in 1 .. sent[Backend[a]] :
            (\/ ReplyUnit(a, n) \in UNION {Units(pipes[i]) : i \in Index}
             \/ \E y \in Clone : ReplyUnit(a, n) \in Units(got[y]) \cup Units(outq[y]))
            => n =< Len(got[a]) + Len(outq[a])

\* Seen from the containers and the backend, the aggregator is an Exchange, whichever
\* connections share a pipe: nothing is answered twice or from another pipe, R2 and R3
\* keep the order of what they pass on, and an overflow is final.  A connection is tied to its
\* pipe by the fork() of the worker that uses it, and without one past NUM_CONNS.
Tied(x, role) == IF pc[<<x, role>>] # "none" /\ idx[x] \in Index THEN idx[x] ELSE NumConns
Promise == INSTANCE Exchange WITH
               Queue <- Index, NoQueue <- NumConns, lost <- dropped,
               queue <- [x \in Conn |-> Tied(x, IF x \in Prod THEN "W2" ELSE "R2")]
ExchangesReplies == Promise!Spec

\* paper/proxyAgg.tex:23: there is a queue for each connection.
OneQueueEach == \A i \in Index : Cardinality(Writers(i)) =< 1

----------------------------------------------------------------------------
(* Liveness.                                                               *)

Ended(s) == shut[s] \/ Gone(s) \/ peer[s] = "closed"

\* Once a production connection has its workers, every reply of the backend
\* reaches it or the connection ends: the clone cannot hold it up.
ReplyServed ==
    \A a \in Prod : \A n \in 1 .. MaxSent[Backend[a]] :
        (pc[Handler(a)] = "done" /\ sent[Backend[a]] >= n)
            ~> (Len(got[a]) >= n \/ Ended(a))

\* Every handler gets past the semaphore, whoever is killed while holding it.
HandlerDone == \A x \in Conn : (pc[Handler(x)] = "lock") ~> (pc[Handler(x)] \in Over)
=============================================================================
