-------------------------- MODULE AggregatorProofs --------------------------
(***************************************************************************)
(* Theorems about Aggregator, for every value of its constants.            *)
(***************************************************************************)
EXTENDS Aggregator, ForwarderProofs, FiniteSetTheorems

Kinds == {"prod", "clone"}

\* The handlers that have not stored their counter, and those that have.
Early == {"none", "connect", "get", "check", "lock", "load", "store"}
Late == {"unlock", "fork1", "fork2", "done"}

CounterTypes ==
    /\ pc \in [Proc -> Step]
    /\ shm \in [Kinds -> Nat]
    /\ mutex \in SUBSET Conn
    /\ idx \in [Conn -> Nat]
    /\ val \in [Conn -> Nat]

\* Between p and v a handler is alone, so that what it has loaded still holds.
Exclusion ==
    /\ \A x, y \in mutex : x = y
    /\ \A x \in Conn : pc[Handler(x)] \in {"load", "store", "unlock"} => x \in mutex
    /\ \A x \in Conn : pc[Handler(x)] = "store" => val[x] = shm[Kind(x)]

CounterInv == CounterTypes /\ Exclusion /\ NoLostIncrement /\ CloneFollows

----------------------------------------------------------------------------
(* The counters.                                                           *)

\* The processes of the aggregator are different ones.
LEMMA Procs ==
  /\ \A x \in Conn : Handler(x) \in Proc
  /\ \A x \in Prod : x \in Conn /\ Kind(x) = "prod" /\ <<x, "W1">> \in Proc /\ <<x, "W2">> \in Proc
  /\ \A x \in Clone : /\ x \in Conn /\ Kind(x) = "clone"
                      /\ <<x, "R1">> \in Proc /\ <<x, "R2">> \in Proc /\ <<x, "R3">> \in Proc
  /\ \A x, y : Handler(x) = Handler(y) => x = y
  /\ \A x, y, r : r # "H" => Handler(x) # <<y, r>>
  /\ \A x \in Conn : Kind(x) \in Kinds
BY ConnAssumption DEF Proc, Conn, Handler, Kind, Kinds

\* The sets counted are finite.
LEMMA Counting ==
  ASSUME NEW k \in Kinds
  PROVE  IsFiniteSet(Counted(k)) /\ Cardinality(Counted(k)) \in Nat
<1>1. Counted(k) \subseteq Conn
  BY DEF Counted
<1> QED  BY <1>1, ConnAssumption, FS_Subset, FS_CardinalityType

\* Every step of one handler moves it alone.
LEMMA HandlerAlone ==
  ASSUME pc \in [Proc -> Step], NEW x \in Conn, NEW next, Goto(Handler(x), next)
  PROVE  /\ pc'[Handler(x)] = next
         /\ \A y \in Conn : y # x => pc'[Handler(y)] = pc[Handler(y)]
BY Procs DEF Goto

\* A step that stores nothing, does not move a handler back and lets none into or
\* out of the critical section unnoticed, keeps the counters in order.
LEMMA CountersStill ==
  ASSUME CounterInv, NEW x \in Conn, NEW next \in Step,
         pc'[Handler(x)] = next,
         \A y \in Conn : y # x => pc'[Handler(y)] = pc[Handler(y)],
         next \in Late => pc[Handler(x)] \in Late,
         UNCHANGED shm
  PROVE  NoLostIncrement'
<1>1. ASSUME NEW k \in Kinds PROVE Cardinality(Counted(k)') =< shm[k]
  <2>1. Counted(k)' \subseteq Counted(k)
    BY DEF Counted, Late
  <2>2. IsFiniteSet(Counted(k)) /\ Cardinality(Counted(k)) \in Nat
    BY Counting
  <2>3. Cardinality(Counted(k)') =< Cardinality(Counted(k)) /\ Cardinality(Counted(k)') \in Nat
    BY <2>1, <2>2, FS_Subset, FS_CardinalityType
  <2>4. Cardinality(Counted(k)) =< shm[k] /\ shm[k] \in Nat
    BY DEF CounterInv, CounterTypes, NoLostIncrement, Kinds
  <2> QED  BY <2>2, <2>3, <2>4
<1> QED  BY <1>1 DEF NoLostIncrement, Kinds

\* accept(), connecting and forking, as far as the counters are concerned.
LEMMA PassCounters ==
  ASSUME CounterInv, NEW x \in Conn, NEW next \in Step,
         pc' \in [Proc -> Step], pc'[Handler(x)] = next,
         \A y \in Conn : y # x => pc'[Handler(y)] = pc[Handler(y)],
         UNCHANGED aggVars,
         \/ pc[Handler(x)] \in {"none", "connect"} /\ next \in {"connect", "get"}
         \/ pc[Handler(x)] = "fork1" /\ next = "fork2"
         \/ pc[Handler(x)] = "fork2" /\ next = "done"
         \/ pc[Handler(x)] = "connect" /\ next = "killed"
  PROVE  CounterInv'
<1>1. NoLostIncrement'
  BY CountersStill DEF aggVars, Late
<1>2. CounterTypes'
  BY DEF CounterInv, CounterTypes, aggVars
<1>3. Exclusion'
  BY DEF CounterInv, Exclusion, aggVars
<1>4. CloneFollows'
  BY Procs DEF CounterInv, CloneFollows, aggVars
<1> QED  BY <1>1, <1>2, <1>3, <1>4 DEF CounterInv

\* get_shm_counter() finds an index that no later check can find too large.
LEMMA GetCounters ==
  ASSUME CounterInv, NEW x \in Conn, GetCounter(x)
  PROVE  CounterInv'
<1> DEFINE next == IF x \in Prod THEN "lock" ELSE "check"
<1>1. /\ pc[Handler(x)] = "get" /\ pc'[Handler(x)] = next
      /\ \A y \in Conn : y # x => pc'[Handler(y)] = pc[Handler(y)]
      /\ next \in {"lock", "check"} /\ next \in Step
      /\ UNCHANGED <<shm, mutex, val>> /\ idx' = [idx EXCEPT ![x] = shm[Kind(x)]]
      /\ pc' \in [Proc -> Step]
  BY Procs, HandlerAlone DEF GetCounter, Inner, Goto, CounterInv, CounterTypes, Step
<1>2. shm[Kind(x)] \in Nat
  BY Procs DEF CounterInv, CounterTypes
<1>3. NoLostIncrement'
  BY <1>1, CountersStill DEF Late
<1>4. CounterTypes'
  BY <1>1, <1>2 DEF CounterInv, CounterTypes
<1>5. Exclusion'
  BY <1>1 DEF CounterInv, Exclusion
<1>6. CloneFollows'
  <2>1. x \in Clone => x \notin Prod
    BY ConnAssumption
  <2> QED  BY <1>1, <2>1, Procs DEF CounterInv, CounterTypes, CloneFollows
<1> QED  BY <1>3, <1>4, <1>5, <1>6 DEF CounterInv

\* The check lets in what the counter of production has passed.
LEMMA CheckCounters ==
  ASSUME CounterInv, NEW x \in Conn, CheckOrder(x)
  PROVE  CounterInv'
<1> DEFINE next == IF idx[x] >= shm["prod"] THEN "killed" ELSE "lock"
<1>1. /\ pc[Handler(x)] = "check" /\ pc'[Handler(x)] = next
      /\ \A y \in Conn : y # x => pc'[Handler(y)] = pc[Handler(y)]
      /\ next \in {"lock", "killed"} /\ next \in Step
      /\ UNCHANGED <<shm, mutex, val, idx>>
      /\ pc' \in [Proc -> Step]
  BY Procs, HandlerAlone
     DEF CheckOrder, Inner, Goto, CounterInv, CounterTypes, Step, LoopStep, Over, aggVars
<1>2. next = "lock" => idx[x] < shm["prod"]
  <2>1. shm["prod"] \in Nat /\ idx[x] \in Nat
    BY QueueAssumption DEF CounterInv, CounterTypes, Kinds
  <2> QED  BY <2>1
<1>3. NoLostIncrement'
  BY <1>1, CountersStill DEF Late
<1>4. CounterTypes'
  BY <1>1 DEF CounterInv, CounterTypes
<1>5. Exclusion'
  BY <1>1 DEF CounterInv, Exclusion
<1>6. CloneFollows'
  BY <1>1, <1>2, Procs DEF CounterInv, CloneFollows
<1> QED  BY <1>3, <1>4, <1>5, <1>6 DEF CounterInv

\* p, the load, and v.
LEMMA SemaphoreCounters ==
  ASSUME CounterInv, NEW x \in Conn, Lock(x) \/ Load(x) \/ Unlock(x)
  PROVE  CounterInv'
<1>1. /\ \/ pc[Handler(x)] = "lock" /\ pc'[Handler(x)] = "load" /\ mutex = {} /\ mutex' = {x}
            /\ UNCHANGED val
         \/ pc[Handler(x)] = "load" /\ pc'[Handler(x)] = "store" /\ UNCHANGED mutex
            /\ val' = [val EXCEPT ![x] = shm[Kind(x)]]
         \/ pc[Handler(x)] = "unlock" /\ pc'[Handler(x)] = "fork1" /\ mutex' = mutex \ {x}
            /\ UNCHANGED val
      /\ \A y \in Conn : y # x => pc'[Handler(y)] = pc[Handler(y)]
      /\ UNCHANGED <<shm, idx>>
  BY HandlerAlone DEF Lock, Load, Unlock, Inner, CounterInv, CounterTypes
<1>2. pc' \in [Proc -> Step] /\ pc'[Handler(x)] \in Step
  BY <1>1, Procs DEF Lock, Load, Unlock, Inner, Goto, CounterInv, CounterTypes, Step
<1>3. NoLostIncrement'
  BY <1>1, <1>2, CountersStill DEF Late
<1>4. CounterTypes'
  <2>1. shm[Kind(x)] \in Nat
    BY Procs DEF CounterInv, CounterTypes
  <2> QED  BY <1>1, <1>2, <2>1 DEF CounterInv, CounterTypes
<1>5. Exclusion'
  BY <1>1 DEF CounterInv, CounterTypes, Exclusion
<1>6. CloneFollows'
  BY <1>1, Procs DEF CounterInv, CloneFollows
<1> QED  BY <1>3, <1>4, <1>5, <1>6 DEF CounterInv

\* The store adds one to what is in memory, because nobody else has stored since
\* the load.
LEMMA StoreCounters ==
  ASSUME CounterInv, NEW x \in Conn, Store(x)
  PROVE  CounterInv'
<1> DEFINE k == Kind(x)
<1>1. /\ pc[Handler(x)] = "store" /\ pc'[Handler(x)] = "unlock"
      /\ \A y \in Conn : y # x => pc'[Handler(y)] = pc[Handler(y)]
      /\ UNCHANGED <<mutex, val, idx>>
      /\ k \in Kinds /\ val[x] = shm[k] /\ x \in mutex
      /\ shm' = [shm EXCEPT ![k] = shm[k] + 1]
      /\ shm \in [Kinds -> Nat]
  BY HandlerAlone, Procs DEF Store, Inner, CounterInv, CounterTypes, Exclusion
<1>2. pc' \in [Proc -> Step] /\ "unlock" \in Step
  BY DEF Store, Inner, Goto, CounterInv, CounterTypes, Step
<1> HIDE DEF k
<1>3. shm' \in [Kinds -> Nat] /\ shm'[k] = shm[k] + 1 /\ \A j \in Kinds : j # k => shm'[j] = shm[j]
  BY <1>1
<1>4. \A j \in Kinds : shm[j] =< shm'[j]
  BY <1>1, <1>3
<1>5. CounterTypes'
  BY <1>1, <1>2, <1>3 DEF CounterInv, CounterTypes
<1>6. Exclusion'
  <2>1. \A y \in Conn : y # x => pc[Handler(y)] # "store"
    BY <1>1 DEF CounterInv, Exclusion
  <2> QED  BY <1>1, <2>1 DEF CounterInv, Exclusion
<1>7. CloneFollows'
  <2>1. ASSUME NEW y \in Clone,
               pc'[Handler(y)] \in {"lock", "load", "store", "unlock", "fork1", "fork2", "done"}
        PROVE  idx[y] < shm'["prod"]
    <3>1. idx[y] < shm["prod"]
      BY <1>1, <2>1, Procs DEF CounterInv, CloneFollows
    <3>2. shm["prod"] \in Nat /\ shm'["prod"] \in Nat /\ shm["prod"] =< shm'["prod"] /\ idx[y] \in Nat
      <4>1. "prod" \in Kinds /\ y \in Conn
        BY Procs DEF Kinds
      <4>2. idx[y] \in Nat
        BY <4>1 DEF CounterInv, CounterTypes
      <4> QED  BY <1>1, <1>3, <1>4, <4>1, <4>2
    <3> QED  BY <3>1, <3>2
  <2> QED  BY <1>1, <2>1 DEF CloneFollows
<1>8. NoLostIncrement'
  <2>1. Counted(k)' \subseteq Counted(k) \cup {x}
    BY <1>1 DEF Counted
  <2>2. x \notin Counted(k) /\ IsFiniteSet(Counted(k)) /\ Cardinality(Counted(k)) \in Nat
    BY <1>1, Counting DEF Counted
  <2>3. /\ Cardinality(Counted(k) \cup {x}) = Cardinality(Counted(k)) + 1
        /\ IsFiniteSet(Counted(k) \cup {x})
    BY <2>2, FS_AddElement
  <2>4. /\ Cardinality(Counted(k)') =< Cardinality(Counted(k)) + 1
        /\ Cardinality(Counted(k)') \in Nat
    BY <2>1, <2>3, FS_Subset, FS_CardinalityType
  <2>5. Cardinality(Counted(k)) =< shm[k]
    BY <1>1 DEF CounterInv, NoLostIncrement, Kinds
  <2>6. Cardinality(Counted(k)') =< shm'[k]
    BY <1>1, <1>3, <2>2, <2>4, <2>5
  <2>7. ASSUME NEW j \in Kinds, j # k PROVE Cardinality(Counted(j)') =< shm'[j]
    <3>1. Counted(j)' = Counted(j)
      BY <1>1, <2>7 DEF Counted, k
    <3> QED  BY <1>3, <2>7, <3>1 DEF CounterInv, NoLostIncrement, Kinds
  <2> QED  BY <2>6, <2>7 DEF NoLostIncrement, Kinds
<1> QED  BY <1>5, <1>6, <1>7, <1>8 DEF CounterInv

\* A handler that is killed leaves its index unused; SEM_UNDO keeps the semaphore's
\* promise.
LEMMA KilledCounters ==
  ASSUME CounterInv, NEW x \in Conn, Terminated(x)
  PROVE  CounterInv'
<1>1. /\ pc'[Handler(x)] = "killed" /\ mutex' = mutex \ {x}
      /\ \A y \in Conn : y # x => pc'[Handler(y)] = pc[Handler(y)]
      /\ UNCHANGED <<shm, val, idx>>
  BY HandlerAlone DEF Terminated, CounterInv, CounterTypes
<1>2. pc' \in [Proc -> Step] /\ "killed" \in Step
  BY DEF Terminated, Goto, CounterInv, CounterTypes, Step, Over
<1>3. NoLostIncrement'
  BY <1>1, <1>2, CountersStill DEF Late
<1>4. CounterTypes'
  BY <1>1, <1>2 DEF CounterInv, CounterTypes
<1>5. Exclusion'
  BY <1>1 DEF CounterInv, Exclusion
<1>6. CloneFollows'
  BY <1>1, Procs DEF CounterInv, CloneFollows
<1> QED  BY <1>3, <1>4, <1>5, <1>6 DEF CounterInv

----------------------------------------------------------------------------
(* The processes, the pipes and the types.                                 *)

\* The steps of a handler before it forks its first and its second worker.
Unforked == {"none", "connect", "get", "check", "lock", "load", "store", "unlock", "fork1"}

\* A worker is forked once; what R1 leaves behind never enters a send() that the sockets know of.
ForkInv ==
    /\ \A x \in Conn : pc[Handler(x)] \in Early \cup Late \cup {"killed"}
    /\ \A x \in Prod :
          /\ pc[Handler(x)] \in Unforked => pc[<<x, "W1">>] = "none"
          /\ pc[Handler(x)] \in Unforked \cup {"fork2"} => pc[<<x, "W2">>] = "none"
    /\ \A x \in Clone :
          /\ pc[Handler(x)] # "connect"
          /\ pc[Handler(x)] \in Unforked => pc[<<x, "R1">>] = "none"
          /\ pc[Handler(x)] \in Unforked \cup {"fork2"} => pc[<<x, "R2">>] = "none"
          /\ pc[<<x, "R1">>] \in {"none", "recv", "shut1", "fork"} => pc[<<x, "R3">>] = "none"
          /\ off[<<x, "R3">>] = 0

PipeInv ==
    /\ pipes \in [Index -> Seq(Nat)]
    /\ \A i \in Index : Len(pipes[i]) =< PipeCap
    /\ dropped \in SUBSET Nat

ProcInv == LoopInv(Proc, Step, {"send"}) /\ CounterInv /\ ForkInv /\ PipeInv

\* The invariant has the types.
LEMMA ProcTypes == ProcInv => TypeOK
BY DEF ProcInv, LoopInv, CounterInv, CounterTypes, Kinds, PipeInv, TypeOK

\* Nothing has happened at the start.
LEMMA InitProc == Init => ProcInv
<1> SUFFICES ASSUME Init PROVE ProcInv
  OBVIOUS
<1>1. SockTypeOK
  BY SockCapAssumption DEF Init, SockInit, SockTypeOK, PeerState
<1>2. LoopInv(Proc, Step, {"send"})
  BY <1>1 DEF Init, LoopInv, Step, Over
<1>3. \A p \in Proc : pc[p] = "none" /\ off[p] = 0
  BY DEF Init
<1>4. ForkInv
  BY <1>3, Procs DEF ForkInv, Early
<1>5. PipeInv
  BY QueueAssumption DEF Init, PipeInv
<1>6. CounterTypes /\ Exclusion /\ CloneFollows
  <2>1. CounterTypes
    <3>1. NumConns \in Nat /\ Served \subseteq Nat
      BY QueueAssumption
    <3> QED  BY <3>1 DEF Init, CounterTypes, Step, Over, Kinds
  <2>2. \A x \in Conn : pc[Handler(x)] = "none"
    BY <1>3, Procs
  <2>3. mutex = {}
    BY DEF Init
  <2> QED  BY <2>1, <2>2, <2>3, Procs DEF Exclusion, CloneFollows
<1>7. NoLostIncrement
  <2>1. ASSUME NEW k \in Kinds PROVE Cardinality(Counted(k)) =< shm[k]
    <3>1. Counted(k) = {}
      BY <1>3, Procs DEF Counted
    <3>2. shm[k] \in Nat
      BY QueueAssumption DEF Init, Kinds
    <3> QED  BY <3>1, <3>2, FS_EmptySet
  <2> QED  BY <2>1 DEF NoLostIncrement, Kinds
<1> QED  BY <1>2, <1>4, <1>5, <1>6, <1>7 DEF ProcInv, CounterInv

\* A step of a handler that forks nothing keeps what is known of the processes.
LEMMA MoveProc ==
  ASSUME ProcInv, NEW x \in Conn, NEW next, next \in (Early \cup Late \cup {"killed"}) \ {"fork2"},
         Goto(Handler(x), next), next \in Unforked => pc[Handler(x)] \in Unforked,
         next = "connect" => x \in Prod,
         SockTypeOK', UNCHANGED <<buf, off, pipes, dropped>>,
         CounterInv'
  PROVE  ProcInv'
<1>1. LoopInv(Proc, Step, {"send"})'
  <2>1. pc[Handler(x)] \notin {"send"} /\ next \in Step \ {"send"}
    BY DEF ProcInv, ForkInv, Early, Late, Step, Over
  <2> QED  BY <2>1, Procs, MoveLoop DEF ProcInv
<1>2. /\ pc'[Handler(x)] = next
      /\ \A y \in Conn : y # x => pc'[Handler(y)] = pc[Handler(y)]
      /\ \A y, r : r # "H" /\ <<y, r>> \in Proc => pc'[<<y, r>>] = pc[<<y, r>>]
  BY Procs DEF Goto, ProcInv, LoopInv
<1>3. /\ \A y \in Prod : pc'[<<y, "W1">>] = pc[<<y, "W1">>] /\ pc'[<<y, "W2">>] = pc[<<y, "W2">>]
      /\ \A y \in Clone : /\ pc'[<<y, "R1">>] = pc[<<y, "R1">>]
                          /\ pc'[<<y, "R2">>] = pc[<<y, "R2">>]
                          /\ pc'[<<y, "R3">>] = pc[<<y, "R3">>]
  BY <1>2, Procs
<1>4. ASSUME NEW y \in Conn
      PROVE  /\ pc'[Handler(y)] \in Unforked => pc[Handler(y)] \in Unforked
             /\ pc'[Handler(y)] = "fork2" => pc[Handler(y)] = "fork2"
  BY <1>2
<1>5. ForkInv'
  <2>1. \A y \in Conn : pc'[Handler(y)] \in Early \cup Late \cup {"killed"}
    BY <1>2 DEF ProcInv, ForkInv
  <2>2. \A y \in Clone : pc'[Handler(y)] # "connect"
    BY <1>2, Procs, ConnAssumption DEF ProcInv, ForkInv
  <2> QED  BY <1>3, <1>4, <2>1, <2>2, Procs DEF ProcInv, ForkInv
<1>6. PipeInv'
  BY DEF ProcInv, PipeInv
<1> QED  BY <1>1, <1>5, <1>6 DEF ProcInv

\* The counters depend on the handlers and on themselves only.
LEMMA CountersAside ==
  ASSUME CounterInv, pc' \in [Proc -> Step], UNCHANGED aggVars,
         \A x \in Conn : pc'[Handler(x)] = pc[Handler(x)]
  PROVE  CounterInv'
<1>1. \A k : Counted(k)' = Counted(k)
  BY DEF Counted
<1>2. NoLostIncrement'
  BY <1>1 DEF CounterInv, NoLostIncrement, aggVars
<1>3. CounterTypes' /\ Exclusion' /\ CloneFollows'
  BY Procs DEF CounterInv, CounterTypes, Exclusion, CloneFollows, aggVars
<1> QED  BY <1>2, <1>3 DEF CounterInv

\* fork() starts a worker that was not there, or fails and changes nothing of it.
LEMMA ForkEffect ==
  ASSUME pc \in [Proc -> Step], NEW x \in Conn, NEW role, NEW at, NEW next,
         Fork(x, at, role, next), <<x, role>> \in Proc, pc[<<x, role>>] = "none",
         Handler(x) # <<x, role>>
  PROVE  \E w \in {"recv", "none"} :
            pc' = [pc EXCEPT ![<<x, role>>] = w, ![Handler(x)] = next]
<1>1. CASE pc' = [pc EXCEPT ![<<x, role>>] = "recv", ![Handler(x)] = next]
  BY <1>1
<1>2. CASE Goto(Handler(x), next)
  BY <1>2 DEF Goto
<1> QED  BY <1>1, <1>2 DEF Fork

\* fork() of the handlers.
LEMMA ForkProc ==
  ASSUME ProcInv, NEW x \in Conn, ForkFirst(x) \/ ForkSecond(x)
  PROVE  ProcInv'
<1>1. PICK role \in {"W1", "W2", "R1", "R2"}, next \in {"fork2", "done"} :
         /\ Fork(x, IF next = "fork2" THEN "fork1" ELSE "fork2", role, next)
         /\ x \in Prod => role = IF next = "fork2" THEN "W1" ELSE "W2"
         /\ x \notin Prod => role = IF next = "fork2" THEN "R1" ELSE "R2"
  BY DEF ForkFirst, ForkSecond
<1>2. x \in Prod \/ (x \in Clone /\ x \notin Prod)
  BY ConnAssumption DEF Conn
<1>3. /\ <<x, role>> \in Proc /\ Handler(x) \in Proc /\ Handler(x) # <<x, role>>
      /\ next \in Step /\ {"recv", "none"} \subseteq Step
  BY <1>1, <1>2, Procs DEF Step, Over, LoopStep
<1>0. /\ pc[Handler(x)] = (IF next = "fork2" THEN "fork1" ELSE "fork2")
      /\ UNCHANGED <<sockVars, buf, off, aggVars, pipeVars>>
      /\ pc \in [Proc -> Step]
  BY <1>1 DEF Fork, ProcInv, LoopInv
<1>8. pc[<<x, role>>] = "none"
  BY <1>0, <1>1, <1>2 DEF ProcInv, ForkInv, Unforked
<1>4. PICK w \in {"recv", "none"} : pc' = [pc EXCEPT ![<<x, role>>] = w, ![Handler(x)] = next]
  BY <1>0, <1>1, <1>3, <1>8, ForkEffect
<1>5. /\ pc' \in [Proc -> Step]
      /\ pc'[Handler(x)] = next /\ pc'[<<x, role>>] = w
      /\ \A p \in Proc : p # Handler(x) /\ p # <<x, role>> => pc'[p] = pc[p]
  BY <1>0, <1>3, <1>4
<1>6. /\ \A y \in Conn : y # x => pc'[Handler(y)] = pc[Handler(y)]
      /\ \A y \in Prod, r \in {"W1", "W2"} :
            <<y, r>> # <<x, role>> => pc'[<<y, r>>] = pc[<<y, r>>]
      /\ \A y \in Clone, r \in {"R1", "R2", "R3"} :
            <<y, r>> # <<x, role>> => pc'[<<y, r>>] = pc[<<y, r>>]
  BY <1>1, <1>5, Procs
<1>7. CounterInv'
  BY <1>0, <1>1, <1>3, <1>5, <1>6, PassCounters DEF ProcInv
<1>9. LoopInv(Proc, Step, {"send"})'
  <2>1. SockTypeOK'
    BY <1>0, SameSockTypeOK DEF ProcInv, LoopInv
  <2>2. /\ off[<<x, role>>] = 0 /\ off[Handler(x)] = 0
    BY <1>0, <1>3, <1>8 DEF ProcInv, LoopInv
  <2> QED  BY <1>0, <1>3, <1>5, <2>1, <2>2 DEF ProcInv, LoopInv
<1>10. ForkInv'
  <2>1. /\ off' = off
        /\ \A y \in Conn : pc'[Handler(y)] \in Early \cup Late \cup {"killed"}
    BY <1>0, <1>5, <1>6 DEF Late, ProcInv, ForkInv
  <2>2. ASSUME NEW y \in Prod
        PROVE  /\ pc'[Handler(y)] \in Unforked => pc'[<<y, "W1">>] = "none"
               /\ pc'[Handler(y)] \in Unforked \cup {"fork2"} => pc'[<<y, "W2">>] = "none"
    <3>1. CASE y = x
      BY <1>0, <1>1, <1>5, <1>6, <1>8, <3>1 DEF ProcInv, ForkInv, Unforked
    <3>2. CASE y # x
      BY <1>6, <3>2, Procs DEF ProcInv, ForkInv
    <3> QED  BY <3>1, <3>2
  <2>3. ASSUME NEW y \in Clone
        PROVE  /\ pc'[Handler(y)] # "connect"
               /\ pc'[Handler(y)] \in Unforked => pc'[<<y, "R1">>] = "none"
               /\ pc'[Handler(y)] \in Unforked \cup {"fork2"} => pc'[<<y, "R2">>] = "none"
               /\ pc'[<<y, "R1">>] \in {"none", "recv", "shut1", "fork"} => pc'[<<y, "R3">>] = "none"
    <3>1. CASE y = x
      <4>1. x \notin Prod
        BY <2>3, <3>1, ConnAssumption
      <4>2. role \in {"R1", "R2"} /\ (role = "R1" <=> next = "fork2")
        BY <1>1, <4>1
      <4> QED  BY <1>0, <1>5, <1>6, <1>8, <3>1, <4>2, ZenonT(60) DEF ProcInv, ForkInv, Unforked
    <3>2. CASE y # x
      BY <1>6, <3>2, Procs DEF ProcInv, ForkInv
    <3> QED  BY <3>1, <3>2
  <2> QED  BY <2>1, <2>2, <2>3 DEF ForkInv, ProcInv
<1>11. PipeInv'
  BY <1>0 DEF ProcInv, PipeInv, pipeVars
<1> QED  BY <1>7, <1>9, <1>10, <1>11 DEF ProcInv

\* The handlers.
LEMMA HandlersProc ==
  ASSUME ProcInv, NEW x \in Conn, Accept(x) \/ handle_client(x) \/ Terminated(x)
  PROVE  ProcInv'
<1>1. ASSUME UNCHANGED sockVars PROVE SockTypeOK'
  BY <1>1, SameSockTypeOK DEF ProcInv, LoopInv
<1>2. CASE Accept(x)
  <2> DEFINE next == IF x \in Prod THEN "connect" ELSE "get"
  <2>1. /\ x \in Sock /\ next \in Early \cup Late \cup {"killed"} /\ next \in {"connect", "get"}
        /\ next = "connect" => x \in Prod
    BY ConnAssumption DEF Early
  <2>2. SockTypeOK' /\ pc[Handler(x)] = "none" /\ Goto(Handler(x), next)
        /\ UNCHANGED <<buf, off, pipes, dropped, aggVars>>
    BY <1>2, <2>1, ConnectedTypeOK DEF Accept, ProcInv, LoopInv, pipeVars
  <2> HIDE DEF next
  <2>3. /\ pc' \in [Proc -> Step] /\ pc'[Handler(x)] = next
        /\ \A y \in Conn : y # x => pc'[Handler(y)] = pc[Handler(y)]
        /\ next \in Step
    BY <2>1, <2>2, Procs, HandlerAlone DEF Goto, ProcInv, LoopInv, Step, Over
  <2>4. CounterInv'
    <3>1. CounterInv /\ UNCHANGED aggVars
      BY <2>2 DEF ProcInv
    <3> QED  BY <2>1, <2>2, <2>3, <3>1, PassCounters
  <2> QED  BY <2>1, <2>2, <2>4, MoveProc DEF Unforked, aggVars
<1>3. CASE CreateConnection(x)
  <2>1. PICK next \in {"get", "killed"} :
           /\ Goto(Handler(x), next)
           /\ Connected(Backend[x]) \/ UNCHANGED sockVars
    BY <1>3 DEF CreateConnection
  <2>2. /\ pc[Handler(x)] = "connect" /\ next \in Early \cup Late \cup {"killed"}
        /\ UNCHANGED <<buf, off, pipes, dropped, aggVars>>
    BY <1>3 DEF CreateConnection, pipeVars, Early
  <2>3. SockTypeOK'
    <3>1. ASSUME Connected(Backend[x]) PROVE SockTypeOK'
      <4>1. SockTypeOK
        BY DEF ProcInv, LoopInv
      <4> QED  BY <3>1, <4>1 DEF Connected, SockTypeOK, PeerState
    <3> QED  BY <1>1, <2>1, <3>1
  <2>4. /\ pc' \in [Proc -> Step] /\ pc'[Handler(x)] = next
        /\ \A y \in Conn : y # x => pc'[Handler(y)] = pc[Handler(y)]
        /\ next \in Step
    BY <2>1, <2>2, Procs, HandlerAlone DEF Goto, ProcInv, LoopInv, Step, Over
  <2>5. CounterInv'
    <3>1. CounterInv /\ UNCHANGED aggVars
      BY <2>2 DEF ProcInv
    <3> QED  BY <2>1, <2>2, <2>4, <3>1, PassCounters
  <2> QED  BY <2>1, <2>2, <2>3, <2>5, MoveProc DEF Unforked, aggVars
<1>4. CASE GetCounter(x)
  <2>1. CounterInv'
    BY <1>4, GetCounters DEF ProcInv
  <2> DEFINE next == IF x \in Prod THEN "lock" ELSE "check"
  <2>4. /\ pc[Handler(x)] = "get" /\ Goto(Handler(x), next)
        /\ next \in {"lock", "check"} /\ next \in Early \cup Late \cup {"killed"}
        /\ UNCHANGED <<sockVars, buf, off, pipes, dropped>>
    BY <1>4 DEF GetCounter, Inner, pipeVars, Early
  <2> HIDE DEF next
  <2> QED  BY <1>1, <2>1, <2>4, MoveProc DEF Unforked
<1>5. CASE CheckOrder(x)
  <2>1. CounterInv'
    BY <1>5, CheckCounters DEF ProcInv
  <2> DEFINE next == IF idx[x] >= shm["prod"] THEN "killed" ELSE "lock"
  <2>2. /\ pc[Handler(x)] = "check" /\ Goto(Handler(x), next)
        /\ next \in {"lock", "killed"} /\ next \in Early \cup Late \cup {"killed"}
        /\ UNCHANGED <<sockVars, buf, off, pipes, dropped, idx>>
    BY <1>5 DEF CheckOrder, Inner, pipeVars, Early, aggVars
  <2> HIDE DEF next
  <2> QED  BY <1>1, <2>1, <2>2, MoveProc DEF Unforked
<1>6. CASE increment_shm_counter(x)
  <2>1. CounterInv'
    BY <1>6, SemaphoreCounters, StoreCounters DEF ProcInv, increment_shm_counter
  <2>2. PICK next \in {"load", "store", "unlock", "fork1"} :
           /\ pc[Handler(x)] \in {"lock", "load", "store", "unlock"}
           /\ Goto(Handler(x), next)
           /\ UNCHANGED <<sockVars, buf, off, pipes, dropped, idx>>
    BY <1>6 DEF increment_shm_counter, Lock, Load, Store, Unlock, Inner, pipeVars
  <2>3. next \in Early \cup Late \cup {"killed"}
    BY DEF Early, Late
  <2> QED  BY <1>1, <2>1, <2>2, <2>3, MoveProc DEF Unforked
<1>7. CASE Terminated(x)
  <2>1. CounterInv'
    BY <1>7, KilledCounters DEF ProcInv
  <2>2. Goto(Handler(x), "killed") /\ UNCHANGED <<sockVars, buf, off, pipes, dropped, idx>>
    BY <1>7 DEF Terminated, pipeVars
  <2> QED  BY <1>1, <2>1, <2>2, MoveProc DEF Unforked
<1> QED  BY <1>2, <1>3, <1>4, <1>5, <1>6, <1>7, ForkProc DEF handle_client

\* The sockets of a connection are different ones.
LEMMA Socks ==
  /\ Conn \subseteq Sock /\ Prod \subseteq Conn /\ Clone \subseteq Conn
  /\ \A a \in Prod : Backend[a] \in Sock /\ Backend[a] \notin Conn /\ a \notin Clone
  /\ \A a, b \in Prod : Backend[a] = Backend[b] => a = b
BY ConnAssumption DEF Conn

\* A step of a worker leaves the handlers and the other workers alone.
LEMMA WorkerAside ==
  ASSUME ProcInv, NEW x \in Conn, NEW r \in {"W1", "W2", "R1", "R2", "R3"},
         <<x, r>> \in Proc, pc[<<x, r>>] # "none",
         UNCHANGED pc \/ \E next : Goto(<<x, r>>, next),
         r = "R1" => pc[<<x, r>>] \in {"recv", "shut1", "fork"},
         \A q \in Proc : q # <<x, r>> \/ r = "R3" => off'[q] = off[q],
         LoopInv(Proc, Step, {"send"})', UNCHANGED aggVars
  PROVE  CounterInv' /\ ForkInv'
<1>1. /\ pc \in [Proc -> Step] /\ pc' \in [Proc -> Step]
      /\ \A q \in Proc : q # <<x, r>> => pc'[q] = pc[q]
  BY DEF ProcInv, LoopInv, Goto
<1>2. \A y \in Conn : pc'[Handler(y)] = pc[Handler(y)]
  BY <1>1, Procs
<1>3. CounterInv'
  BY <1>1, <1>2, CountersAside DEF ProcInv
<1>4. \A q \in Proc : /\ pc[q] = "none" => pc'[q] = "none"
                      /\ pc'[q] # "none" => pc[q] # "none"
  BY <1>1
<1>5. \A y \in Clone : off'[<<y, "R3">>] = 0
  BY Procs DEF ProcInv, ForkInv
<1>6. ASSUME NEW y \in Clone, pc'[<<y, "R1">>] \in {"none", "recv", "shut1", "fork"}
      PROVE  pc'[<<y, "R3">>] = "none"
  <2>1. pc[<<y, "R1">>] \in {"none", "recv", "shut1", "fork"}
    BY <1>1, <1>6, Procs
  <2> QED  BY <1>4, <2>1, Procs DEF ProcInv, ForkInv
<1>7. ForkInv'
  BY <1>2, <1>4, <1>5, <1>6, Procs DEF ProcInv, ForkInv
<1> QED  BY <1>3, <1>7

\* The units of a buffer are numbers.
LEMMA UnitsType == \A q \in Seq(Nat) : Units(q) \subseteq Nat
BY ElementOfSeq DEF Units

\* A step that writes a pipe keeps its type and its size.
LEMMA WritePipeProc ==
  ASSUME ProcInv, NEW p \in Proc, NEW i \in Index, WritePipe(p, i, "recv")
  PROVE  LoopInv(Proc, Step, {"send"})' /\ PipeInv'
<1>1. /\ buf[p] \in Seq(Nat) /\ pipes[i] \in Seq(Nat) /\ pipes \in [Index -> Seq(Nat)]
      /\ dropped \in SUBSET Nat /\ \A j \in Index : Len(pipes[j]) =< PipeCap
  BY DEF ProcInv, LoopInv, PipeInv
<1>2. /\ pipes[i] \o buf[p] \in Seq(Nat)
      /\ Len(pipes[i] \o buf[p]) = Len(pipes[i]) + Len(buf[p])
  BY <1>1, ConcatProperties
<1>3. PipeInv'
  <2>1. CASE Put(p, i)
    <3>1. pipes' = [pipes EXCEPT ![i] = pipes[i] \o buf[p]] /\ dropped' = dropped
      BY <2>1 DEF Put
    <3>2. Len(pipes[i] \o buf[p]) =< PipeCap
      BY <1>2, <2>1 DEF Put, Fits
    <3> QED  BY <1>1, <1>2, <3>1, <3>2 DEF PipeInv
  <2>2. CASE Refuse(p, i)
    BY <1>1, <2>2, UnitsType DEF Refuse, PipeInv
  <2> QED  BY <2>1, <2>2 DEF WritePipe
<1>4. /\ Goto(p, "recv") /\ Drop(p, "recv") /\ UNCHANGED <<sockVars, off>> /\ pc[p] = "write"
      /\ "recv" \in Step
  BY DEF WritePipe, Step, LoopStep
<1>5. SockTypeOK'
  BY <1>4, SameSockTypeOK DEF ProcInv, LoopInv
<1>6. /\ buf' \in [Proc -> Seq(Nat)] /\ pc' \in [Proc -> Step] /\ pc'[p] = "recv"
      /\ \A q \in Proc : q # p => pc'[q] = pc[q] /\ buf'[q] = buf[q]
      /\ off[p] = 0
  BY <1>4 DEF Goto, Drop, ProcInv, LoopInv
<1>7. LoopInv(Proc, Step, {"send"})'
  BY <1>4, <1>5, <1>6 DEF ProcInv, LoopInv
<1> QED  BY <1>3, <1>7

\* Nor does one that writes past the end of pipes_arr.
LEMMA AstrayProc ==
  ASSUME ProcInv, NEW p \in Proc, WriteAstray(p, "recv")
  PROVE  LoopInv(Proc, Step, {"send"})' /\ PipeInv'
<1>1. /\ Goto(p, "recv") /\ Drop(p, "recv") /\ UNCHANGED <<sockVars, off, pipes>>
      /\ pc[p] = "write" /\ "recv" \in Step
  BY DEF WriteAstray, Step, LoopStep
<1>2. PipeInv'
  <2>1. buf[p] \in Seq(Nat)
    BY DEF ProcInv, LoopInv
  <2>2. dropped' \in SUBSET Nat
    BY <2>1, UnitsType DEF WriteAstray, ProcInv, PipeInv
  <2> QED  BY <1>1, <2>2 DEF ProcInv, PipeInv
<1>3. SockTypeOK'
  BY <1>1, SameSockTypeOK DEF ProcInv, LoopInv
<1>4. /\ buf' \in [Proc -> Seq(Nat)] /\ pc' \in [Proc -> Step] /\ pc'[p] = "recv"
      /\ \A q \in Proc : q # p => pc'[q] = pc[q] /\ buf'[q] = buf[q]
      /\ off[p] = 0
  BY <1>1 DEF Goto, Drop, ProcInv, LoopInv
<1>5. LoopInv(Proc, Step, {"send"})'
  BY <1>1, <1>3, <1>4 DEF ProcInv, LoopInv
<1> QED  BY <1>2, <1>5

\* A step that reads a pipe leaves with a buffer that is not empty.
LEMMA ReadPipeProc ==
  ASSUME ProcInv, NEW p \in Proc, NEW i \in Index, ReadPipe(p, i)
  PROVE  LoopInv(Proc, Step, {"send"})' /\ PipeInv'
<1>1. PICK k \in 1 .. BufSize :
         /\ k =< Len(pipes[i])
         /\ buf' = [buf EXCEPT ![p] = SubSeq(pipes[i], 1, k)]
         /\ pipes' = [pipes EXCEPT ![i] = SubSeq(@, k + 1, Len(@))]
  BY DEF ReadPipe
<1>2. /\ pipes[i] \in Seq(Nat) /\ pipes \in [Index -> Seq(Nat)] /\ dropped \in SUBSET Nat
      /\ \A j \in Index : Len(pipes[j]) =< PipeCap
  BY DEF ProcInv, PipeInv
<1>3. k \in 1 .. Len(pipes[i]) /\ Len(pipes[i]) \in Nat
  BY <1>1, <1>2, BufSizeAssumption
<1>4. /\ SubSeq(pipes[i], 1, k) \in Seq(Nat) /\ Len(SubSeq(pipes[i], 1, k)) > 0
      /\ SubSeq(pipes[i], k + 1, Len(pipes[i])) \in Seq(Nat)
      /\ Len(SubSeq(pipes[i], k + 1, Len(pipes[i]))) = Len(pipes[i]) - k
  BY <1>2, <1>3, Cut
<1>5. Len(SubSeq(pipes[i], k + 1, Len(pipes[i]))) =< PipeCap
  BY <1>2, <1>3, <1>4, QueueAssumption
<1>6. PipeInv'
  BY <1>1, <1>2, <1>4, <1>5 DEF ReadPipe, PipeInv
<1>7. /\ Goto(p, "send") /\ UNCHANGED <<sockVars, off>> /\ pc[p] = "recv" /\ "send" \in Step
  BY DEF ReadPipe, Step, LoopStep
<1>8. SockTypeOK'
  BY <1>7, SameSockTypeOK DEF ProcInv, LoopInv
<1>9. /\ buf' \in [Proc -> Seq(Nat)] /\ pc' \in [Proc -> Step] /\ pc'[p] = "send"
      /\ \A q \in Proc : q # p => pc'[q] = pc[q] /\ buf'[q] = buf[q]
      /\ off[p] = 0 /\ 0 < Len(buf'[p])
  BY <1>1, <1>4, <1>7 DEF Goto, ProcInv, LoopInv
<1>10. LoopInv(Proc, Step, {"send"})'
  BY <1>7, <1>8, <1>9 DEF ProcInv, LoopInv
<1> QED  BY <1>6, <1>10

\* What the steps of the loops leave alone.
LEMMA LoopAside ==
  ASSUME ProcInv, NEW p \in Proc, NEW s, NEW at, NEW next, at # "none",
         \/ Recv(p, s, at, next)
         \/ Send(p, at, s, next)
         \/ Shut(p, at, s, next)
         \/ Drain(p, s)
         \/ DrainEnd(p, s)
  PROVE  /\ pc[p] # "none" /\ (UNCHANGED pc \/ \E n : Goto(p, n))
         /\ \A q \in Proc : q # p => off'[q] = off[q]
BY DEF Recv, Send, Shut, Drain, DrainEnd, ProcInv, LoopInv

\* The workers of a production connection.
LEMMA ProdProc ==
  ASSUME ProcInv, NEW x \in Prod, W1(x) \/ W2(x)
  PROVE  ProcInv'
<1>1. /\ x \in Conn /\ x \in Sock /\ Backend[x] \in Sock
      /\ <<x, "W1">> \in Proc /\ <<x, "W2">> \in Proc
      /\ LoopInv(Proc, Step, {"send"}) /\ UNCHANGED aggVars
  BY Procs, Socks DEF ProcInv, W1, W2
<1>2. /\ "send" \in Step /\ "recv" \in Step /\ "write" \in Step
      /\ "killed" \in Step \ {"send"} /\ "shut1" \in Step \ {"send"}
      /\ "shut2" \in Step \ {"send"} /\ "done" \in Step \ {"send"}
  BY DEF Step, LoopStep, Over
<1>3. ASSUME NEW r \in {"W1", "W2"}, <<x, r>> \in Proc, UNCHANGED pipeVars,
             NEW s \in {x, Backend[x]},
             \/ Recv(<<x, r>>, s, "send", "shut1")
             \/ \E next \in {"recv", "write"} : Send(<<x, r>>, "send", s, next)
             \/ Shut(<<x, r>>, "shut1", s, "shut2")
             \/ Shut(<<x, r>>, "shut2", s, "done")
      PROVE  ProcInv'
  <2>1. LoopInv(Proc, Step, {"send"})'
    <3>1. s \in Sock
      BY <1>1
    <3>2. CASE Recv(<<x, r>>, s, "send", "shut1")
      BY <1>1, <1>2, <1>3, <3>1, <3>2, RecvLoop
    <3>3. ASSUME NEW next \in {"recv", "write"}, Send(<<x, r>>, "send", s, next)
          PROVE  LoopInv(Proc, Step, {"send"})'
      BY <1>1, <1>2, <1>3, <3>1, <3>3, SendLoop
    <3>4. CASE Shut(<<x, r>>, "shut1", s, "shut2") \/ Shut(<<x, r>>, "shut2", s, "done")
      BY <1>1, <1>2, <1>3, <3>1, <3>4, ShutLoop
    <3> QED  BY <1>3, <3>2, <3>3, <3>4
  <2>2. /\ pc[<<x, r>>] # "none" /\ (UNCHANGED pc \/ \E n : Goto(<<x, r>>, n))
        /\ \A q \in Proc : q # <<x, r>> => off'[q] = off[q]
    BY <1>3, LoopAside
  <2>3. PipeInv'
    BY <1>3 DEF ProcInv, PipeInv, pipeVars
  <2> QED  BY <1>1, <1>3, <2>1, <2>2, <2>3, WorkerAside DEF ProcInv
<1>4. CASE W1(x)
  BY <1>1, <1>3, <1>4 DEF W1, forward_data, Shut2
<1>5. CASE \/ idx[x] \in Index /\ WritePipe(<<x, "W2">>, idx[x], "recv")
           \/ WriteAstray(<<x, "W2">>, "recv")
  <2>1. /\ pc[<<x, "W2">>] # "none" /\ Goto(<<x, "W2">>, "recv") /\ UNCHANGED off
    BY <1>5 DEF WritePipe, WriteAstray
  <2>3. LoopInv(Proc, Step, {"send"})' /\ PipeInv'
    BY <1>1, <1>5, WritePipeProc, AstrayProc
  <2> QED  BY <1>1, <2>1, <2>3, WorkerAside DEF ProcInv
<1>6. CASE W2(x)
  BY <1>1, <1>3, <1>5, <1>6 DEF W2, forward_data_to_dest_and_pipe, Shut2
<1> QED  BY <1>4, <1>6

\* R1 is followed by R3, which it forks.
LEMMA ForkThird ==
  ASSUME ProcInv, NEW x \in Clone, pc[<<x, "R1">>] = "fork",
         pc' = [pc EXCEPT ![<<x, "R1">>] = "done", ![<<x, "R3">>] = "recv"],
         UNCHANGED <<sockVars, buf, off, aggVars, pipeVars>>
  PROVE  ProcInv'
<1>1. /\ <<x, "R1">> \in Proc /\ <<x, "R3">> \in Proc /\ <<x, "R1">> # <<x, "R3">> /\ x \in Conn
      /\ LoopInv(Proc, Step, {"send"})
  BY Procs DEF ProcInv
<1>2. {"done", "recv"} \subseteq Step
  BY DEF Step, Over, LoopStep
<1>3. /\ pc' \in [Proc -> Step] /\ pc'[<<x, "R1">>] = "done" /\ pc'[<<x, "R3">>] = "recv"
      /\ \A q \in Proc : q # <<x, "R1">> /\ q # <<x, "R3">> => pc'[q] = pc[q]
  BY <1>1, <1>2 DEF LoopInv
<1>4. \A y \in Conn : pc'[Handler(y)] = pc[Handler(y)]
  BY <1>3, Procs
<1>5. CounterInv'
  BY <1>3, <1>4, CountersAside DEF ProcInv
<1>6. pc[<<x, "R3">>] = "none"
  BY DEF ProcInv, ForkInv
<1>7. LoopInv(Proc, Step, {"send"})'
  <2>1. SockTypeOK'
    BY SameSockTypeOK DEF ProcInv, LoopInv
  <2>2. off[<<x, "R1">>] = 0 /\ off[<<x, "R3">>] = 0
    BY <1>1, <1>6 DEF LoopInv
  <2> QED  BY <1>1, <1>3, <2>1, <2>2 DEF LoopInv
<1>8. ForkInv'
  <2>1. off' = off
    OBVIOUS
  <2>2. /\ \A y \in Prod : pc'[<<y, "W1">>] = pc[<<y, "W1">>] /\ pc'[<<y, "W2">>] = pc[<<y, "W2">>]
        /\ \A y \in Clone : pc'[<<y, "R2">>] = pc[<<y, "R2">>]
        /\ \A y \in Clone : y # x => /\ pc'[<<y, "R1">>] = pc[<<y, "R1">>]
                                     /\ pc'[<<y, "R3">>] = pc[<<y, "R3">>]
    BY <1>3, Procs
  <2>3. pc[Handler(x)] \notin Unforked
    BY DEF ProcInv, ForkInv
  <2> QED  BY <1>1, <1>3, <1>4, <1>6, <2>1, <2>2, <2>3, Procs, SMTT(60) DEF ProcInv, ForkInv
<1>9. PipeInv'
  BY DEF ProcInv, PipeInv, pipeVars
<1> QED  BY <1>5, <1>7, <1>8, <1>9 DEF ProcInv

\* The workers of a connection of the clone.
LEMMA CloneProc ==
  ASSUME ProcInv, NEW x \in Clone, R1(x) \/ R2(x) \/ R3(x)
  PROVE  ProcInv'
<1>1. /\ x \in Conn /\ x \in Sock
      /\ <<x, "R1">> \in Proc /\ <<x, "R2">> \in Proc /\ <<x, "R3">> \in Proc
      /\ LoopInv(Proc, Step, {"send"}) /\ UNCHANGED aggVars
  BY Procs, Socks DEF ProcInv, R1, R2, R3
<1>2. /\ "recv" \in Step /\ "killed" \in Step \ {"send"}
      /\ "shut1" \in Step \ {"send"} /\ "fork" \in Step \ {"send"}
      /\ "done" \in Step \ {"send"}
  BY DEF Step, LoopStep, Over
<1>0. ASSUME NEW r \in {"R1", "R2", "R3"}, pc[<<x, r>>] \in {"recv", "fork"},
             NEW next \in {"shut1", "done"}, r = "R1" => next = "done",
             Goto(<<x, r>>, next), UNCHANGED <<sockVars, buf, off, pipeVars>>
      PROVE  ProcInv'
  <2>1. <<x, r>> \in Proc /\ next \in Step \ {"send"} /\ pc[<<x, r>>] \notin {"send"}
    BY <1>0, <1>1, <1>2
  <2>2. SockTypeOK'
    BY <1>0, SameSockTypeOK DEF ProcInv, LoopInv
  <2>3. LoopInv(Proc, Step, {"send"})'
    BY <1>0, <1>1, <2>1, <2>2, MoveLoop
  <2>4. PipeInv'
    BY <1>0 DEF ProcInv, PipeInv, pipeVars
  <2> QED  BY <1>0, <1>1, <2>3, <2>4, WorkerAside DEF ProcInv
<1>3. CASE R1(x)
  <2>1. CASE \/ Drain(<<x, "R1">>, x) \/ DrainEnd(<<x, "R1">>, x)
             \/ Shut(<<x, "R1">>, "shut1", x, "fork")
    <3>1. LoopInv(Proc, Step, {"send"})'
      <4>1. CASE Drain(<<x, "R1">>, x) \/ DrainEnd(<<x, "R1">>, x)
        BY <1>1, <1>2, <4>1, DrainLoop
      <4>2. CASE Shut(<<x, "R1">>, "shut1", x, "fork")
        BY <1>1, <1>2, <4>2, ShutLoop
      <4> QED  BY <2>1, <4>1, <4>2
    <3>2. pc[<<x, "R1">>] \in {"recv", "shut1"}
      BY <2>1 DEF Drain, DrainEnd, Shut
    <3>3. /\ UNCHANGED pc \/ \E n : Goto(<<x, "R1">>, n)
          /\ \A q \in Proc : q # <<x, "R1">> => off'[q] = off[q]
      BY <2>1 DEF Drain, DrainEnd, Shut
    <3>4. PipeInv'
      BY <1>3 DEF R1, read_data_and_drop, ProcInv, PipeInv, pipeVars
    <3> QED  BY <1>1, <3>1, <3>2, <3>3, <3>4, WorkerAside DEF ProcInv
  <2>2. CASE /\ pc[<<x, "R1">>] = "fork"
             /\ pc' = [pc EXCEPT ![<<x, "R1">>] = "done", ![<<x, "R3">>] = "recv"]
             /\ UNCHANGED <<sockVars, buf, off, pipeVars>>
    BY <1>1, <2>2, ForkThird
  <2>3. CASE /\ pc[<<x, "R1">>] = "fork"
             /\ Goto(<<x, "R1">>, "done")
             /\ UNCHANGED <<sockVars, buf, off, pipeVars>>
    BY <1>0, <2>3
  <2> QED  BY <1>3, <2>1, <2>2, <2>3 DEF R1, read_data_and_drop
<1>4. ASSUME NEW r \in {"R2", "R3"}, idx[x] \in Index, ReadPipe(<<x, r>>, idx[x])
      PROVE  ProcInv'
  <2>1. pc[<<x, r>>] # "none" /\ Goto(<<x, r>>, "send") /\ UNCHANGED off
    BY <1>4 DEF ReadPipe
  <2>3. LoopInv(Proc, Step, {"send"})' /\ PipeInv'
    BY <1>1, <1>4, ReadPipeProc
  <2> QED  BY <1>1, <1>4, <2>1, <2>3, WorkerAside DEF ProcInv
<1>7. CASE \E r \in {"R2", "R3"}, next \in {"shut1", "done"} : ReadAstray(<<x, r>>, next)
  BY <1>0, <1>7 DEF ReadAstray
<1>5. CASE /\ \/ Send(<<x, "R2">>, "send", x, "recv")
              \/ Shut(<<x, "R2">>, "shut1", x, "done")
           /\ UNCHANGED pipeVars
  <2>1. LoopInv(Proc, Step, {"send"})'
    BY <1>1, <1>2, <1>5, SendLoop, ShutLoop
  <2>2. /\ pc[<<x, "R2">>] # "none" /\ (UNCHANGED pc \/ \E n : Goto(<<x, "R2">>, n))
        /\ \A q \in Proc : q # <<x, "R2">> => off'[q] = off[q]
    BY <1>1, <1>5, LoopAside
  <2>3. PipeInv'
    BY <1>5 DEF ProcInv, PipeInv, pipeVars
  <2> QED  BY <1>1, <2>1, <2>2, <2>3, WorkerAside DEF ProcInv
<1>6. CASE /\ pc[<<x, "R3">>] = "send"
           /\ Goto(<<x, "R3">>, "recv")
           /\ Drop(<<x, "R3">>, "recv")
           /\ UNCHANGED <<sockVars, off, pipeVars>>
  <2>1. SockTypeOK'
    BY <1>6, SameSockTypeOK DEF ProcInv, LoopInv
  <2>2. /\ buf' \in [Proc -> Seq(Nat)] /\ pc' \in [Proc -> Step] /\ pc'[<<x, "R3">>] = "recv"
        /\ \A q \in Proc : q # <<x, "R3">> => pc'[q] = pc[q] /\ buf'[q] = buf[q]
    BY <1>1, <1>2, <1>6 DEF Goto, Drop, LoopInv
  <2>3. off[<<x, "R3">>] = 0
    BY DEF ProcInv, ForkInv
  <2>4. LoopInv(Proc, Step, {"send"})'
    BY <1>1, <1>6, <2>1, <2>2, <2>3 DEF LoopInv
  <2>5. PipeInv'
    BY <1>6 DEF ProcInv, PipeInv, pipeVars
  <2> QED  BY <1>1, <1>6, <2>4, <2>5, WorkerAside DEF ProcInv
<1> QED  BY <1>3, <1>4, <1>5, <1>6, <1>7 DEF R2, R3, read_pipe_dest, read_pipe_nowhere

\* The peers.
LEMMA PeersProc ==
  ASSUME ProcInv, NEW s \in Sock, Reads(s) \/ Writes(s) \/ Quits(s) \/ Resets(s)
  PROVE  ProcInv'
<1>1. UNCHANGED procVars /\ LoopInv(Proc, Step, {"send"})
  BY DEF Reads, Writes, Quits, Resets, ProcInv
<1>2. SockTypeOK'
  BY <1>1, PeerTypeOK DEF Reads, Writes, Quits, Resets, LoopInv
<1>3. LoopInv(Proc, Step, {"send"})'
  BY <1>1, <1>2, SockLoop DEF procVars
<1>4. CounterInv'
  BY <1>1, CountersAside DEF ProcInv, LoopInv, procVars
<1>5. ForkInv' /\ PipeInv'
  BY <1>1 DEF procVars, aggVars, pipeVars, ProcInv, ForkInv, PipeInv
<1> QED  BY <1>3, <1>4, <1>5 DEF ProcInv

\* ProcInv is inductive.
LEMMA NextProc == ProcInv /\ [Next]_vars => ProcInv'
<1> SUFFICES ASSUME ProcInv, [Next]_vars PROVE ProcInv'
  OBVIOUS
<1>1. CASE UNCHANGED vars
  <2>1. UNCHANGED <<sockVars, pc, buf, off, aggVars, pipeVars>>
    BY <1>1 DEF vars
  <2>2. LoopInv(Proc, Step, {"send"})'
    BY <2>1, SameSockTypeOK, SockLoop DEF ProcInv, LoopInv
  <2>3. CounterInv'
    BY <2>1, CountersAside DEF ProcInv, LoopInv
  <2>4. ForkInv' /\ PipeInv'
    BY <2>1 DEF aggVars, pipeVars, ProcInv, ForkInv, PipeInv
  <2> QED  BY <2>2, <2>3, <2>4 DEF ProcInv
<1> QED  BY <1>1, HandlersProc, ProdProc, CloneProc, PeersProc DEF Next

\* Types and capacities hold for any number of connections, whose counters run past the
\* pipes when they are more than NUM_CONNS.
THEOREM AggTypes == Spec => []TypeOK
BY InitProc, NextProc, ProcTypes, PTL DEF Spec

\* However many handlers run at once, and whichever of them are killed, no increment
\* of the shared counters is lost.
THEOREM AggCounters == Spec => []NoLostIncrement
<1>1. ProcInv => NoLostIncrement
  BY DEF ProcInv, CounterInv
<1> QED  BY <1>1, InitProc, NextProc, PTL DEF Spec

\* A connection of the clone is let in only behind one of production.
THEOREM AggCloneFollows == Spec => []CloneFollows
<1>1. ProcInv => CloneFollows
  BY DEF ProcInv, CounterInv
<1> QED  BY <1>1, InitProc, NextProc, PTL DEF Spec

----------------------------------------------------------------------------
(* Production and its backend read each other's data only.                 *)

\* W1 carries the stream to the backend, W2 the one from it.
Streams ==
    \A a \in Prod : /\ Stream(<<a, "W1">>, a, Backend[a])
                    /\ Stream(<<a, "W2">>, Backend[a], a)
IsolInv == ProcInv /\ Streams

\* A step of a handler that forks nothing, and may connect its own sockets.
LEMMA HandlerStreams ==
  ASSUME IsolInv, NEW x \in Conn, NEW next, Goto(Handler(x), next),
         UNCHANGED <<buf, off>>,
         \/ UNCHANGED sockVars
         \/ Connected(x) /\ pc[Handler(x)] \in Unforked
         \/ x \in Prod /\ Connected(Backend[x]) /\ pc[Handler(x)] \in Unforked
  PROVE  Streams'
<1>1. UNCHANGED <<got, outq, inq, sent, shut>>
  BY DEF Connected, sockVars
<1>2. ASSUME NEW a \in Prod, NEW r \in {"W1", "W2"}, NEW s \in {a, Backend[a]},
             NEW d \in {a, Backend[a]}, Stream(<<a, r>>, s, d)
      PROVE  Stream(<<a, r>>, s, d)'
  <2>1. pc'[<<a, r>>] = pc[<<a, r>>]
    BY Procs DEF Goto, IsolInv, ProcInv, LoopInv
  <2>2. pc[<<a, r>>] = "none" \/ (Writable(d)' => Writable(d))
    <3>1. CASE UNCHANGED sockVars
      BY <3>1 DEF Writable, sockVars
    <3>2. CASE a = x /\ pc[Handler(x)] \in Unforked
      BY <3>2 DEF IsolInv, ProcInv, ForkInv
    <3>3. CASE a # x /\ (Connected(x) \/ (x \in Prod /\ Connected(Backend[x])))
      <4>1. d \in Sock /\ d # x /\ (x \in Prod => d # Backend[x])
        BY <3>3, Socks
      <4>2. peer'[d] = peer[d]
        BY <3>3, <4>1 DEF Connected, IsolInv, ProcInv, LoopInv, SockTypeOK
      <4> QED  BY <1>1, <4>2 DEF Writable
    <3> QED  BY <3>1, <3>2, <3>3
  <2> QED  BY <1>1, <1>2, <2>1, <2>2, StreamStill
<1> QED  BY <1>2 DEF IsolInv, Streams

\* fork() starts a stream with all of it before the worker, or touches none.
LEMMA ForkStreams ==
  ASSUME IsolInv, NEW x \in Conn, NEW role \in {"W1", "W2", "R1", "R2"}, NEW at, NEW next,
         Fork(x, at, role, next), <<x, role>> \in Proc,
         role \in {"W1", "W2"} => pc[<<x, role>>] = "none"
  PROVE  Streams'
<1>1. /\ UNCHANGED <<sockVars, buf, off>> /\ pc \in [Proc -> Step]
      /\ \/ pc' = [pc EXCEPT ![<<x, role>>] = "recv", ![Handler(x)] = next]
         \/ pc' = [pc EXCEPT ![Handler(x)] = next]
  BY DEF Fork, Goto, IsolInv, ProcInv, LoopInv
<1>2. ASSUME NEW a \in Prod, NEW r \in {"W1", "W2"}, NEW s, NEW d, Stream(<<a, r>>, s, d)
      PROVE  Stream(<<a, r>>, s, d)'
  <2>1. Writable(d)' = Writable(d) /\ <<a, r>> \in Proc /\ <<a, r>> # Handler(x)
    BY <1>1, Procs DEF Writable, sockVars
  <2>2. CASE <<a, r>> = <<x, role>>
    <3>1. pc[<<a, r>>] = "none" /\ pc'[<<a, r>>] \in {"recv", "none"}
      BY <1>1, <2>1, <2>2
    <3>2. CASE pc'[<<a, r>>] = "recv"
      BY <1>1, <1>2, <2>1, <3>1, <3>2, StreamMove DEF sockVars, Flow
    <3>3. CASE pc'[<<a, r>>] = "none"
      BY <1>1, <1>2, <2>1, <3>1, <3>3, StreamStill DEF sockVars
    <3> QED  BY <3>1, <3>2, <3>3
  <2>3. CASE <<a, r>> # <<x, role>>
    <3>1. pc'[<<a, r>>] = pc[<<a, r>>]
      BY <1>1, <2>1, <2>3
    <3> QED  BY <1>1, <1>2, <2>1, <3>1, StreamStill DEF sockVars
  <2> QED  BY <2>2, <2>3
<1> QED  BY <1>2 DEF IsolInv, Streams

\* The handlers.
LEMMA HandlersStreams ==
  ASSUME IsolInv, NEW x \in Conn, Accept(x) \/ handle_client(x) \/ Terminated(x)
  PROVE  Streams'
<1>1. CASE Accept(x)
  BY <1>1, HandlerStreams DEF Accept, Unforked
<1>2. CASE CreateConnection(x)
  <2>1. x \in Prod
    <3>1. pc[Handler(x)] = "connect"
      BY <1>2 DEF CreateConnection
    <3> QED  BY <3>1 DEF IsolInv, ProcInv, ForkInv, Conn
  <2>2. /\ pc[Handler(x)] \in Unforked /\ UNCHANGED <<buf, off>>
        /\ Connected(Backend[x]) \/ UNCHANGED sockVars
        /\ \E next : Goto(Handler(x), next)
    BY <1>2 DEF CreateConnection, Unforked
  <2> QED  BY <2>1, <2>2, HandlerStreams
<1>3. CASE GetCounter(x) \/ CheckOrder(x) \/ increment_shm_counter(x) \/ Terminated(x)
  <2>1. UNCHANGED <<sockVars, buf, off>> /\ \E next : Goto(Handler(x), next)
    BY <1>3 DEF GetCounter, CheckOrder, increment_shm_counter, Lock, Load, Store, Unlock,
                Inner, Terminated
  <2> QED  BY <2>1, HandlerStreams
<1>4. x \in Prod \/ (x \in Clone /\ x \notin Prod)
  BY ConnAssumption DEF Conn
<1>5. CASE ForkFirst(x)
  <2>1. pc[Handler(x)] = "fork1"
    BY <1>5 DEF ForkFirst, Fork
  <2>2. x \in Prod => pc[<<x, "W1">>] = "none"
    BY <2>1 DEF IsolInv, ProcInv, ForkInv, Unforked
  <2> QED  BY <1>4, <1>5, <2>2, Procs, ForkStreams DEF ForkFirst
<1>6. CASE ForkSecond(x)
  <2>1. pc[Handler(x)] = "fork2"
    BY <1>6 DEF ForkSecond, Fork
  <2>2. x \in Prod => pc[<<x, "W2">>] = "none"
    BY <2>1 DEF IsolInv, ProcInv, ForkInv, Unforked
  <2> QED  BY <1>4, <1>6, <2>2, Procs, ForkStreams DEF ForkSecond
<1> QED  BY <1>1, <1>2, <1>3, <1>5, <1>6 DEF handle_client

\* A step that moves no data and shuts nothing, of a process that is not in the
\* middle of a send() that a stream depends on.
LEMMA QuietStreams ==
  ASSUME IsolInv, NEW q \in Proc, NEW a \in Prod, NEW r \in {"W1", "W2"}, NEW s, NEW d,
         Stream(<<a, r>>, s, d), UNCHANGED <<sockVars, off>>,
         \A p \in Proc : p # q => pc'[p] = pc[p] /\ buf'[p] = buf[p],
         q = <<a, r>> => pc[q] = "write" /\ pc'[q] = "recv"
  PROVE  Stream(<<a, r>>, s, d)'
<1>1. Writable(d)' = Writable(d) /\ <<a, r>> \in Proc
  BY Procs DEF Writable, sockVars
<1>2. CASE q = <<a, r>>
  BY <1>1, <1>2, StreamMove DEF sockVars, Flow
<1>3. CASE q # <<a, r>>
  BY <1>1, <1>3, StreamStill DEF sockVars
<1> QED  BY <1>2, <1>3

\* A step of another loop, on sockets that do not feed or drain this stream.
LEMMA OtherStreams ==
  ASSUME IsolInv, NEW q \in Proc, NEW a \in Prod, NEW r \in {"W1", "W2"},
         NEW s \in Sock, NEW d \in Sock, NEW x \in Sock, Stream(<<a, r>>, s, d), q # <<a, r>>,
         NEW at, NEW next,
         \/ x # s /\ Recv(q, x, at, next)
         \/ x # d /\ Send(q, at, x, next)
         \/ Shut(q, at, x, next)
         \/ x # s /\ Drain(q, x)
         \/ DrainEnd(q, x)
  PROVE  Stream(<<a, r>>, s, d)'
<1>1. <<a, r>> \in Proc /\ LoopInv(Proc, Step, {"send"})
  BY Procs DEF IsolInv, ProcInv
<1> QED  BY <1>1, StreamOthers

\* The loop that carries the stream from s to d.
LEMMA OwnStreams ==
  ASSUME IsolInv, NEW a \in Prod, NEW r \in {"W1", "W2"},
         NEW s \in Sock, NEW d \in Sock, Stream(<<a, r>>, s, d),
         \/ Recv(<<a, r>>, s, "send", "shut1")
         \/ \E next \in {"recv", "write"} : Send(<<a, r>>, "send", d, next)
         \/ Shut(<<a, r>>, "shut1", d, "shut2")
         \/ Shut(<<a, r>>, "shut2", s, "done")
  PROVE  Stream(<<a, r>>, s, d)'
<1>1. <<a, r>> \in Proc /\ LoopInv(Proc, Step, {"send"})
  BY Procs DEF IsolInv, ProcInv
<1>2. CASE Recv(<<a, r>>, s, "send", "shut1")
  BY <1>1, <1>2, StreamRecv DEF Flow
<1>3. CASE \E next \in {"recv", "write"} : Send(<<a, r>>, "send", d, next)
  BY <1>1, <1>3, StreamSend DEF Flow
<1>4. CASE Shut(<<a, r>>, "shut1", d, "shut2") \/ Shut(<<a, r>>, "shut2", s, "done")
  BY <1>1, <1>4, StreamShut DEF Flow
<1> QED  BY <1>2, <1>3, <1>4

\* The workers of a production connection b carry its two streams and touch no other.
LEMMA ProdStreams ==
  ASSUME IsolInv, NEW b \in Prod, W1(b) \/ W2(b)
  PROVE  Streams'
<1>1. SUFFICES ASSUME NEW a \in Prod, NEW r \in {"W1", "W2"},
                      NEW s, s = (IF r = "W1" THEN a ELSE Backend[a]),
                      NEW d, d = (IF r = "W1" THEN Backend[a] ELSE a),
                      Stream(<<a, r>>, s, d)
               PROVE  Stream(<<a, r>>, s, d)'
  BY <1>1 DEF IsolInv, Streams
<1>2. /\ s \in Sock /\ d \in Sock /\ b \in Sock /\ Backend[b] \in Sock /\ s # d
      /\ <<b, "W1">> \in Proc /\ <<b, "W2">> \in Proc
  BY <1>1, Socks, Procs
<1>3. CASE W1(b)
  <2>1. forward_data(<<b, "W1">>, b, Backend[b])
    BY <1>3 DEF W1
  <2>2. CASE a = b /\ r = "W1"
    BY <1>1, <1>2, <2>1, <2>2, OwnStreams DEF forward_data, Shut2
  <2>3. CASE a # b \/ r # "W1"
    <3>1. b # s /\ Backend[b] # d /\ <<b, "W1">> # <<a, r>>
      BY <1>1, <2>3, Socks
    <3> QED  BY <1>1, <1>2, <2>1, <3>1, OtherStreams DEF forward_data, Shut2
  <2> QED  BY <2>2, <2>3
<1>4. CASE W2(b)
  <2>1. forward_data_to_dest_and_pipe(<<b, "W2">>, Backend[b], b, idx[b])
    BY <1>4 DEF W2
  <2>2. CASE WritePipe(<<b, "W2">>, idx[b], "recv") \/ WriteAstray(<<b, "W2">>, "recv")
    <3>1. /\ UNCHANGED <<sockVars, off>> /\ pc[<<b, "W2">>] = "write" /\ pc'[<<b, "W2">>] = "recv"
          /\ \A p \in Proc : p # <<b, "W2">> => pc'[p] = pc[p] /\ buf'[p] = buf[p]
      BY <1>2, <2>2 DEF WritePipe, WriteAstray, Goto, Drop, IsolInv, ProcInv, LoopInv
    <3> QED  BY <1>1, <1>2, <3>1, QuietStreams
  <2>3. CASE a = b /\ r = "W2"
    BY <1>1, <1>2, <2>1, <2>2, <2>3, OwnStreams DEF forward_data_to_dest_and_pipe, Shut2
  <2>4. CASE a # b \/ r # "W2"
    <3>1. Backend[b] # s /\ b # d /\ <<b, "W2">> # <<a, r>>
      BY <1>1, <2>4, Socks
    <3> QED  BY <1>1, <1>2, <2>1, <2>2, <3>1, OtherStreams
             DEF forward_data_to_dest_and_pipe, Shut2
  <2> QED  BY <2>3, <2>4
<1> QED  BY <1>3, <1>4

\* The workers of the clone touch neither stream.
LEMMA CloneStreams ==
  ASSUME IsolInv, NEW y \in Clone, R1(y) \/ R2(y) \/ R3(y)
  PROVE  Streams'
<1>1. SUFFICES ASSUME NEW a \in Prod, NEW r \in {"W1", "W2"},
                      NEW s \in {a, Backend[a]}, NEW d \in {a, Backend[a]},
                      Stream(<<a, r>>, s, d)
               PROVE  Stream(<<a, r>>, s, d)'
  BY <1>1 DEF IsolInv, Streams
<1>2. /\ s \in Sock /\ d \in Sock /\ y \in Sock /\ y # s /\ y # d /\ <<a, r>> \in Proc
      /\ \A w \in {"R1", "R2", "R3"} : <<y, w>> \in Proc /\ <<y, w>> # <<a, r>>
      /\ pc \in [Proc -> Step] /\ buf \in [Proc -> Seq(Nat)]
  <2>1. /\ a \in Sock /\ Backend[a] \in Sock /\ y \in Sock
        /\ y # a /\ y # Backend[a]
    BY <1>1, Socks
  <2>2. <<a, "W1">> \in Proc /\ <<a, "W2">> \in Proc
    BY <1>1, Procs
  <2>3. <<y, "R1">> \in Proc /\ <<y, "R2">> \in Proc /\ <<y, "R3">> \in Proc
    BY Procs
  <2>4. pc \in [Proc -> Step] /\ buf \in [Proc -> Seq(Nat)]
    BY DEF IsolInv, ProcInv, LoopInv
  <2> QED  BY <1>1, <2>1, <2>2, <2>3, <2>4
<1>3. ASSUME NEW w \in {"R1", "R2", "R3"},
             \/ ReadPipe(<<y, w>>, idx[y])
             \/ \E next : ReadAstray(<<y, w>>, next)
             \/ /\ Goto(<<y, w>>, "recv") /\ Drop(<<y, w>>, "recv")
                /\ UNCHANGED <<sockVars, off>>
      PROVE  Stream(<<a, r>>, s, d)'
  <2>1. /\ UNCHANGED <<sockVars, off>>
        /\ \A p \in Proc : p # <<y, w>> => pc'[p] = pc[p] /\ buf'[p] = buf[p]
    BY <1>2, <1>3 DEF ReadPipe, ReadAstray, Goto, Drop
  <2> QED  BY <1>1, <1>2, <2>1, QuietStreams
<1>4. CASE /\ \/ pc' = [pc EXCEPT ![<<y, "R1">>] = "done", ![<<y, "R3">>] = "recv"]
              \/ Goto(<<y, "R1">>, "done")
           /\ UNCHANGED <<sockVars, buf, off>>
  <2>1. pc'[<<a, r>>] = pc[<<a, r>>] /\ Writable(d)' = Writable(d)
    BY <1>2, <1>4 DEF Writable, Goto, sockVars
  <2> QED  BY <1>1, <1>4, <2>1, StreamStill DEF sockVars
<1>5. CASE R1(y)
  BY <1>1, <1>2, <1>4, <1>5, OtherStreams DEF R1, read_data_and_drop
<1>6. CASE R2(y)
  BY <1>1, <1>2, <1>3, <1>6, OtherStreams DEF R2, read_pipe_dest
<1>7. CASE R3(y)
  BY <1>3, <1>7 DEF R3, read_pipe_nowhere
<1> QED  BY <1>5, <1>6, <1>7

\* The containers and the backend.
LEMMA PeersStreams ==
  ASSUME IsolInv, NEW x \in Sock, Reads(x) \/ Writes(x) \/ Quits(x) \/ Resets(x)
  PROVE  Streams'
<1>1. /\ UNCHANGED <<pc, buf, off>> /\ LoopInv(Proc, Step, {"send"})
      /\ \/ PeerRead(x) \/ PeerWrite(x, Gone(x)) \/ PeerHalfClose(x) \/ PeerClose(x)
         \/ Reset(x, Gone(x))
  BY DEF Reads, Writes, Quits, Resets, procVars, IsolInv, ProcInv
<1>2. ASSUME NEW a \in Prod, NEW r \in {"W1", "W2"},
             NEW s \in {a, Backend[a]}, NEW d \in {a, Backend[a]}, Stream(<<a, r>>, s, d)
      PROVE  Stream(<<a, r>>, s, d)'
  <2>1. s \in Sock /\ d \in Sock /\ <<a, r>> \in Proc
    <3>1. a \in Sock /\ Backend[a] \in Sock
      BY <1>2, Socks
    <3>2. <<a, "W1">> \in Proc /\ <<a, "W2">> \in Proc
      BY <1>2, Procs
    <3> QED  BY <1>2, <3>1, <3>2
  <2>2. Owner(d) = a
    <3>1. a \in Conn /\ Backend[a] \notin Conn
      BY <1>2, Socks
    <3>2. (CHOOSE b \in Prod : Backend[b] = Backend[a]) = a
      BY <1>2, Socks
    <3> QED  BY <1>2, <3>1, <3>2 DEF Owner
  <2>3. x = d /\ Gone(x) => pc[<<a, r>>] \in Over
    BY <2>1, <2>2 DEF Gone
  <2> QED  BY <1>1, <1>2, <2>1, <2>3, StreamPeers
<1> QED  BY <1>2 DEF IsolInv, Streams

\* IsolInv is inductive.
LEMMA NextIsol == IsolInv /\ [Next]_vars => IsolInv'
<1> SUFFICES ASSUME IsolInv, [Next]_vars PROVE IsolInv'
  OBVIOUS
<1>1. ProcInv'
  BY NextProc DEF IsolInv
<1>2. CASE UNCHANGED vars
  <2>1. UNCHANGED <<sockVars, pc, buf, off>> /\ \A d : Writable(d)' = Writable(d)
    BY <1>2 DEF vars, sockVars, Writable
  <2>2. Streams'
    BY <2>1, StreamStill DEF IsolInv, Streams, sockVars
  <2> QED  BY <1>1, <2>2 DEF IsolInv
<1> QED
  BY <1>1, <1>2, HandlersStreams, ProdStreams, CloneStreams, PeersStreams DEF Next, IsolInv

\* Before the first connection nothing has been written.
LEMMA InitIsol == Init => IsolInv
<1> SUFFICES ASSUME Init PROVE IsolInv
  OBVIOUS
<1>1. \A x \in Sock : got[x] = <<>> /\ outq[x] = <<>> /\ inq[x] = <<>> /\ sent[x] = 0
  BY DEF Init, SockInit
<1>2. \A p \in Proc : pc[p] = "none"
  BY DEF Init
<1>3. Streams
  BY <1>1, <1>2, Socks, Procs, StreamInit DEF Streams
<1> QED  BY <1>3, InitProc DEF IsolInv

\* Whatever the clone sends and however its replies are held up, the production
\* container and its backend read exactly what the other has written, in order.
THEOREM AggExact == Spec => []ProductionExact
<1>1. IsolInv => ProductionExact
  BY DEF IsolInv, Streams, Stream, Ahead, ProductionExact, ReplyUnit
<1> QED  BY <1>1, InitIsol, NextIsol, PTL DEF Spec
=============================================================================
