---------------------- MODULE AggregatorExchangeProofs ----------------------
(***************************************************************************)
(* That the aggregator is an Exchange, for every value of the constants:   *)
(* whichever connections share a pipe, each reply is played at most once,  *)
(* those to one connection in their order, and none that was given up.     *)
(***************************************************************************)
EXTENDS AggregatorReplayProofs

----------------------------------------------------------------------------
(* Queues in which the units of a set are in order.                        *)

Rising(q, S) == \A i, j \in 1 .. Len(q) : (i < j /\ q[i] \in S /\ q[j] \in S) => q[i] < q[j]

\* Two queues joined: each is in order and the one comes before the other.
LEMMA RisingJoin ==
  ASSUME NEW p \in Seq(Nat), NEW q \in Seq(Nat), NEW S
  PROVE  Rising(p \o q, S) <=>
            /\ Rising(p, S) /\ Rising(q, S)
            /\ \A u \in Units(p) \cap S, v \in Units(q) \cap S : u < v
<1> DEFINE s == p \o q
           m == Len(p)
           n == Len(q)
<1>1. /\ m \in Nat /\ n \in Nat /\ Len(s) = m + n
      /\ \A i \in 1 .. m : s[i] = p[i]
      /\ \A i \in 1 .. n : s[m + i] = q[i]
  BY Splice, LenProperties
<1>2. /\ Units(p) = {p[i] : i \in 1 .. m} /\ Units(q) = {q[i] : i \in 1 .. n}
  BY DEF Units
<1>3. /\ Rising(s, S) <=>
            \A i, j \in 1 .. Len(s) : (i < j /\ s[i] \in S /\ s[j] \in S) => s[i] < s[j]
      /\ Rising(p, S) <=> \A i, j \in 1 .. m : (i < j /\ p[i] \in S /\ p[j] \in S) => p[i] < p[j]
      /\ Rising(q, S) <=> \A i, j \in 1 .. n : (i < j /\ q[i] \in S /\ q[j] \in S) => q[i] < q[j]
  BY DEF Rising
<1> HIDE DEF s, m, n
<1>4. ASSUME Rising(s, S)
      PROVE  /\ Rising(p, S) /\ Rising(q, S)
             /\ \A u \in Units(p) \cap S, v \in Units(q) \cap S : u < v
  <2>1. Rising(p, S)
    <3>1. \A i \in 1 .. m : i \in 1 .. Len(s)
      BY <1>1
    <3> QED  BY <1>1, <1>3, <1>4, <3>1
  <2>2. Rising(q, S)
    <3>1. ASSUME NEW i \in 1 .. n, NEW j \in 1 .. n, i < j, q[i] \in S, q[j] \in S
          PROVE  q[i] < q[j]
      <4>1. m + i \in 1 .. Len(s) /\ m + j \in 1 .. Len(s) /\ m + i < m + j
        BY <1>1, <3>1
      <4> QED  BY <1>1, <1>3, <1>4, <3>1, <4>1
    <3> QED  BY <1>3, <3>1
  <2>3. ASSUME NEW i \in 1 .. m, NEW j \in 1 .. n, p[i] \in S, q[j] \in S PROVE p[i] < q[j]
    <3>1. i \in 1 .. Len(s) /\ m + j \in 1 .. Len(s) /\ i < m + j
      BY <1>1
    <3> QED  BY <1>1, <1>3, <1>4, <2>3, <3>1
  <2> QED  BY <1>2, <2>1, <2>2, <2>3
<1>5. ASSUME Rising(p, S), Rising(q, S),
             \A u \in Units(p) \cap S, v \in Units(q) \cap S : u < v
      PROVE  Rising(s, S)
  <2>1. \A i \in 1 .. m, j \in 1 .. n : p[i] \in S /\ q[j] \in S => p[i] < q[j]
    BY <1>2, <1>5
  <2>2. ASSUME NEW i \in 1 .. Len(s)
        PROVE  \/ i \in 1 .. m /\ s[i] = p[i]
               \/ i - m \in 1 .. n /\ s[i] = q[i - m]
    <3>1. CASE i =< m
      BY <1>1, <3>1
    <3>2. CASE i > m
      <4> DEFINE k == i - m
      <4>1. k \in 1 .. n /\ m + k = i
        BY <1>1, <3>2
      <4>2. s[m + k] = q[k]
        BY <1>1, <4>1
      <4> QED  BY <4>1, <4>2
    <3> QED  BY <1>1, <3>1, <3>2
  <2>3. ASSUME NEW i \in 1 .. Len(s), NEW j \in 1 .. Len(s), i < j, s[i] \in S, s[j] \in S
        PROVE  s[i] < s[j]
    <3>1. CASE i \in 1 .. m /\ s[i] = p[i] /\ j \in 1 .. m /\ s[j] = p[j]
      BY <1>3, <1>5, <2>3, <3>1
    <3>2. CASE i \in 1 .. m /\ s[i] = p[i] /\ j - m \in 1 .. n /\ s[j] = q[j - m]
      BY <2>1, <2>3, <3>2
    <3>3. CASE i - m \in 1 .. n /\ s[i] = q[i - m] /\ j - m \in 1 .. n /\ s[j] = q[j - m]
      <4> DEFINE k == i - m
                 l == j - m
      <4>1. k < l
        BY <1>1, <2>3
      <4>2. k \in 1 .. n /\ s[i] = q[k] /\ l \in 1 .. n /\ s[j] = q[l]
        BY <3>3
      <4> HIDE DEF k, l
      <4> QED  BY <1>3, <1>5, <2>3, <4>1, <4>2
    <3>4. ~(i - m \in 1 .. n /\ j \in 1 .. m)
      BY <1>1, <2>3
    <3> QED  BY <2>2, <3>1, <3>2, <3>3, <3>4
  <2> QED  BY <1>3, <2>3
<1> QED  BY <1>4, <1>5 DEF s

\* A queue stays in order when something is taken out of its middle.
LEMMA RisingWithout ==
  ASSUME NEW p \in Seq(Nat), NEW q \in Seq(Nat), NEW r \in Seq(Nat), NEW S,
         Rising(p \o (q \o r), S)
  PROVE  Rising(p \o r, S)
<1> DEFINE t == q \o r
<1>1. t \in Seq(Nat) /\ Units(t) = Units(q) \cup Units(r)
  BY Splice
<1>2. Rising(t, S) <=>
         /\ Rising(q, S) /\ Rising(r, S)
         /\ \A u \in Units(q) \cap S, v \in Units(r) \cap S : u < v
  BY RisingJoin
<1> HIDE DEF t
<1>3. /\ Rising(p, S) /\ Rising(t, S)
      /\ \A u \in Units(p) \cap S, v \in Units(t) \cap S : u < v
  <2>1. Rising(p \o t, S)
    BY DEF t
  <2> QED  BY <1>1, <2>1, RisingJoin
<1>4. /\ Rising(p, S) /\ Rising(r, S)
      /\ \A u \in Units(p) \cap S, v \in Units(r) \cap S : u < v
  BY <1>1, <1>2, <1>3
<1> QED  BY <1>4, RisingJoin

\* Nor does it harm to put at its end what comes behind all that is there.
LEMMA RisingMore ==
  ASSUME NEW q \in Seq(Nat), NEW b \in Seq(Nat), NEW S, Rising(q, S), Rising(b, S),
         \A u \in Units(q) \cap S, v \in Units(b) \cap S : u < v
  PROVE  Rising(q \o b, S)
BY RisingJoin

----------------------------------------------------------------------------
(* The invariant.                                                          *)

\* The replies to a.
Of(a) == {ReplyUnit(a, n) : n \in 1 .. MaxSent[Backend[a]]}

\* The replies to one connection are in order, in what has come to a connection of the
\* clone and from there to what is still in the pipe it reads, or may come to read.
Ordered ==
    \A i \in Index, y \in Clone : idx[y] = i \/ Idle(y) =>
        \A a \in Prod : Rising(Chain(i, y), Of(a))

\* No reply came to two connections.
Apart == \A y, z \in Clone : y # z => Played(y) \cap Played(z) = {}

\* What was given up is a reply that W2 is done with, and nowhere else.
GivenUp ==
    /\ \A u \in dropped : \E b \in Prod : \E m \in 1 .. Mark(b) : u = ReplyUnit(b, m)
    /\ \A y \in Clone : Played(y) \cap dropped = {}
    /\ \A i \in Index : Units(pipes[i]) \cap dropped = {}

OnceInv == Ordered /\ Apart /\ GivenUp

\* What is in a pipe, or came out of it, is a reply that its writer is done with.
LEMMA CopyOf ==
  ASSUME ReplayInv, NEW i \in Index, NEW u \in Copies(i)
  PROVE  \E b \in Prod : /\ pc[<<b, "W2">>] # "none" /\ idx[b] = i /\ u \in Of(b)
                         /\ \E m \in 1 .. Mark(b) : u = ReplyUnit(b, m)
<1>1. PICK b \in Writers(i) : \E m \in 1 .. Mark(b) : u = ReplyUnit(b, m)
  BY DEF ReplayInv, CopyInv, Sources
<1>2. PICK m \in 1 .. Mark(b) : u = ReplyUnit(b, m)
  BY <1>1
<1>3. b \in Prod /\ pc[<<b, "W2">>] # "none" /\ idx[b] = i
  BY DEF Writers
<1>4. m \in 1 .. MaxSent[Backend[b]]
  <2>1. Mark(b) \in Nat /\ MaxSent[Backend[b]] \in Nat /\ Mark(b) =< MaxSent[Backend[b]]
    BY <1>3, MarkCounts, ProdCounts
  <2> QED  BY <2>1
<1> QED  BY <1>2, <1>3, <1>4 DEF Of

\* What has come to a connection has an R2 and came out of its pipe.
LEMMA PlayedFrom ==
  ASSUME ReplayInv, NEW y \in Clone, NEW u \in Played(y)
  PROVE  /\ pc[<<y, "R2">>] # "none" /\ ~Idle(y)
         /\ idx[y] \in Index /\ u \in Copies(idx[y])
<1>1. pc[<<y, "R2">>] # "none"
  <2> SUFFICES ASSUME pc[<<y, "R2">>] = "none" PROVE FALSE
    OBVIOUS
  <2>1. got[y] = <<>> /\ outq[y] = <<>> /\ Rest(y) = <<>>
    BY DEF ReplayInv, StartInv, Untouched, Rest
  <2>2. Units(<<>>) = {}
    BY DEF Units
  <2> QED  BY <2>1, <2>2 DEF Played
<1>2. idx[y] \in Index
  <2> SUFFICES ASSUME idx[y] \notin Index PROVE FALSE
    OBVIOUS
  <2>1. got[y] = <<>> /\ outq[y] = <<>> /\ Rest(y) = <<>>
    BY DEF ReplayInv, StartInv, Untouched, Rest
  <2>2. Units(<<>>) = {}
    BY DEF Units
  <2> QED  BY <2>1, <2>2 DEF Played
<1>3. Played(y) \subseteq Copies(idx[y])
  BY <1>2, PlayedIn
<1> QED  BY <1>1, <1>2, <1>3 DEF Idle

\* What is in a pipe has come to no connection.
LEMMA NotPlayed ==
  ASSUME ReplayInv, Ordered, NEW i \in Index, NEW y \in Clone
  PROVE  Units(pipes[i]) \cap Played(y) = {}
<1> SUFFICES ASSUME NEW u \in Units(pipes[i]), u \in Played(y) PROVE FALSE
  OBVIOUS
<1>1. PICK b \in Prod : idx[b] = i /\ u \in Of(b)
  <2>1. u \in Copies(i)
    BY DEF Copies
  <2> QED  BY <2>1, CopyOf
<1>2. idx[y] \in Index /\ u \in Copies(idx[y])
  BY PlayedFrom
<1>3. idx[y] = i
  <2>1. PICK n \in 1 .. MaxSent[Backend[b]] : u = ReplyUnit(b, n)
    BY <1>1 DEF Of
  <2>2. b \in Writers(idx[y])
    BY <1>2, <2>1, SourceOf
  <2> QED  BY <1>1, <2>2 DEF Writers
<1>4. Rising(Line(y) \o (Rest(y) \o pipes[i]), Of(b))
  BY <1>3 DEF Ordered, Chain
<1>5. /\ Line(y) \in Seq(Nat) /\ Rest(y) \in Seq(Nat) /\ pipes[i] \in Seq(Nat)
      /\ Rest(y) \o pipes[i] \in Seq(Nat)
      /\ Units(Rest(y) \o pipes[i]) = Units(Rest(y)) \cup Units(pipes[i])
      /\ Played(y) = Units(Line(y)) \cup Units(Rest(y))
      /\ Units(pipes[i]) \subseteq Nat
  <2>1. /\ Line(y) \in Seq(Nat) /\ Rest(y) \in Seq(Nat) /\ pipes[i] \in Seq(Nat)
        /\ Units(Line(y)) = Units(got[y]) \cup Units(outq[y])
    BY CloneParts
  <2>2. Played(y) = Units(Line(y)) \cup Units(Rest(y))
    BY <2>1 DEF Played
  <2> QED  BY <2>1, <2>2, Splice, UnitsType
<1>6. \A v \in Units(Line(y)) \cap Of(b), w \in (Units(Rest(y)) \cup Units(pipes[i])) \cap Of(b) : v < w
  <2> DEFINE t == Rest(y) \o pipes[i]
  <2>1. t \in Seq(Nat) /\ Rising(Line(y) \o t, Of(b)) /\ Units(t) = Units(Rest(y)) \cup Units(pipes[i])
    BY <1>4, <1>5
  <2> HIDE DEF t
  <2>2. \A v \in Units(Line(y)) \cap Of(b), w \in Units(t) \cap Of(b) : v < w
    BY <1>5, <2>1, RisingJoin
  <2> QED  BY <2>1, <2>2
<1>7. \A v \in Units(Rest(y)) \cap Of(b), w \in Units(pipes[i]) \cap Of(b) : v < w
  <2>1. Rising(Rest(y) \o pipes[i], Of(b))
    BY <1>4, <1>5, RisingJoin
  <2> QED  BY <1>5, <2>1, RisingJoin
<1>8. u < u /\ u \in Nat
  BY <1>1, <1>5, <1>6, <1>7
<1> QED  BY <1>8

\* A step that brings nothing into the pipes, and to the connections only what was in
\* them, in its order, keeps all but that nothing comes to two.
LEMMA OnceStep ==
  ASSUME ReplayInv, OnceInv, dropped' = dropped, Apart',
         \A a \in Prod : Mark(a)' \in Nat /\ Mark(a) =< Mark(a)',
         \A i \in Index : Units(pipes'[i]) \subseteq Units(pipes[i]),
         \A y \in Clone : Played(y)' \subseteq Played(y) \cup UNION {Units(pipes[i]) : i \in Index},
         \A i \in Index, y \in Clone : idx'[y] = i \/ Idle(y)' =>
            /\ idx[y] = i \/ Idle(y)
            /\ \A a \in Prod : Rising(Chain(i, y), Of(a)) => Rising(Chain(i, y)', Of(a))
  PROVE  OnceInv'
<1>1. \A a \in Prod : Of(a)' = Of(a)
  BY DEF Of, ReplyUnit
<1>2. Ordered'
  <2>1. ASSUME NEW i \in Index, NEW y \in Clone, idx'[y] = i \/ Idle(y)', NEW a \in Prod
        PROVE  Rising(Chain(i, y)', Of(a))
    <3>1. Rising(Chain(i, y), Of(a))
      BY <2>1 DEF OnceInv, Ordered
    <3> QED  BY <2>1, <3>1
  <2> QED  BY <1>1, <2>1 DEF Ordered, Rising
<1>3. GivenUp'
  <2>1. ASSUME NEW u \in dropped PROVE \E b \in Prod : \E m \in 1 .. Mark(b)' : u = ReplyUnit(b, m)
    <3>1. PICK b \in Prod : \E m \in 1 .. Mark(b) : u = ReplyUnit(b, m)
      BY DEF OnceInv, GivenUp
    <3>2. PICK m \in 1 .. Mark(b) : u = ReplyUnit(b, m)
      BY <3>1
    <3>3. m \in 1 .. Mark(b)'
      BY MarkCounts
    <3> QED  BY <3>2, <3>3
  <2>2. ASSUME NEW y \in Clone PROVE Played(y)' \cap dropped = {}
    BY DEF OnceInv, GivenUp
  <2>3. ASSUME NEW i \in Index PROVE Units(pipes'[i]) \cap dropped = {}
    BY DEF OnceInv, GivenUp
  <2> QED  BY <2>1, <2>2, <2>3 DEF GivenUp, ReplyUnit, Units
<1> QED  BY <1>2, <1>3 DEF OnceInv

\* A step that moves no reply on its way from the pipes.
LEMMA OnceQuiet ==
  ASSUME ReplayInv, OnceInv, UNCHANGED <<pipes, dropped>>,
         \A a \in Prod : Mark(a)' \in Nat /\ Mark(a) =< Mark(a)',
         \A y \in Clone : /\ UNCHANGED <<got[y], outq[y]>> /\ Rest(y)' = Rest(y)
                          /\ Idle(y)' => Idle(y)
                          /\ idx'[y] = idx[y] \/ Idle(y)
  PROVE  OnceInv'
<1>1. ASSUME NEW y \in Clone
      PROVE  /\ Played(y)' = Played(y)
             /\ \A i \in Index : Chain(i, y)' = Chain(i, y)
  BY DEF Played, Chain, Line
<1>2. Apart'
  BY <1>1 DEF OnceInv, Apart
<1>3. \A i \in Index, y \in Clone : idx'[y] = i \/ Idle(y)' =>
         /\ idx[y] = i \/ Idle(y)
         /\ \A a \in Prod : Rising(Chain(i, y), Of(a)) => Rising(Chain(i, y)', Of(a))
  BY <1>1
<1> QED  BY <1>1, <1>2, <1>3, OnceStep

----------------------------------------------------------------------------
(* Steps that have nothing to do with the replies.                         *)

\* W2, the pipes and what the clone can read are as before, and so is R2, unless it ends
\* with nothing in its hands.
Aloof ==
    /\ UNCHANGED <<pipes, dropped>>
    /\ \A a \in Prod :
          /\ UNCHANGED <<pc[<<a, "W2">>], buf[<<a, "W2">>], inq[Backend[a]], sent[Backend[a]]>>
          /\ idx'[a] = idx[a] \/ pc[<<a, "W2">>] = "none"
    /\ \A y \in Clone :
          /\ \/ UNCHANGED <<pc[<<y, "R2">>], buf[<<y, "R2">>], off[<<y, "R2">>]>>
             \/ {pc[<<y, "R2">>], pc'[<<y, "R2">>]} \subseteq Ending
          /\ UNCHANGED <<got[y], outq[y]>>
          /\ Idle(y)' => Idle(y)
          /\ idx'[y] = idx[y] \/ Idle(y)

\* A writer is done with no less than before when nothing of its moves.
LEMMA MarkStill ==
  ASSUME ReplayInv, NEW a \in Prod, Working(a)' <=> Working(a), Owed(a)' = Owed(a),
         UNCHANGED <<inq[Backend[a]], sent[Backend[a]]>>
  PROVE  Mark(a)' \in Nat /\ Mark(a) =< Mark(a)'
<1>1. Mark(a)' = Mark(a)
  BY DEF Mark
<1> QED  BY <1>1, MarkCounts

LEMMA AloofOnce ==
  ASSUME ReplayInv, OnceInv, Aloof
  PROVE  OnceInv'
<1>1. ASSUME NEW a \in Prod PROVE Mark(a)' \in Nat /\ Mark(a) =< Mark(a)'
  <2>1. (Working(a)' <=> Working(a)) /\ Owed(a)' = Owed(a)
    BY DEF Aloof, Working, Owed
  <2> QED  BY <2>1, MarkStill DEF Aloof
<1>2. ASSUME NEW y \in Clone PROVE Rest(y)' = Rest(y)
  BY DEF Aloof, Rest, Ending
<1> QED  BY <1>1, <1>2, OnceQuiet DEF Aloof

\* The handlers, but for the fork() of W2 or R2.
LEMMA HandlersAloof ==
  ASSUME ReplayInv, NEW x \in Conn,
         \/ Accept(x) \/ CreateConnection(x) \/ CheckOrder(x) \/ GetCounter(x)
         \/ increment_shm_counter(x) \/ ForkFirst(x) \/ Terminated(x)
  PROVE  Aloof /\ UNCHANGED <<got, sent>>
<1>1. /\ UNCHANGED <<buf, off, got, outq, sent, inq>> /\ UNCHANGED <<pipes, dropped>>
  BY DEF Accept, CreateConnection, CheckOrder, GetCounter, increment_shm_counter, Lock, Load,
         Store, Unlock, Inner, ForkFirst, Fork, Terminated, Connected, sockVars, pipeVars
<1>2. /\ pc \in [Proc -> Step] /\ idx \in [Conn -> Nat] /\ Handler(x) \in Proc /\ ForkInv
  BY Procs DEF ReplayInv, StartInv, IsolInv, ProcInv, LoopInv, CounterInv, CounterTypes
<1>3. ASSUME NEW p \in Proc, p[2] \in {"W2", "R2", "R3"} PROVE pc'[p] = pc[p]
  <2>1. p # Handler(x) /\ p # <<x, "W1">> /\ p # <<x, "R1">>
    BY <1>3 DEF Handler
  <2>2. CASE ForkFirst(x)
    <3>1. \/ \E r \in {"W1", "R1"} :
                pc' = [pc EXCEPT ![<<x, r>>] = "recv", ![Handler(x)] = "fork2"]
          \/ pc' = [pc EXCEPT ![Handler(x)] = "fork2"]
      BY <2>2 DEF ForkFirst, Fork, Goto
    <3> QED  BY <1>2, <2>1, <3>1
  <2>3. CASE \/ Accept(x) \/ CreateConnection(x) \/ CheckOrder(x) \/ GetCounter(x)
             \/ increment_shm_counter(x) \/ Terminated(x)
    <3>1. \E next : Goto(Handler(x), next)
      BY <2>3 DEF Accept, CreateConnection, CheckOrder, GetCounter, increment_shm_counter, Lock,
                  Load, Store, Unlock, Inner, Terminated
    <3> QED  BY <1>2, <2>1, <3>1 DEF Goto
  <2> QED  BY <2>2, <2>3
<1>4. \A y \in Conn : idx'[y] = idx[y] \/ (y = x /\ pc[Handler(x)] \in Unforked)
  BY <1>2 DEF Accept, CreateConnection, CheckOrder, GetCounter, increment_shm_counter, Lock, Load,
              Store, Unlock, Inner, ForkFirst, Fork, Terminated, aggVars, Unforked
<1>5. ASSUME NEW a \in Prod
      PROVE  /\ pc'[<<a, "W2">>] = pc[<<a, "W2">>]
             /\ idx'[a] = idx[a] \/ pc[<<a, "W2">>] = "none"
  <2>1. a \in Conn /\ <<a, "W2">> \in Proc
    BY Procs
  <2> QED  BY <1>2, <1>3, <1>4, <2>1 DEF ForkInv
<1>6. ASSUME NEW y \in Clone
      PROVE  /\ pc'[<<y, "R2">>] = pc[<<y, "R2">>] /\ pc'[<<y, "R3">>] = pc[<<y, "R3">>]
             /\ idx'[y] = idx[y] \/ Idle(y)
  <2>1. y \in Conn /\ <<y, "R2">> \in Proc /\ <<y, "R3">> \in Proc
    BY Procs
  <2> QED  BY <1>2, <1>3, <1>4, <2>1 DEF ForkInv, Idle
<1>7. \A y \in Clone : Idle(y)' => Idle(y)
  BY <1>6 DEF Idle
<1> QED  BY <1>1, <1>5, <1>6, <1>7 DEF Aloof

\* A step of a worker that is not W2, nor R2 before its loop ends, and uses no pipe.
LEMMA WorkerAloof ==
  ASSUME ReplayInv, NEW x \in Conn, NEW r \in {"W1", "R1", "R2", "R3"}, pc'[<<x, r>>] # "none",
         r = "R2" => {pc[<<x, r>>], pc'[<<x, r>>]} \subseteq Ending,
         \A p \in Proc : p # <<x, r>> => /\ UNCHANGED <<buf[p], off[p]>>
                                         /\ pc'[p] = pc[p] \/ (p[2] = "R3" /\ pc'[p] # "none"),
         UNCHANGED <<got, sent, idx, pipes, dropped>>,
         \A s \in Conn : outq'[s] = outq[s],
         \A a \in Prod : inq'[Backend[a]] = inq[Backend[a]]
  PROVE  Aloof
<1>1. ASSUME NEW a \in Prod
      PROVE  UNCHANGED <<pc[<<a, "W2">>], buf[<<a, "W2">>], inq[Backend[a]], sent[Backend[a]]>>
  <2>1. <<a, "W2">> \in Proc /\ <<a, "W2">> # <<x, r>>
    BY Procs
  <2> QED  BY <2>1
<1>2. ASSUME NEW y \in Clone
      PROVE  /\ \/ UNCHANGED <<pc[<<y, "R2">>], buf[<<y, "R2">>], off[<<y, "R2">>]>>
                \/ {pc[<<y, "R2">>], pc'[<<y, "R2">>]} \subseteq Ending
             /\ UNCHANGED <<got[y], outq[y]>>
             /\ Idle(y)' => Idle(y)
  <2>1. y \in Conn /\ <<y, "R2">> \in Proc /\ <<y, "R3">> \in Proc
    BY Procs
  <2>2. UNCHANGED <<got[y], outq[y]>>
    BY <2>1
  <2>3. /\ \/ UNCHANGED <<pc[<<y, "R2">>], buf[<<y, "R2">>], off[<<y, "R2">>]>>
           \/ {pc[<<y, "R2">>], pc'[<<y, "R2">>]} \subseteq Ending
        /\ pc'[<<y, "R2">>] = "none" => pc[<<y, "R2">>] = "none"
    <3>1. CASE <<y, "R2">> = <<x, r>>
      BY <3>1 DEF Ending
    <3>2. CASE <<y, "R2">> # <<x, r>>
      BY <2>1, <3>2
    <3> QED  BY <3>1, <3>2
  <2>4. pc'[<<y, "R3">>] = "none" => pc[<<y, "R3">>] = "none"
    <3>1. CASE <<y, "R3">> = <<x, r>>
      BY <3>1
    <3>2. CASE <<y, "R3">> # <<x, r>>
      BY <2>1, <3>2
    <3> QED  BY <3>1, <3>2
  <2> QED  BY <2>2, <2>3, <2>4 DEF Idle
<1> QED  BY <1>1, <1>2 DEF Aloof

\* W1, R1, and R3 when it loses what it has read.
LEMMA W1Aloof ==
  ASSUME ReplayInv, NEW x \in Prod, W1(x)
  PROVE  Aloof /\ UNCHANGED <<got, sent>>
<1> DEFINE q == <<x, "W1">>
<1>1. /\ LoopInv(Proc, Step, {"send"}) /\ q \in Proc /\ x \in Conn /\ x \in Sock
      /\ Backend[x] \in Sock /\ Backend[x] \notin Conn
      /\ \A a \in Prod : Backend[a] \in Sock /\ Backend[a] # x
      /\ \A s \in Conn : s \in Sock
  BY Procs, Socks DEF ReplayInv, StartInv, IsolInv, ProcInv
<1>2. /\ UNCHANGED <<aggVars, pipeVars>>
      /\ \/ Recv(q, x, "send", "shut1") \/ Send(q, "send", Backend[x], "recv")
         \/ Shut(q, "shut1", Backend[x], "shut2") \/ Shut(q, "shut2", x, "done")
  BY DEF W1, forward_data, Shut2
<1>3. pc'[q] # "none" /\ UNCHANGED <<got, sent, idx, pipes, dropped>>
  BY <1>1, <1>2 DEF Recv, Send, Shut, Receive, Transmit, ShutDown, Goto, sockVars, LoopInv,
                    aggVars, pipeVars
<1>4. /\ \A s \in Conn : outq'[s] = outq[s]
      /\ \A a \in Prod : inq'[Backend[a]] = inq[Backend[a]]
  BY <1>1, <1>2 DEF Recv, Send, Shut, Receive, Transmit, ShutDown, sockVars, LoopInv, SockTypeOK
<1>5. \A p \in Proc : p # q => UNCHANGED <<pc[p], buf[p], off[p]>>
  <2>1. \A p \in Proc : p # q => pc'[p] = pc[p]
    BY <1>1, <1>2 DEF Recv, Send, Shut, Goto, LoopInv
  <2>2. \A p \in Proc : p # q => buf'[p] = buf[p]
    BY <1>1, <1>2 DEF Recv, Send, Shut, Drop, LoopInv
  <2>3. \A p \in Proc : p # q => off'[p] = off[p]
    BY <1>1, <1>2 DEF Recv, Send, Shut, LoopInv
  <2> QED  BY <2>1, <2>2, <2>3
<1> QED  BY <1>1, <1>3, <1>4, <1>5, WorkerAloof

LEMMA R1Aloof ==
  ASSUME ReplayInv, NEW x \in Clone, R1(x)
  PROVE  Aloof /\ UNCHANGED <<got, sent>>
<1> DEFINE q == <<x, "R1">>
<1>1. /\ LoopInv(Proc, Step, {"send"}) /\ q \in Proc /\ x \in Conn /\ x \in Sock
      /\ \A a \in Prod : Backend[a] \in Sock /\ Backend[a] # x
      /\ <<x, "R3">> \in Proc
  BY Procs, Socks DEF ReplayInv, StartInv, IsolInv, ProcInv
<1>2. /\ UNCHANGED <<aggVars, pipeVars>>
      /\ \/ Drain(q, x) \/ DrainEnd(q, x) \/ Shut(q, "shut1", x, "fork")
         \/ /\ pc[q] = "fork"
            /\ \/ pc' = [pc EXCEPT ![q] = "done", ![<<x, "R3">>] = "recv"]
               \/ Goto(q, "done")
            /\ UNCHANGED <<sockVars, buf, off>>
  BY DEF R1, read_data_and_drop
<1>3. pc'[q] # "none" /\ UNCHANGED <<got, sent, outq, buf, off, idx, pipes, dropped>>
  BY <1>1, <1>2 DEF Drain, DrainEnd, Shut, Receive, ShutDown, Goto, sockVars, LoopInv, aggVars,
                    pipeVars
<1>4. \A a \in Prod : inq'[Backend[a]] = inq[Backend[a]]
  BY <1>1, <1>2 DEF Drain, DrainEnd, Shut, Receive, ShutDown, sockVars, LoopInv, SockTypeOK
<1>5. \A p \in Proc : p # q => pc'[p] = pc[p] \/ (p[2] = "R3" /\ pc'[p] # "none")
  <2>1. CASE pc' = [pc EXCEPT ![q] = "done", ![<<x, "R3">>] = "recv"]
    <3>1. \A p \in Proc : p # q /\ p # <<x, "R3">> => pc'[p] = pc[p]
      BY <1>1, <2>1 DEF LoopInv
    <3>2. pc'[<<x, "R3">>] = "recv"
      BY <1>1, <2>1 DEF LoopInv
    <3>3. <<x, "R3">>[2] = "R3"
      OBVIOUS
    <3> QED  BY <3>1, <3>2, <3>3
  <2>2. CASE Drain(q, x) \/ DrainEnd(q, x) \/ Shut(q, "shut1", x, "fork") \/ Goto(q, "done")
    BY <1>1, <2>2 DEF Drain, DrainEnd, Shut, Goto, LoopInv
  <2> QED  BY <1>2, <2>1, <2>2
<1> QED  BY <1>1, <1>3, <1>4, <1>5, WorkerAloof

LEMMA LostAloof ==
  ASSUME ReplayInv, NEW x \in Clone, Goto(<<x, "R3">>, "recv"), Drop(<<x, "R3">>, "recv"),
         UNCHANGED <<sockVars, off, aggVars, pipeVars>>
  PROVE  Aloof /\ UNCHANGED <<got, sent>>
<1>1. LoopInv(Proc, Step, {"send"}) /\ <<x, "R3">> \in Proc /\ x \in Conn
  BY Procs DEF ReplayInv, StartInv, IsolInv, ProcInv
<1>2. /\ pc'[<<x, "R3">>] # "none"
      /\ \A p \in Proc : p # <<x, "R3">> => UNCHANGED <<pc[p], buf[p], off[p]>>
  BY <1>1 DEF Goto, Drop, LoopInv
<1>3. UNCHANGED <<got, sent, inq, outq, idx, pipes, dropped>>
  BY DEF sockVars, aggVars, pipeVars
<1> QED  BY <1>1, <1>2, <1>3, WorkerAloof

\* R2 and R3 of a connection without a pipe, and R2 after its loop.
LEMMA AstrayAloof ==
  ASSUME ReplayInv, NEW y \in Clone, NEW r \in {"R2", "R3"},
         \/ \E next \in {"shut1", "done"} : ReadAstray(<<y, r>>, next)
         \/ Shut(<<y, r>>, "shut1", y, "done") /\ UNCHANGED pipeVars,
         UNCHANGED aggVars
  PROVE  Aloof /\ UNCHANGED <<got, sent>>
<1>1. LoopInv(Proc, Step, {"send"}) /\ <<y, r>> \in Proc /\ y \in Conn
  BY Procs DEF ReplayInv, StartInv, IsolInv, ProcInv
<1>2. /\ {pc[<<y, r>>], pc'[<<y, r>>]} \subseteq Ending /\ pc'[<<y, r>>] # "none"
      /\ \A p \in Proc : p # <<y, r>> => UNCHANGED <<pc[p], buf[p], off[p]>>
  <2>1. \E next \in {"shut1", "done"} :
           /\ pc[<<y, r>>] \in {"recv", "shut1"} /\ pc' = [pc EXCEPT ![<<y, r>>] = next]
           /\ UNCHANGED <<buf, off>>
    BY DEF ReadAstray, Shut, Goto
  <2> QED  BY <1>1, <2>1 DEF Ending, LoopInv
<1>3. /\ UNCHANGED <<got, sent, idx, pipes, dropped>>
      /\ \A s \in Conn : outq'[s] = outq[s]
      /\ \A a \in Prod : inq'[Backend[a]] = inq[Backend[a]]
  <2>1. /\ \A a \in Prod : Backend[a] \in Sock /\ Backend[a] # y
        /\ y \in Sock
    BY Socks
  <2> QED  BY <1>1, <2>1 DEF ReadAstray, Shut, ShutDown, LoopInv, SockTypeOK, sockVars, aggVars, pipeVars
<1>4. /\ r \in {"W1", "R1", "R2", "R3"}
      /\ r = "R2" => {pc[<<y, r>>], pc'[<<y, r>>]} \subseteq Ending
      /\ \A p \in Proc : p # <<y, r>> => /\ UNCHANGED <<buf[p], off[p]>>
                                         /\ pc'[p] = pc[p] \/ (p[2] = "R3" /\ pc'[p] # "none")
  BY <1>2
<1>5. Aloof
  BY <1>1, <1>2, <1>3, <1>4, WorkerAloof, Zenon
<1> QED  BY <1>3, <1>5

\* The peers, but for a clone that reads or is reset and a backend that writes.
LEMMA PeersAloof ==
  ASSUME ReplayInv, NEW s \in Sock,
         \/ s \notin Clone /\ (Reads(s) \/ Resets(s))
         \/ s \in Conn /\ Writes(s)
         \/ Quits(s)
  PROVE  Aloof
<1>1. /\ SockTypeOK /\ UNCHANGED <<pc, buf, off, idx, pipes, dropped>>
      /\ \A a \in Prod : Backend[a] \in Sock /\ Backend[a] \notin Conn
      /\ \A y \in Clone : y \in Sock /\ y \in Conn
  BY Socks DEF ReplayInv, StartInv, IsolInv, ProcInv, LoopInv, Reads, Resets, Writes, Quits,
               procVars, aggVars, pipeVars
<1>2. ASSUME NEW a \in Prod PROVE UNCHANGED <<inq[Backend[a]], sent[Backend[a]]>>
  <2>1. CASE Reads(s) \/ Resets(s) \/ Quits(s)
    BY <2>1 DEF Reads, Resets, Quits, PeerRead, Reset, PeerHalfClose, PeerClose
  <2>2. CASE s \in Conn /\ Writes(s)
    BY <1>1, <2>2 DEF Writes, PeerWrite, SockTypeOK
  <2> QED  BY <2>1, <2>2
<1>3. ASSUME NEW y \in Clone PROVE UNCHANGED <<got[y], outq[y]>>
  <2>1. CASE s \notin Clone /\ (Reads(s) \/ Resets(s))
    BY <1>1, <2>1 DEF Reads, Resets, PeerRead, Reset, SockTypeOK
  <2>2. CASE Writes(s) \/ Quits(s)
    BY <2>2 DEF Writes, Quits, PeerWrite, PeerHalfClose, PeerClose
  <2> QED  BY <2>1, <2>2
<1> QED  BY <1>1, <1>2, <1>3 DEF Aloof, Idle

\* The fork() of W2 or of R2: nothing is on its way yet.
LEMMA ForkSecondOnce ==
  ASSUME ReplayInv, OnceInv, NEW x \in Conn, ForkSecond(x)
  PROVE  OnceInv'
<1>1. PICK r \in {"W2", "R2"} :
         /\ Fork(x, "fork2", r, "done") /\ <<x, r>> \in Proc
         /\ (x \in Prod /\ r = "W2") \/ (x \in Clone /\ r = "R2")
  <2>1. x \in Prod \/ (x \in Clone /\ x \notin Prod)
    BY ConnAssumption DEF Conn
  <2>2. CASE x \in Prod
    <3>1. Fork(x, "fork2", "W2", "done") /\ <<x, "W2">> \in Proc
      BY <2>2, Procs DEF ForkSecond
    <3>2. "W2" \in {"W2", "R2"}
      OBVIOUS
    <3> QED  BY <2>2, <3>1, <3>2
  <2>3. CASE x \in Clone /\ x \notin Prod
    <3>1. Fork(x, "fork2", "R2", "done") /\ <<x, "R2">> \in Proc
      BY <2>3, Procs DEF ForkSecond
    <3>2. "R2" \in {"W2", "R2"}
      OBVIOUS
    <3> QED  BY <2>3, <3>1, <3>2
  <2> QED  BY <2>1, <2>2, <2>3
<1>2. /\ pc \in [Proc -> Step] /\ Handler(x) \in Proc /\ <<x, r>> # Handler(x)
      /\ pc[<<x, r>>] = "none"
  <2>1. pc \in [Proc -> Step] /\ ForkInv /\ pc[Handler(x)] = "fork2"
    BY <1>1 DEF ReplayInv, StartInv, IsolInv, ProcInv, LoopInv, Fork
  <2>2. Handler(x) \in Proc /\ r # "H" /\ Handler(x)[2] = "H"
    BY Procs DEF Handler
  <2>3. pc[<<x, r>>] = "none"
    <3>1. CASE x \in Prod /\ r = "W2"
      BY <1>1, <2>1, <3>1 DEF ForkInv
    <3>2. CASE x \in Clone /\ r = "R2"
      BY <1>1, <2>1, <3>2 DEF ForkInv
    <3> QED  BY <1>1, <3>1, <3>2
  <2> QED  BY <2>1, <2>2, <2>3
<1>3. /\ \A p \in Proc : p # Handler(x) /\ p # <<x, r>> => pc'[p] = pc[p]
      /\ pc'[<<x, r>>] \in {"recv", "none"}
      /\ UNCHANGED <<inq, outq, got, sent, buf, off, idx, pipes, dropped>>
  <2>1. \E w \in {"recv", "none"} :
           pc' = [pc EXCEPT ![<<x, r>>] = w, ![Handler(x)] = "done"]
    BY <1>1, <1>2, ForkEffect
  <2> QED  BY <1>1, <1>2, <2>1 DEF Fork, sockVars, aggVars, pipeVars
<1>4. ASSUME NEW p \in Proc, p[2] # "H" PROVE pc'[p] = pc[p] \/ (pc[p] = "none" /\ pc'[p] = "recv")
  <2>1. p # Handler(x)
    BY <1>4 DEF Handler
  <2> QED  BY <1>2, <1>3, <2>1
<1>5. ASSUME NEW a \in Prod PROVE Mark(a)' \in Nat /\ Mark(a) =< Mark(a)'
  <2>1. LET p == <<a, "W2">> IN pc'[p] = pc[p] \/ (pc[p] = "none" /\ pc'[p] = "recv")
    BY <1>4, Procs
  <2>2. (Working(a)' <=> Working(a)) /\ Owed(a)' = Owed(a)
    BY <1>3, <2>1 DEF Working, Owed, Holding
  <2> QED  BY <1>3, <2>2, MarkStill
<1>6. ASSUME NEW y \in Clone PROVE Rest(y)' = Rest(y) /\ (Idle(y)' => Idle(y))
  <2>1. /\ LET p == <<y, "R2">> IN pc'[p] = pc[p] \/ (pc[p] = "none" /\ pc'[p] = "recv")
        /\ LET p == <<y, "R3">> IN pc'[p] = pc[p] \/ (pc[p] = "none" /\ pc'[p] = "recv")
    BY <1>4, Procs
  <2> QED  BY <1>3, <2>1 DEF Rest, Idle
<1> QED  BY <1>3, <1>5, <1>6, OnceQuiet

----------------------------------------------------------------------------
(* W2.                                                                     *)

\* What a step of W2 leaves alone.
LEMMA W2Aside ==
  ASSUME ReplayInv, NEW x \in Prod, UNCHANGED <<got, sent>>,
         \A p \in Proc : p # <<x, "W2">> => UNCHANGED <<pc[p], buf[p], off[p]>>,
         \A s \in Conn : s # x => outq'[s] = outq[s],
         \A a \in Prod : a # x => inq'[Backend[a]] = inq[Backend[a]],
         Mark(x)' \in Nat, Mark(x) =< Mark(x)'
  PROVE  /\ \A a \in Prod : Mark(a)' \in Nat /\ Mark(a) =< Mark(a)'
         /\ \A y \in Clone : /\ UNCHANGED <<got[y], outq[y]>> /\ Rest(y)' = Rest(y)
                             /\ Idle(y)' <=> Idle(y)
<1>1. ASSUME NEW a \in Prod PROVE Mark(a)' \in Nat /\ Mark(a) =< Mark(a)'
  <2>1. CASE a = x
    BY <2>1
  <2>2. CASE a # x
    <3>1. <<a, "W2">> \in Proc /\ <<a, "W2">> # <<x, "W2">>
      BY <2>2, Procs
    <3>2. (Working(a)' <=> Working(a)) /\ Owed(a)' = Owed(a)
      BY <3>1 DEF Working, Owed
    <3> QED  BY <2>2, <3>2, MarkStill
  <2> QED  BY <2>1, <2>2
<1>2. ASSUME NEW y \in Clone
      PROVE  /\ UNCHANGED <<got[y], outq[y]>> /\ Rest(y)' = Rest(y)
             /\ Idle(y)' <=> Idle(y)
  <2>1. /\ y \in Conn /\ y # x /\ <<y, "R2">> \in Proc /\ <<y, "R3">> \in Proc
        /\ <<y, "R2">> # <<x, "W2">> /\ <<y, "R3">> # <<x, "W2">>
    BY Procs, Socks
  <2> QED  BY <2>1 DEF Rest, Idle
<1> QED  BY <1>1, <1>2

\* recv(), send() and the end of the loop.
LEMMA W2QuietOnce ==
  ASSUME ReplayInv, OnceInv, NEW x \in Prod, UNCHANGED <<aggVars, pipeVars>>,
         \/ Recv(<<x, "W2">>, Backend[x], "send", "shut1")
         \/ Send(<<x, "W2">>, "send", x, "write")
         \/ Shut2(<<x, "W2">>, x, Backend[x])
  PROVE  OnceInv' /\ UNCHANGED <<got, sent>>
<1> DEFINE q == <<x, "W2">>
<1>1. /\ LoopInv(Proc, Step, {"send"}) /\ q \in Proc /\ x \in Conn
      /\ \A s \in Conn : s \in Sock
      /\ \A a \in Prod : Backend[a] \in Sock /\ (a # x => Backend[a] # Backend[x])
  BY Procs, Socks DEF ReplayInv, StartInv, IsolInv, ProcInv
<1>2. Mark(x)' \in Nat /\ Mark(x) =< Mark(x)'
  BY W2RecvCopy, W2SendCopy DEF Shut2
<1>3. \A p \in Proc : p # q => UNCHANGED <<pc[p], buf[p], off[p]>>
  <2>1. \A p \in Proc : p # q => pc'[p] = pc[p]
    BY <1>1 DEF Recv, Send, Shut2, Shut, Goto, LoopInv
  <2>2. \A p \in Proc : p # q => buf'[p] = buf[p]
    BY <1>1 DEF Recv, Send, Shut2, Shut, Drop, LoopInv
  <2>3. \A p \in Proc : p # q => off'[p] = off[p]
    BY <1>1 DEF Recv, Send, Shut2, Shut, LoopInv
  <2> QED  BY <2>1, <2>2, <2>3
<1>4. UNCHANGED <<got, sent, idx, pipes, dropped>>
  BY DEF Recv, Send, Shut2, Shut, Receive, Transmit, ShutDown, sockVars, aggVars, pipeVars
<1>5. \A s \in Conn : s # x => outq'[s] = outq[s]
  BY <1>1 DEF Recv, Send, Shut2, Shut, Receive, Transmit, ShutDown, sockVars, LoopInv, SockTypeOK
<1>6. \A a \in Prod : a # x => inq'[Backend[a]] = inq[Backend[a]]
  BY <1>1 DEF Recv, Send, Shut2, Shut, Receive, Transmit, ShutDown, sockVars, LoopInv, SockTypeOK
<1>7. /\ \A a \in Prod : Mark(a)' \in Nat /\ Mark(a) =< Mark(a)'
      /\ \A y \in Clone : /\ UNCHANGED <<got[y], outq[y]>> /\ Rest(y)' = Rest(y)
                          /\ Idle(y)' <=> Idle(y)
  BY <1>2, <1>3, <1>4, <1>5, <1>6, W2Aside
<1> QED  BY <1>4, <1>7, OnceQuiet

\* A reply is of one connection only.
LEMMA OfOne ==
  ASSUME NEW x \in Prod, NEW n \in 1 .. MaxSent[Backend[x]], NEW a \in Prod,
         ReplyUnit(x, n) \in Of(a)
  PROVE  a = x
<1>1. PICK m \in 1 .. MaxSent[Backend[a]] : ReplyUnit(x, n) = ReplyUnit(a, m)
  BY DEF Of
<1> QED  BY <1>1, UnitsAssumption DEF ReplyUnit

LEMMA SameNumber ==
  ASSUME ReplayInv, NEW x \in Prod, NEW n \in Int, NEW m \in Int,
         ReplyUnit(x, n) = ReplyUnit(x, m)
  PROVE  n = m
<1>1. Base[Backend[x]] \in Nat
  BY ProdCounts
<1> QED  BY <1>1 DEF ReplyUnit

\* A reply that W2 is not done with is nowhere yet.
LEMMA Unseen ==
  ASSUME ReplayInv, OnceInv, NEW x \in Prod, NEW n \in 1 .. MaxSent[Backend[x]], n > Mark(x)
  PROVE  /\ ReplyUnit(x, n) \notin dropped
         /\ \A i \in Index : ReplyUnit(x, n) \notin Copies(i) \cup Units(pipes[i])
         /\ \A y \in Clone : ReplyUnit(x, n) \notin Played(y)
<1> DEFINE u == ReplyUnit(x, n)
<1>1. Mark(x) \in Nat /\ MaxSent[Backend[x]] \in Nat
  BY MarkCounts, ProdCounts
<1>2. u \notin dropped
  <2> SUFFICES ASSUME u \in dropped PROVE FALSE
    OBVIOUS
  <2>1. PICK b \in Prod : \E m \in 1 .. Mark(b) : u = ReplyUnit(b, m)
    BY DEF OnceInv, GivenUp
  <2>2. PICK m \in 1 .. Mark(b) : u = ReplyUnit(b, m)
    BY <2>1
  <2>3. m \in 1 .. MaxSent[Backend[b]]
    <3>1. Mark(b) \in Nat /\ MaxSent[Backend[b]] \in Nat /\ Mark(b) =< MaxSent[Backend[b]]
      BY MarkCounts, ProdCounts
    <3> QED  BY <3>1
  <2>4. b = x
    BY <2>2, <2>3, UnitsAssumption DEF ReplyUnit
  <2>5. n = m
    BY <2>2, <2>4, SameNumber
  <2> QED  BY <1>1, <2>4, <2>5
<1>3. ASSUME NEW i \in Index, u \in Copies(i) PROVE FALSE
  <2>1. n =< Mark(x)
    BY <1>3, SourceOf
  <2> QED  BY <1>1, <2>1
<1>4. ASSUME NEW i \in Index PROVE u \notin Copies(i) \cup Units(pipes[i])
  BY <1>3 DEF Copies
<1>5. \A y \in Clone : u \notin Played(y)
  BY <1>3, PlayedFrom
<1> QED  BY <1>2, <1>4, <1>5

\* The replies that W2 is about to write are in order, and nowhere yet.
LEMMA Fresh ==
  ASSUME ReplayInv, OnceInv, NEW x \in Prod, UNCHANGED aggVars,
         WritePipe(<<x, "W2">>, idx[x], "recv") \/ WriteAstray(<<x, "W2">>, "recv")
  PROVE  /\ \A S : Rising(buf[<<x, "W2">>], S)
         /\ \A u \in Units(buf[<<x, "W2">>]) : \E n \in Mark(x) + 1 .. Mark(x)' :
               n \in 1 .. MaxSent[Backend[x]] /\ u = ReplyUnit(x, n)
         /\ Units(buf[<<x, "W2">>]) \cap dropped = {}
         /\ \A i \in Index : Units(buf[<<x, "W2">>]) \cap Units(pipes[i]) = {}
         /\ \A y \in Clone : Units(buf[<<x, "W2">>]) \cap Played(y) = {}
<1> DEFINE b == buf[<<x, "W2">>]
<1>1. /\ Mark(x)' = Mark(x) + Len(b) /\ Mark(x)' =< MaxSent[Backend[x]]
      /\ Mark(x) \in Nat /\ Mark(x)' \in Nat
      /\ \A k \in 1 .. Len(b) : b[k] = ReplyUnit(x, Mark(x) + k)
  BY Written
<1>2. /\ b \in Seq(Nat) /\ Len(b) \in Nat /\ Base[Backend[x]] \in Nat
      /\ MaxSent[Backend[x]] \in Nat
  BY ProdCounts
<1> HIDE DEF b
<1>3. ASSUME NEW S PROVE Rising(b, S)
  <2>1. ASSUME NEW i \in 1 .. Len(b), NEW j \in 1 .. Len(b), i < j PROVE b[i] < b[j]
    <3>1. b[i] = Base[Backend[x]] + (Mark(x) + i) /\ b[j] = Base[Backend[x]] + (Mark(x) + j)
      BY <1>1 DEF ReplyUnit
    <3> QED  BY <1>1, <1>2, <2>1, <3>1
  <2> QED  BY <2>1 DEF Rising
<1>4. ASSUME NEW u \in Units(b)
      PROVE  \E n \in Mark(x) + 1 .. Mark(x)' : n \in 1 .. MaxSent[Backend[x]] /\ u = ReplyUnit(x, n)
  <2>1. PICK k \in 1 .. Len(b) : u = b[k]
    BY DEF Units
  <2>2. /\ Mark(x) + k \in Mark(x) + 1 .. Mark(x)' /\ Mark(x) + k \in 1 .. MaxSent[Backend[x]]
    BY <1>1, <1>2
  <2> QED  BY <1>1, <2>1, <2>2
<1>5. ASSUME NEW u \in Units(b)
      PROVE  /\ u \notin dropped
             /\ \A i \in Index : u \notin Units(pipes[i])
             /\ \A y \in Clone : u \notin Played(y)
  <2>1. PICK n \in Mark(x) + 1 .. Mark(x)' : n \in 1 .. MaxSent[Backend[x]] /\ u = ReplyUnit(x, n)
    BY <1>4
  <2>2. n > Mark(x)
    BY <1>1
  <2> QED  BY <2>1, <2>2, Unseen
<1>6. /\ Units(b) \cap dropped = {}
      /\ \A i \in Index : Units(b) \cap Units(pipes[i]) = {}
      /\ \A y \in Clone : Units(b) \cap Played(y) = {}
  BY <1>5
<1> QED  BY <1>3, <1>4, <1>6 DEF b

\* The pipe has room: the replies go behind all that came through it.
LEMMA FitOnce ==
  ASSUME ReplayInv, OnceInv, NEW x \in Prod,
         WritePipe(<<x, "W2">>, idx[x], "recv"), UNCHANGED aggVars, Put(<<x, "W2">>, idx[x]),
         idx[x] \in Index
  PROVE  OnceInv'
<1> DEFINE q == <<x, "W2">>
           b == buf[q]
<1>1. /\ pc[q] = "write" /\ UNCHANGED <<inq, outq, got, sent, idx>>
      /\ \A p \in Proc : p # q => UNCHANGED <<pc[p], buf[p], off[p]>>
      /\ Mark(x)' = Mark(x) + Len(b) /\ Mark(x) \in Nat /\ Mark(x)' \in Nat
  BY Written
<1>0. PICK j \in Index : idx[x] = j
  OBVIOUS
<1>2. /\ j \in Index /\ b \in Seq(Nat) /\ Len(b) \in Nat /\ pipes \in [Index -> Seq(Nat)]
      /\ q \in Proc
  BY ProdCounts, Procs DEF ReplayInv, StartInv, IsolInv, ProcInv, PipeInv
<1>3. pipes'[j] = pipes[j] \o b /\ dropped' = dropped /\ \A i \in Index : i # j => pipes'[i] = pipes[i]
  BY <1>0, <1>2 DEF Put
<1>4. Units(pipes'[j]) = Units(pipes[j]) \cup Units(b)
  BY <1>2, <1>3, Splice
<1>5. /\ \A S : Rising(b, S)
      /\ \A u \in Units(b) : \E n \in Mark(x) + 1 .. Mark(x)' :
            n \in 1 .. MaxSent[Backend[x]] /\ u = ReplyUnit(x, n)
      /\ Units(b) \cap dropped = {}
  BY Fresh
<1> HIDE DEF q, b
<1>6. Mark(x) =< Mark(x)'
  BY <1>1, <1>2
<1>7. /\ \A a \in Prod : Mark(a)' \in Nat /\ Mark(a) =< Mark(a)'
      /\ \A y \in Clone : /\ UNCHANGED <<got[y], outq[y]>> /\ Rest(y)' = Rest(y)
                          /\ Idle(y)' <=> Idle(y)
  BY <1>1, <1>6, W2Aside DEF q
<1>8. ASSUME NEW y \in Clone PROVE Line(y)' = Line(y) /\ Played(y)' = Played(y)
  BY <1>7 DEF Line, Played
<1>9. ASSUME NEW y \in Clone, idx[y] = j \/ Idle(y), NEW a \in Prod
      PROVE  Rising(Chain(j, y)', Of(a))
  <2> DEFINE c == Chain(j, y)
  <2>1. /\ c \in Seq(Nat) /\ Line(y) \in Seq(Nat) /\ Rest(y) \in Seq(Nat) /\ pipes[j] \in Seq(Nat)
        /\ Units(c) = Played(y) \cup Units(pipes[j])
    BY <1>2, CloneParts
  <2>2. Chain(j, y)' = c \o b
    <3>1. Chain(j, y)' = Line(y) \o (Rest(y) \o (pipes[j] \o b))
      BY <1>3, <1>7, <1>8 DEF Chain
    <3>2. c = Line(y) \o (Rest(y) \o pipes[j])
      BY DEF Chain
    <3>3. Lengthened(Line(y), Rest(y), pipes[j], b)
      BY <1>2, <2>1, PutBehind
    <3> QED  BY <3>1, <3>2, <3>3, Zenon DEF Lengthened
  <2>3. Rising(c, Of(a))
    BY <1>2, <1>9 DEF OnceInv, Ordered
  <2>4. ASSUME NEW u \in Units(c) \cap Of(a), NEW v \in Units(b) \cap Of(a) PROVE u < v
    <3>1. u \in Copies(j)
      <4>1. Played(y) \subseteq Copies(j)
        BY <1>2, <1>9, PlayedIn
      <4> QED  BY <2>1, <4>1 DEF Copies
    <3>2. PICK n \in Mark(x) + 1 .. Mark(x)' : n \in 1 .. MaxSent[Backend[x]] /\ v = ReplyUnit(x, n)
      BY <1>5
    <3>3. a = x
      BY <3>2, OfOne
    <3>4. PICK m \in 1 .. MaxSent[Backend[x]] : u = ReplyUnit(x, m)
      BY <3>3 DEF Of
    <3>5. m =< Mark(x)
      BY <1>2, <3>1, <3>4, SourceOf
    <3>6. Base[Backend[x]] \in Nat
      BY ProdCounts
    <3> QED  BY <1>1, <3>2, <3>4, <3>5, <3>6 DEF ReplyUnit
  <2> HIDE DEF c
  <2>5. Rising(c \o b, Of(a))
    BY <1>2, <1>5, <2>1, <2>3, <2>4, RisingMore
  <2> QED  BY <2>2, <2>5
<1>10. Ordered'
  <2>1. ASSUME NEW i \in Index, NEW y \in Clone, idx'[y] = i \/ Idle(y)', NEW a \in Prod
        PROVE  Rising(Chain(i, y)', Of(a))
    <3>1. idx[y] = i \/ Idle(y)
      BY <1>1, <1>7, <2>1
    <3>2. CASE i = j
      BY <1>9, <3>1, <3>2
    <3>3. CASE i # j
      <4>1. Chain(i, y)' = Chain(i, y)
        BY <1>3, <1>7, <1>8, <3>3 DEF Chain
      <4>2. Rising(Chain(i, y), Of(a))
        BY <3>1 DEF OnceInv, Ordered
      <4> QED  BY <4>1, <4>2
    <3> QED  BY <3>2, <3>3
  <2>2. \A a \in Prod : Of(a)' = Of(a)
    BY DEF Of, ReplyUnit
  <2> QED  BY <2>1, <2>2 DEF Ordered, Rising
<1>11. Apart'
  BY <1>8 DEF OnceInv, Apart
<1>12. GivenUp'
  <2>1. ASSUME NEW u \in dropped' PROVE \E a \in Prod : \E m \in 1 .. Mark(a)' : u = ReplyUnit(a, m)
    <3>1. PICK a \in Prod : \E m \in 1 .. Mark(a) : u = ReplyUnit(a, m)
      BY <1>3, <2>1 DEF OnceInv, GivenUp
    <3>2. PICK m \in 1 .. Mark(a) : u = ReplyUnit(a, m)
      BY <3>1
    <3>3. m \in 1 .. Mark(a)'
      BY <1>7, MarkCounts
    <3> QED  BY <3>2, <3>3
  <2>2. \A y \in Clone : Played(y)' \cap dropped' = {}
    BY <1>3, <1>8 DEF OnceInv, GivenUp
  <2>3. \A i \in Index : Units(pipes'[i]) \cap dropped' = {}
    BY <1>3, <1>4, <1>5 DEF OnceInv, GivenUp
  <2> QED  BY <2>1, <2>2, <2>3 DEF GivenUp, ReplyUnit, Units
<1> QED  BY <1>10, <1>11, <1>12 DEF OnceInv

\* The pipe has no room, or there is none: the replies are given up, and none of them came
\* through.
LEMMA OverflowOnce ==
  ASSUME ReplayInv, OnceInv, NEW x \in Prod, UNCHANGED aggVars,
         \/ WritePipe(<<x, "W2">>, idx[x], "recv") /\ Refuse(<<x, "W2">>, idx[x])
         \/ WriteAstray(<<x, "W2">>, "recv")
  PROVE  OnceInv'
<1> DEFINE q == <<x, "W2">>
           b == buf[q]
<1>1. /\ pc[q] = "write" /\ UNCHANGED <<inq, outq, got, sent, idx>>
      /\ \A p \in Proc : p # q => UNCHANGED <<pc[p], buf[p], off[p]>>
      /\ Mark(x)' = Mark(x) + Len(b) /\ Mark(x) \in Nat /\ Mark(x)' \in Nat
  BY Written
<1>2. Len(b) \in Nat
  BY ProdCounts
<1>3. pipes' = pipes /\ dropped' \in {dropped, dropped \cup Units(b)}
  BY DEF Refuse, WriteAstray
<1>4. /\ \A u \in Units(b) : \E n \in Mark(x) + 1 .. Mark(x)' :
            n \in 1 .. MaxSent[Backend[x]] /\ u = ReplyUnit(x, n)
      /\ \A i \in Index : Units(b) \cap Units(pipes[i]) = {}
      /\ \A y \in Clone : Units(b) \cap Played(y) = {}
  BY Fresh
<1> HIDE DEF q, b
<1>5. Mark(x) =< Mark(x)'
  BY <1>1, <1>2
<1>6. /\ \A a \in Prod : Mark(a)' \in Nat /\ Mark(a) =< Mark(a)'
      /\ \A y \in Clone : /\ UNCHANGED <<got[y], outq[y]>> /\ Rest(y)' = Rest(y)
                          /\ Idle(y)' <=> Idle(y)
  BY <1>1, <1>5, W2Aside DEF q
<1>7. ASSUME NEW y \in Clone
      PROVE  Played(y)' = Played(y) /\ \A i \in Index : Chain(i, y)' = Chain(i, y)
  BY <1>3, <1>6 DEF Line, Played, Chain
<1>8. Ordered'
  <2>1. ASSUME NEW i \in Index, NEW y \in Clone, idx'[y] = i \/ Idle(y)', NEW a \in Prod
        PROVE  Rising(Chain(i, y)', Of(a))
    <3>1. Rising(Chain(i, y), Of(a))
      BY <1>1, <1>6, <2>1 DEF OnceInv, Ordered
    <3> QED  BY <1>7, <3>1
  <2>2. \A a \in Prod : Of(a)' = Of(a)
    BY DEF Of, ReplyUnit
  <2> QED  BY <2>1, <2>2 DEF Ordered, Rising
<1>9. Apart'
  BY <1>7 DEF OnceInv, Apart
<1>10. GivenUp'
  <2>1. ASSUME NEW u \in dropped' PROVE \E a \in Prod : \E m \in 1 .. Mark(a)' : u = ReplyUnit(a, m)
    <3>1. CASE u \in dropped
      <4>1. PICK a \in Prod : \E m \in 1 .. Mark(a) : u = ReplyUnit(a, m)
        BY <3>1 DEF OnceInv, GivenUp
      <4>2. PICK m \in 1 .. Mark(a) : u = ReplyUnit(a, m)
        BY <4>1
      <4>3. m \in 1 .. Mark(a)'
        BY <1>6, MarkCounts
      <4> QED  BY <4>2, <4>3
    <3>2. CASE u \in Units(b)
      <4>1. PICK n \in Mark(x) + 1 .. Mark(x)' : n \in 1 .. MaxSent[Backend[x]] /\ u = ReplyUnit(x, n)
        BY <1>4, <3>2
      <4>2. n \in 1 .. Mark(x)'
        BY <1>1
      <4> QED  BY <4>1, <4>2
    <3> QED  BY <1>3, <2>1, <3>1, <3>2
  <2>2. \A y \in Clone : Played(y)' \cap dropped' = {}
    BY <1>3, <1>4, <1>7 DEF OnceInv, GivenUp
  <2>3. \A i \in Index : Units(pipes'[i]) \cap dropped' = {}
    BY <1>3, <1>4 DEF OnceInv, GivenUp
  <2> QED  BY <2>1, <2>2, <2>3 DEF GivenUp, ReplyUnit, Units
<1> QED  BY <1>8, <1>9, <1>10 DEF OnceInv

LEMMA W2Once ==
  ASSUME ReplayInv, OnceInv, NEW x \in Prod, W2(x)
  PROVE  OnceInv'
<1>1. UNCHANGED aggVars
  BY DEF W2
<1>2. CASE idx[x] \in Index /\ WritePipe(<<x, "W2">>, idx[x], "recv")
  BY <1>1, <1>2, FitOnce, OverflowOnce DEF WritePipe
<1>3. CASE WriteAstray(<<x, "W2">>, "recv")
  BY <1>1, <1>3, OverflowOnce
<1>4. CASE /\ \/ Recv(<<x, "W2">>, Backend[x], "send", "shut1")
              \/ Send(<<x, "W2">>, "send", x, "write")
              \/ Shut2(<<x, "W2">>, x, Backend[x])
           /\ UNCHANGED pipeVars
  BY <1>1, <1>4, W2QuietOnce
<1> QED  BY <1>2, <1>3, <1>4 DEF W2, forward_data_to_dest_and_pipe

----------------------------------------------------------------------------
(* R2, R3, and what the clone reads.                                       *)

\* What is behind others stays in order when those between are taken away.
LEMMA TakenOut ==
  ASSUME NEW l \in Seq(Nat), NEW r \in Seq(Nat), NEW f \in Seq(Nat), NEW p \in Seq(Nat), NEW S,
         Rising(l \o (r \o (f \o p)), S)
  PROVE  Rising(l \o (r \o p), S)
<1> DEFINE s == f \o p
           h == l \o r
<1>1. s \in Seq(Nat) /\ h \in Seq(Nat)
  BY Splice
<1>2. Grouped(l, r, s) /\ Grouped(l, r, p)
  BY <1>1, Regroup
<1>3. h \o s = l \o (r \o s) /\ h \o p = l \o (r \o p)
  BY <1>2, Zenon DEF Grouped
<1>4. Rising(h \o (f \o p), S)
  BY <1>3
<1> HIDE DEF h, s
<1>5. Rising(h \o p, S)
  BY <1>1, <1>4, RisingWithout
<1> QED  BY <1>3, <1>5

\* A step that takes f from the pipe of y, or nothing, to y or nowhere.
LEMMA ReaderOnce ==
  ASSUME ReplayInv, OnceInv, NEW y \in Clone, NEW j \in Index, idx[y] = j, ~Idle(y),
         UNCHANGED <<idx, dropped>>,
         \A a \in Prod : UNCHANGED <<pc[<<a, "W2">>], buf[<<a, "W2">>],
                                     inq[Backend[a]], sent[Backend[a]]>>,
         \A z \in Clone :
            /\ pc'[<<z, "R2">>] = "none" <=> pc[<<z, "R2">>] = "none"
            /\ pc'[<<z, "R3">>] = "none" <=> pc[<<z, "R3">>] = "none"
            /\ z # y => UNCHANGED <<pc[<<z, "R2">>], buf[<<z, "R2">>], off[<<z, "R2">>],
                                    got[z], outq[z]>>,
         \A i \in Index : i # j => pipes'[i] = pipes[i],
         NEW f \in Seq(Nat), pipes'[j] \in Seq(Nat), pipes[j] = f \o pipes'[j],
         Played(y)' \subseteq Played(y) \cup Units(f),
         \A S : Rising(Chain(j, y), S) => Rising(Chain(j, y)', S)
  PROVE  OnceInv'
<1>1. Units(pipes[j]) = Units(f) \cup Units(pipes'[j])
  BY Splice
<1>2. ASSUME NEW a \in Prod PROVE Mark(a)' \in Nat /\ Mark(a) =< Mark(a)'
  <2>1. (Working(a)' <=> Working(a)) /\ Owed(a)' = Owed(a)
    BY DEF Working, Owed
  <2> QED  BY <2>1, MarkStill
<1>3. ASSUME NEW z \in Clone PROVE Idle(z)' <=> Idle(z)
  BY DEF Idle
<1>4. ASSUME NEW z \in Clone, z # y
      PROVE  Line(z)' = Line(z) /\ Rest(z)' = Rest(z) /\ Played(z)' = Played(z)
  BY <1>4 DEF Line, Rest, Played
<1>5. ASSUME NEW i \in Index PROVE Units(pipes'[i]) \subseteq Units(pipes[i])
  BY <1>1
<1>6. ASSUME NEW z \in Clone
      PROVE  Played(z)' \subseteq Played(z) \cup UNION {Units(pipes[i]) : i \in Index}
  <2>1. CASE z = y
    <3>1. Units(f) \subseteq UNION {Units(pipes[i]) : i \in Index}
      BY <1>1
    <3> QED  BY <2>1, <3>1
  <2>2. CASE z # y
    BY <1>4, <2>2
  <2> QED  BY <2>1, <2>2
<1>7. Apart'
  <2>1. ASSUME NEW z \in Clone, z # y PROVE Played(y)' \cap Played(z)' = {}
    <3>1. Units(pipes[j]) \cap Played(z) = {}
      BY NotPlayed DEF OnceInv
    <3>2. Played(y) \cap Played(z) = {}
      BY <2>1 DEF OnceInv, Apart
    <3> QED  BY <1>1, <1>4, <2>1, <3>1, <3>2
  <2>2. ASSUME NEW w \in Clone, NEW z \in Clone, w # z, w # y, z # y
        PROVE  Played(w)' \cap Played(z)' = {}
    BY <1>4, <2>2 DEF OnceInv, Apart
  <2> QED  BY <2>1, <2>2 DEF Apart
<1>8. ASSUME NEW i \in Index, NEW z \in Clone, idx'[z] = i \/ Idle(z)'
      PROVE  /\ idx[z] = i \/ Idle(z)
             /\ \A a \in Prod : Rising(Chain(i, z), Of(a)) => Rising(Chain(i, z)', Of(a))
  <2>1. idx[z] = i \/ Idle(z)
    BY <1>3, <1>8
  <2>2. CASE z = y
    <3>1. i = j
      BY <2>1, <2>2
    <3> QED  BY <2>1, <2>2, <3>1
  <2>3. CASE z # y /\ i # j
    <3>1. Chain(i, z)' = Chain(i, z)
      BY <1>4, <2>3 DEF Chain
    <3> QED  BY <2>1, <3>1
  <2>4. CASE z # y /\ i = j
    <3>1. Line(z) \in Seq(Nat) /\ Rest(z) \in Seq(Nat)
      BY CloneParts
    <3>2. Chain(i, z)' = Line(z) \o (Rest(z) \o pipes'[j])
      BY <1>4, <2>4 DEF Chain
    <3>3. Chain(i, z) = Line(z) \o (Rest(z) \o (f \o pipes'[j]))
      BY <2>4 DEF Chain
    <3>4. ASSUME NEW a \in Prod, Rising(Chain(i, z), Of(a)) PROVE Rising(Chain(i, z)', Of(a))
      <4> DEFINE l == Line(z)
                 r == Rest(z)
                 p == pipes'[j]
      <4>1. Rising(l \o (r \o (f \o p)), Of(a))
        BY <3>3, <3>4
      <4>2. l \in Seq(Nat) /\ r \in Seq(Nat) /\ p \in Seq(Nat)
        BY <3>1
      <4>3. Chain(i, z)' = l \o (r \o p)
        BY <3>2
      <4> HIDE DEF l, r, p
      <4>4. Rising(l \o (r \o p), Of(a))
        BY <4>1, <4>2, TakenOut
      <4> QED  BY <4>3, <4>4
    <3> QED  BY <2>1, <3>4
  <2> QED  BY <2>2, <2>3, <2>4
<1> QED  BY <1>2, <1>5, <1>6, <1>7, <1>8, OnceStep

\* read() by R2 and by R3: what R2 takes is the clone's, what R3 takes is lost.
LEMMA PipeReadOnce ==
  ASSUME ReplayInv, OnceInv, NEW y \in Clone, NEW r \in {"R2", "R3"},
         ReadPipe(<<y, r>>, idx[y]), UNCHANGED aggVars, idx[y] \in Index
  PROVE  OnceInv' /\ UNCHANGED <<got, sent>>
<1> DEFINE q == <<y, r>>
           f == buf'[q]
<1>0. PICK j \in Index : idx[y] = j
  OBVIOUS
<1>1. /\ pc[q] = "recv" /\ pc'[q] = "send" /\ j \in Index
      /\ UNCHANGED <<inq, outq, got, sent, shut, peer, off, dropped>>
      /\ \A p \in Proc : p # q => UNCHANGED <<pc[p], buf[p], off[p]>>
      /\ \A i \in Index : i # j => pipes'[i] = pipes[i]
      /\ f \in Seq(Nat) /\ pipes'[j] \in Seq(Nat)
      /\ pipes[j] = f \o pipes'[j]
  BY <1>0, ReadPipeParts
<1>2. /\ Played(y)' \subseteq Played(y) \cup Units(f)
      /\ \A S : Rising(Chain(j, y), S) => Rising(Chain(j, y)', S)
  <2>1. CASE r = "R2"
    <3>1. /\ Chain(j, y)' = Chain(j, y)
          /\ Played(y)' \subseteq Played(y) \cup Units(buf'[<<y, "R2">>])
      BY <1>0, <2>1, R2ReadCopy
    <3> QED  BY <2>1, <3>1
  <2>2. CASE r = "R3"
    <3>1. <<y, "R2">> \in Proc /\ <<y, "R2">> # q
      BY <2>2, Procs
    <3>2. Line(y)' = Line(y) /\ Rest(y)' = Rest(y) /\ Played(y)' = Played(y)
      BY <1>1, <3>1 DEF Line, Rest, Played
    <3>3. ASSUME NEW S, Rising(Chain(j, y), S) PROVE Rising(Chain(j, y)', S)
      <4> DEFINE l == Line(y)
                 s == Rest(y)
                 p == pipes'[j]
      <4>1. l \in Seq(Nat) /\ s \in Seq(Nat) /\ p \in Seq(Nat) /\ f \in Seq(Nat)
        BY <1>1, CloneParts
      <4>2. Chain(j, y) = l \o (s \o (f \o p)) /\ Chain(j, y)' = l \o (s \o p)
        BY <1>1, <3>2 DEF Chain
      <4> HIDE DEF l, s, p, f
      <4>3. Rising(l \o (s \o (f \o p)), S)
        BY <3>3, <4>2
      <4>4. Rising(l \o (s \o p), S)
        BY <4>1, <4>3, TakenOut
      <4> QED  BY <4>2, <4>4
    <3> QED  BY <3>2, <3>3
  <2> QED  BY <2>1, <2>2
<1>3. pc[q] \notin Over /\ pc'[q] # "none" /\ \A s \in Sock : s # y => outq'[s] = outq[s]
  BY <1>1 DEF Over
<1>4. /\ ~Idle(y)
      /\ \A a \in Prod : UNCHANGED <<pc[<<a, "W2">>], buf[<<a, "W2">>],
                                     inq[Backend[a]], sent[Backend[a]]>>
      /\ \A z \in Clone :
            /\ pc'[<<z, "R2">>] = "none" <=> pc[<<z, "R2">>] = "none"
            /\ pc'[<<z, "R3">>] = "none" <=> pc[<<z, "R3">>] = "none"
            /\ z # y => UNCHANGED <<pc[<<z, "R2">>], buf[<<z, "R2">>], off[<<z, "R2">>],
                                    got[z], outq[z]>>
  BY <1>1, <1>3, ReaderMoves
<1>5. UNCHANGED <<idx, dropped, got, sent>>
  BY <1>1 DEF aggVars
<1> HIDE DEF q, f
<1>6. OnceInv'
  BY <1>0, <1>1, <1>2, <1>4, <1>5, ReaderOnce
<1> QED  BY <1>5, <1>6

\* R2 sends: what it hands over stays in its place, and a connection that is gone
\* takes what R2 holds with it.
LEMMA R2SendOnce ==
  ASSUME ReplayInv, OnceInv, NEW y \in Clone, Send(<<y, "R2">>, "send", y, "recv"),
         UNCHANGED <<aggVars, pipeVars>>
  PROVE  OnceInv' /\ UNCHANGED <<got, sent>>
<1> DEFINE q == <<y, "R2">>
<1>1. /\ LoopInv(Proc, Step, {"send"}) /\ q \in Proc /\ y \in Sock /\ pc[q] = "send"
  BY CloneParts DEF Send, ReplayInv, StartInv, IsolInv, ProcInv
<1>2. PICK j \in Index : idx[y] = j
  BY <1>1 DEF ReplayInv, StartInv, Untouched
<1>3. /\ pc[q] \notin Over /\ UNCHANGED <<inq, got, sent, shut, peer, idx, dropped>>
      /\ pipes' = pipes
      /\ \A s \in Sock : s # y => outq'[s] = outq[s]
  BY <1>1 DEF Send, Transmit, Over, sockVars, aggVars, pipeVars, LoopInv, SockTypeOK
<1>4. \A p \in Proc : p # q => UNCHANGED <<pc[p], buf[p], off[p]>>
  <2>1. \A p \in Proc : p # q => pc'[p] = pc[p]
    BY <1>1 DEF Send, Goto, LoopInv
  <2>2. \A p \in Proc : p # q => buf'[p] = buf[p]
    BY <1>1 DEF Send, Drop, LoopInv
  <2>3. \A p \in Proc : p # q => off'[p] = off[p]
    BY <1>1 DEF Send, LoopInv
  <2> QED  BY <2>1, <2>2, <2>3
<1>5. pc'[q] # "none"
  BY <1>1 DEF Send, Goto, LoopInv
<1>6. /\ pipes[j] \in Seq(Nat) /\ Line(y) \in Seq(Nat) /\ Rest(y) \in Seq(Nat)
      /\ <<>> \in Seq(Nat) /\ <<>> \o pipes[j] = pipes[j]
  <2>1. pipes[j] \in Seq(Nat) /\ Line(y) \in Seq(Nat) /\ Rest(y) \in Seq(Nat)
    BY CloneParts
  <2>2. <<>> \in Seq(Nat)
    OBVIOUS
  <2> QED  BY <2>1, <2>2, ConcatEmptySeq
<1>7. /\ Played(y)' \subseteq Played(y)
      /\ \A S : Rising(Chain(j, y), S) => Rising(Chain(j, y)', S)
  <2>1. CASE Writable(y)
    <3>1. UNCHANGED pipeVars
      OBVIOUS
    <3>2. Played(y)' \subseteq Played(y) /\ Chain(j, y)' = Chain(j, y)
      BY <1>2, <2>1, <3>1, R2Handed
    <3> QED  BY <3>2
  <2>2. CASE ~Writable(y)
    <3>1. Line(y)' = Line(y) /\ Rest(y)' = <<>> /\ Played(y)' \subseteq Played(y)
      BY <2>2, R2Lost
    <3>2. ASSUME NEW S, Rising(Chain(j, y), S) PROVE Rising(Chain(j, y)', S)
      <4> DEFINE l == Line(y)
                 s == Rest(y)
                 p == pipes[j]
      <4>1. Chain(j, y) = l \o (s \o p) /\ Chain(j, y)' = l \o p
        BY <1>3, <1>6, <3>1 DEF Chain
      <4>2. l \in Seq(Nat) /\ s \in Seq(Nat) /\ p \in Seq(Nat)
        BY <1>6
      <4> HIDE DEF l, s, p
      <4>3. Rising(l \o (s \o p), S)
        BY <3>2, <4>1
      <4>4. Rising(l \o p, S)
        BY <4>2, <4>3, RisingWithout
      <4> QED  BY <4>1, <4>4
    <3> QED  BY <3>1, <3>2
  <2> QED  BY <2>1, <2>2
<1>8. /\ ~Idle(y)
      /\ \A a \in Prod : UNCHANGED <<pc[<<a, "W2">>], buf[<<a, "W2">>],
                                     inq[Backend[a]], sent[Backend[a]]>>
      /\ \A z \in Clone :
            /\ pc'[<<z, "R2">>] = "none" <=> pc[<<z, "R2">>] = "none"
            /\ pc'[<<z, "R3">>] = "none" <=> pc[<<z, "R3">>] = "none"
            /\ z # y => UNCHANGED <<pc[<<z, "R2">>], buf[<<z, "R2">>], off[<<z, "R2">>],
                                    got[z], outq[z]>>
  <2>1. UNCHANGED <<inq, got, sent, shut, peer>>
    BY <1>3
  <2> QED  BY <1>3, <1>4, <1>5, <2>1, ReaderMoves
<1>9. /\ UNCHANGED <<idx, dropped, got, sent>>
      /\ \A i \in Index : i # j => pipes'[i] = pipes[i]
      /\ pipes'[j] \in Seq(Nat) /\ pipes[j] = <<>> \o pipes'[j]
      /\ Played(y)' \subseteq Played(y) \cup Units(<<>>)
  BY <1>3, <1>6, <1>7
<1> HIDE DEF q
<1>10. OnceInv'
  BY <1>2, <1>6, <1>7, <1>8, <1>9, ReaderOnce
<1> QED  BY <1>9, <1>10

\* The clone reads, or a reset takes what it has still to read.
LEMMA CloneHasOnce ==
  ASSUME ReplayInv, OnceInv, NEW y \in Clone, PeerRead(y) \/ Reset(y, Gone(y)), UNCHANGED procVars
  PROVE  OnceInv'
<1>1. /\ y \in Sock /\ SockTypeOK /\ \A a \in Prod : a \in Sock /\ Backend[a] \in Sock
      /\ \A z \in Clone : z \in Sock
      /\ UNCHANGED <<pc, buf, off, idx, pipes, dropped>>
  BY Socks DEF procVars, aggVars, pipeVars, ReplayInv, StartInv, IsolInv, ProcInv, LoopInv
<1>2. /\ UNCHANGED <<inq, sent>> /\ outq[y] # <<>>
      /\ \A s \in Sock : s # y => got'[s] = got[s] /\ outq'[s] = outq[s]
  <2>1. CASE PeerRead(y)
    BY <1>1, <2>1 DEF PeerRead, SockTypeOK
  <2>2. CASE Reset(y, Gone(y))
    <3>1. PICK k \in 0 .. Len(outq[y]) - 1 : outq' = [outq EXCEPT ![y] = SubSeq(@, 1, k)]
      BY <2>2 DEF Reset
    <3>2. Len(<<>>) = 0
      OBVIOUS
    <3>3. outq[y] # <<>>
      BY <3>1, <3>2
    <3> QED  BY <1>1, <2>2, <3>1, <3>3 DEF Reset, SockTypeOK
  <2> QED  BY <2>1, <2>2
<1>3. ~Idle(y)
  BY <1>2 DEF ReplayInv, StartInv, Untouched, Idle
<1>4. PICK j \in Index : idx[y] = j
  BY <1>2 DEF ReplayInv, StartInv, Untouched
<1>5. /\ Rest(y)' = Rest(y) /\ Rest(y) \in Seq(Nat) /\ Line(y) \in Seq(Nat)
      /\ pipes[j] \in Seq(Nat) /\ <<>> \in Seq(Nat) /\ <<>> \o pipes[j] = pipes[j]
      /\ Rest(y) \o pipes[j] \in Seq(Nat)
  <2>1. /\ pipes[j] \in Seq(Nat) /\ Line(y) \in Seq(Nat) /\ Rest(y) \in Seq(Nat)
        /\ Rest(y) \o pipes[j] \in Seq(Nat)
    BY CloneParts
  <2>2. <<>> \in Seq(Nat)
    OBVIOUS
  <2>3. Rest(y)' = Rest(y)
    BY <1>1 DEF Rest
  <2> QED  BY <2>1, <2>2, <2>3, ConcatEmptySeq
<1>6. Played(y)' \subseteq Played(y)
  <2>1. Units(got'[y]) \cup Units(outq'[y]) \subseteq Units(got[y]) \cup Units(outq[y])
    BY CloneReads, CloneResets
  <2>2. Played(y)' = Units(got'[y]) \cup Units(outq'[y]) \cup Units(Rest(y))
    BY <1>5 DEF Played
  <2> QED  BY <2>1, <2>2 DEF Played
<1>7. ASSUME NEW S, Rising(Chain(j, y), S) PROVE Rising(Chain(j, y)', S)
  <2> DEFINE t == Rest(y) \o pipes[j]
             l == Line(y)'
  <2>1. t \in Seq(Nat) /\ Chain(j, y) = Line(y) \o t /\ Chain(j, y)' = l \o t
    BY <1>1, <1>5 DEF Chain
  <2>2. CASE PeerRead(y)
    <3>1. l = Line(y)
      BY <2>2, CloneReads
    <3> QED  BY <1>7, <2>1, <3>1
  <2>3. CASE Reset(y, Gone(y))
    <3>1. PICK r \in Seq(Nat) : l \in Seq(Nat) /\ Line(y) = l \o r
      BY <2>3, CloneResets
    <3> HIDE DEF t, l
    <3>2. Grouped(l, r, t)
      BY <2>1, <3>1, Regroup
    <3>3. Chain(j, y) = l \o (r \o t)
      BY <2>1, <3>1, <3>2, Zenon DEF Grouped
    <3>4. Rising(l \o (r \o t), S)
      BY <1>7, <3>3
    <3>5. Rising(l \o t, S)
      BY <2>1, <3>1, <3>4, RisingWithout
    <3> QED  BY <2>1, <3>5
  <2> QED  BY <2>2, <2>3
<1>8. /\ \A a \in Prod : UNCHANGED <<pc[<<a, "W2">>], buf[<<a, "W2">>],
                                     inq[Backend[a]], sent[Backend[a]]>>
      /\ \A z \in Clone :
            /\ pc'[<<z, "R2">>] = "none" <=> pc[<<z, "R2">>] = "none"
            /\ pc'[<<z, "R3">>] = "none" <=> pc[<<z, "R3">>] = "none"
            /\ z # y => UNCHANGED <<pc[<<z, "R2">>], buf[<<z, "R2">>], off[<<z, "R2">>],
                                    got[z], outq[z]>>
  BY <1>1, <1>2
<1>9. /\ UNCHANGED <<idx, dropped>>
      /\ \A i \in Index : i # j => pipes'[i] = pipes[i]
      /\ pipes'[j] \in Seq(Nat) /\ pipes[j] = <<>> \o pipes'[j]
      /\ Played(y)' \subseteq Played(y) \cup Units(<<>>)
  BY <1>1, <1>5, <1>6
<1> QED  BY <1>3, <1>4, <1>5, <1>7, <1>8, <1>9, ReaderOnce

----------------------------------------------------------------------------
(* OnceInv is inductive.                                                   *)

LEMMA InitOnce == Init => OnceInv
<1> SUFFICES ASSUME Init PROVE OnceInv
  OBVIOUS
<1>1. Units(<<>>) = {} /\ <<>> \o <<>> = <<>>
  BY DEF Units
<1>2. /\ \A y \in Clone : Line(y) = <<>> /\ Rest(y) = <<>> /\ Played(y) = {}
      /\ \A i \in Index : pipes[i] = <<>>
      /\ dropped = {}
  <2>1. ASSUME NEW y \in Clone PROVE Line(y) = <<>> /\ Rest(y) = <<>> /\ Played(y) = {}
    <3>1. y \in Sock /\ <<y, "R2">> \in Proc
      BY Socks, Procs
    <3>2. got[y] = <<>> /\ outq[y] = <<>> /\ pc[<<y, "R2">>] = "none"
      BY <3>1 DEF Init, SockInit
    <3>3. Rest(y) = <<>>
      BY <3>2 DEF Rest
    <3> QED  BY <1>1, <3>2, <3>3 DEF Line, Played
  <2> QED  BY <2>1 DEF Init
<1>3. Ordered
  <2>1. ASSUME NEW i \in Index, NEW y \in Clone, NEW a \in Prod PROVE Rising(Chain(i, y), Of(a))
    <3>1. Chain(i, y) = <<>>
      BY <1>1, <1>2 DEF Chain
    <3>2. \A k \in 1 .. Len(<<>>) : FALSE
      OBVIOUS
    <3> QED  BY <3>1, <3>2, Zenon DEF Rising
  <2> QED  BY <2>1 DEF Ordered
<1>4. Apart /\ GivenUp
  BY <1>2 DEF Apart, GivenUp
<1> QED  BY <1>3, <1>4 DEF OnceInv

\* Whatever a peer does.
LEMMA PeersOnce ==
  ASSUME ReplayInv, OnceInv, NEW s \in Sock, Reads(s) \/ Writes(s) \/ Quits(s) \/ Resets(s)
  PROVE  OnceInv'
<1>1. CASE \/ s \notin Clone /\ (Reads(s) \/ Resets(s))
           \/ s \in Conn /\ Writes(s)
           \/ Quits(s)
  BY <1>1, PeersAloof, AloofOnce
<1>2. CASE s \in Clone /\ (Reads(s) \/ Resets(s))
  BY <1>2, CloneHasOnce DEF Reads, Resets
<1>3. CASE s \notin Conn /\ Writes(s)
  <2>1. PICK x \in Prod : s = Backend[x]
    BY <1>3, ConnAssumption
  <2>2. PeerWrite(Backend[x], Gone(s)) /\ UNCHANGED procVars
    BY <1>3, <2>1 DEF Writes
  <2>3. \A a \in Prod : Mark(a)' \in Nat /\ Mark(a) =< Mark(a)'
    BY <2>2, BackendWrites
  <2>4. UNCHANGED <<got, outq, pc, buf, off, idx, pipes, dropped>>
    BY <2>2 DEF PeerWrite, procVars, aggVars, pipeVars
  <2>5. \A y \in Clone : /\ UNCHANGED <<got[y], outq[y]>> /\ Rest(y)' = Rest(y)
                         /\ Idle(y)' => Idle(y)
                         /\ idx'[y] = idx[y] \/ Idle(y)
    BY <2>4 DEF Rest, Idle
  <2> QED  BY <2>3, <2>4, <2>5, OnceQuiet
<1> QED  BY <1>1, <1>2, <1>3

\* The workers.
LEMMA WorkersOnce ==
  ASSUME ReplayInv, OnceInv,
         \/ \E x \in Prod : W1(x) \/ W2(x)
         \/ \E x \in Clone : R1(x) \/ R2(x) \/ R3(x)
  PROVE  OnceInv'
<1>1. ASSUME NEW x \in Prod, W1(x) PROVE OnceInv'
  BY <1>1, W1Aloof, AloofOnce
<1>2. ASSUME NEW x \in Prod, W2(x) PROVE OnceInv'
  BY <1>2, W2Once
<1>3. ASSUME NEW x \in Clone, R1(x) PROVE OnceInv'
  BY <1>3, R1Aloof, AloofOnce
<1>4. ASSUME NEW x \in Clone, R2(x) PROVE OnceInv'
  <2>1. UNCHANGED aggVars
    BY <1>4 DEF R2
  <2>2. CASE idx[x] \in Index /\ ReadPipe(<<x, "R2">>, idx[x])
    BY <2>1, <2>2, PipeReadOnce
  <2>3. CASE Send(<<x, "R2">>, "send", x, "recv") /\ UNCHANGED pipeVars
    BY <2>1, <2>3, R2SendOnce
  <2>4. CASE \/ ReadAstray(<<x, "R2">>, "shut1")
             \/ Shut(<<x, "R2">>, "shut1", x, "done") /\ UNCHANGED pipeVars
    BY <2>1, <2>4, AstrayAloof, AloofOnce
  <2> QED  BY <1>4, <2>2, <2>3, <2>4 DEF R2, read_pipe_dest
<1>5. ASSUME NEW x \in Clone, R3(x) PROVE OnceInv'
  <2>1. UNCHANGED aggVars
    BY <1>5 DEF R3
  <2>2. CASE idx[x] \in Index /\ ReadPipe(<<x, "R3">>, idx[x])
    BY <2>1, <2>2, PipeReadOnce
  <2>3. CASE /\ pc[<<x, "R3">>] = "send" /\ Goto(<<x, "R3">>, "recv") /\ Drop(<<x, "R3">>, "recv")
             /\ UNCHANGED <<sockVars, off, pipeVars>>
    BY <2>1, <2>3, LostAloof, AloofOnce
  <2>4. CASE ReadAstray(<<x, "R3">>, "done")
    BY <2>1, <2>4, AstrayAloof, AloofOnce
  <2> QED  BY <1>5, <2>2, <2>3, <2>4 DEF R3, read_pipe_nowhere
<1> QED  BY <1>1, <1>2, <1>3, <1>4, <1>5

LEMMA NextOnce == ReplayInv /\ OnceInv /\ [Next]_vars => OnceInv'
<1> SUFFICES ASSUME ReplayInv, OnceInv, [Next]_vars PROVE OnceInv'
  OBVIOUS
<1>1. CASE UNCHANGED vars
  <2>1. Aloof
    BY <1>1 DEF vars, sockVars, aggVars, pipeVars, Aloof, Idle
  <2> QED  BY <2>1, AloofOnce
<1>2. CASE \E x \in Conn : Accept(x) \/ handle_client(x) \/ Terminated(x)
  BY <1>2, HandlersAloof, AloofOnce, ForkSecondOnce DEF handle_client
<1>3. CASE \/ \E x \in Prod : W1(x) \/ W2(x)
           \/ \E x \in Clone : R1(x) \/ R2(x) \/ R3(x)
  BY <1>3, WorkersOnce
<1>4. CASE \E s \in Sock : Reads(s) \/ Writes(s) \/ Quits(s) \/ Resets(s)
  BY <1>4, PeersOnce
<1> QED  BY <1>1, <1>2, <1>3, <1>4 DEF Next

----------------------------------------------------------------------------
(* Only what has been written is read.                                     *)

Answered ==
    \A a \in Prod : Passed(Backend[a]) =< sent[a] /\ Passed(a) =< sent[Backend[a]]

LEMMA AnsweredStill ==
  ASSUME Answered,
         \A a \in Prod : \A s \in {a, Backend[a]} : UNCHANGED <<got[s], outq[s], sent[s]>>
  PROVE  Answered'
BY DEF Answered, Passed

\* W1 or W2 sends.
LEMMA SendAnswered ==
  ASSUME ReplayInv, Answered, NEW a \in Prod, NEW r \in {"W1", "W2"},
         NEW s, s = (IF r = "W1" THEN a ELSE Backend[a]),
         NEW d, d = (IF r = "W1" THEN Backend[a] ELSE a),
         NEW next, Send(<<a, r>>, "send", d, next)
  PROVE  Answered'
<1> DEFINE q == <<a, r>>
           n == sent[s]
           f == Passed(d)
           l == Len(inq[s])
           k == off[q]
           m == Len(buf[q])
           o == outq[d]
<1>1. /\ LoopInv(Proc, Step, {"send"}) /\ q \in Proc /\ s \in Sock /\ d \in Sock /\ pc[q] = "send"
      /\ Joined(q, s, d)
      /\ \A b \in Prod : b \in Sock /\ Backend[b] \in Sock
  <2>1. /\ <<a, "W1">> \in Proc /\ <<a, "W2">> \in Proc /\ a \in Sock /\ Backend[a] \in Sock
        /\ \A b \in Prod : b \in Sock /\ Backend[b] \in Sock
    BY Procs, Socks
  <2>2. Joined(<<a, "W1">>, a, Backend[a]) /\ Joined(<<a, "W2">>, Backend[a], a)
    BY DEF ReplayInv, StartInv, IsolInv, Streams, Stream
  <2> QED  BY <2>1, <2>2 DEF Send, ReplayInv, StartInv, IsolInv, ProcInv
<1>2. /\ n \in Nat /\ f \in Nat /\ l \in Nat /\ k \in Nat /\ m \in Nat /\ o \in Seq(Nat)
      /\ k < m
  <2>1. /\ n \in Nat /\ f \in Nat /\ l \in Nat /\ k \in Nat /\ m \in Nat /\ o \in Seq(Nat)
    BY <1>1, StreamCounts, Zenon
  <2>2. k < m
    BY <1>1 DEF LoopInv
  <2> QED  BY <2>1, <2>2
<1>3. UNCHANGED <<got, sent>> /\ \A c \in Sock : c # d => outq'[c] = outq[c]
  BY <1>1 DEF Send, Transmit, sockVars, LoopInv, SockTypeOK
<1>4. CASE outq' = outq
  BY <1>3, <1>4, AnsweredStill
<1>5. CASE Transmit(d, NextUnit(q))
  <2>1. Writable(d) /\ outq'[d] = Append(o, NextUnit(q))
    BY <1>1, <1>5 DEF Transmit, LoopInv, SockTypeOK
  <2>2. Len(Append(o, NextUnit(q))) = Len(o) + 1 /\ Len(o) \in Nat /\ Len(got[d]) \in Nat
    <3>1. NextUnit(q) \in Nat
      <4>1. buf[q] \in Seq(Nat)
        BY <1>1, StreamCounts, Zenon
      <4>2. k + 1 \in 1 .. m
        <5> HIDE DEF k, m
        <5> QED  BY <1>2
      <4> QED  BY <4>1, <4>2, ElementOfSeq DEF NextUnit
    <3> QED  BY <1>1, <1>2, <3>1, StreamCounts, AppendProperties
  <2>3. Passed(d)' = f + 1
    <3>1. Passed(d)' = Len(got[d]) + (Len(o) + 1) /\ f = Len(got[d]) + Len(o)
      <4>1. Passed(d)' = Len(got'[d]) + Len(outq'[d])
        BY DEF Passed
      <4> QED  BY <1>3, <2>1, <2>2, <4>1 DEF Passed
    <3>2. \A i, j \in Nat : i + (j + 1) = (i + j) + 1
      OBVIOUS
    <3> QED  BY <2>2, <3>1, <3>2, Zenon
  <2>4. f + (m - k) + l = n
    BY <1>1, <2>1 DEF Joined, Held, Flow
  <2>5. Passed(d)' =< sent'[s]
    <3>1. sent'[s] = n /\ Passed(d)' = f + 1
      BY <1>3, <2>3
    <3> HIDE DEF f, n, m, k, l
    <3> QED  BY <1>2, <2>4, <3>1
  <2>6. ASSUME NEW c \in Sock, c # d PROVE Passed(c)' = Passed(c)
    <3>1. got'[c] = got[c] /\ outq'[c] = outq[c]
      BY <1>3, <2>6
    <3> QED  BY <3>1 DEF Passed
  <2>7. ASSUME NEW b \in Prod
        PROVE  Passed(Backend[b])' =< sent'[b] /\ Passed(b)' =< sent'[Backend[b]]
    <3>1. Passed(Backend[b]) =< sent[b] /\ Passed(b) =< sent[Backend[b]] /\ sent' = sent
      BY <1>3 DEF Answered
    <3>2. Passed(Backend[b])' =< sent'[b]
      <4>1. CASE Backend[b] = d
        <5>1. b = s
          BY <4>1, Socks
        <5> QED  BY <2>5, <4>1, <5>1
      <4>2. CASE Backend[b] # d
        BY <1>1, <2>6, <3>1, <4>2
      <4> QED  BY <4>1, <4>2
    <3>3. Passed(b)' =< sent'[Backend[b]]
      <4>1. CASE b = d
        <5>1. Backend[b] = s
          BY <4>1, Socks
        <5> QED  BY <2>5, <4>1, <5>1
      <4>2. CASE b # d
        BY <1>1, <2>6, <3>1, <4>2
      <4> QED  BY <4>1, <4>2
    <3> QED  BY <3>2, <3>3
  <2> QED  BY <2>7 DEF Answered
<1> QED  BY <1>4, <1>5 DEF Send, sockVars

LEMMA WorkersAnswered ==
  ASSUME ReplayInv, Answered,
         \/ \E x \in Prod : W1(x) \/ W2(x)
         \/ \E x \in Clone : R1(x) \/ R2(x) \/ R3(x)
  PROVE  Answered'
<1>1. ASSUME UNCHANGED <<got, outq, sent>> PROVE Answered'
  BY <1>1, AnsweredStill
<1>2. ASSUME NEW x \in Prod, W1(x) PROVE Answered'
  <2>1. CASE Send(<<x, "W1">>, "send", Backend[x], "recv")
    BY <2>1, SendAnswered
  <2>2. CASE Recv(<<x, "W1">>, x, "send", "shut1") \/ Shut2(<<x, "W1">>, Backend[x], x)
    BY <1>1, <2>2 DEF Recv, Receive, Shut2, Shut, ShutDown, sockVars
  <2> QED  BY <1>2, <2>1, <2>2 DEF W1, forward_data
<1>3. ASSUME NEW x \in Prod, W2(x) PROVE Answered'
  <2>1. CASE Send(<<x, "W2">>, "send", x, "write")
    BY <2>1, SendAnswered
  <2>2. CASE \/ Recv(<<x, "W2">>, Backend[x], "send", "shut1") \/ Shut2(<<x, "W2">>, x, Backend[x])
             \/ WritePipe(<<x, "W2">>, idx[x], "recv") \/ WriteAstray(<<x, "W2">>, "recv")
    BY <1>1, <2>2 DEF Recv, Receive, Shut2, Shut, ShutDown, WritePipe, WriteAstray, sockVars
  <2> QED  BY <1>3, <2>1, <2>2 DEF W2, forward_data_to_dest_and_pipe
<1>4. ASSUME NEW x \in Clone, R1(x) PROVE Answered'
  BY <1>1, <1>4 DEF R1, read_data_and_drop, Drain, DrainEnd, Receive, Shut, ShutDown, sockVars
<1>5. ASSUME NEW x \in Clone, R2(x) PROVE Answered'
  <2>1. CASE \/ ReadPipe(<<x, "R2">>, idx[x]) \/ ReadAstray(<<x, "R2">>, "shut1")
             \/ Shut(<<x, "R2">>, "shut1", x, "done")
    BY <1>1, <2>1 DEF ReadPipe, ReadAstray, Shut, ShutDown, sockVars
  <2>2. CASE Send(<<x, "R2">>, "send", x, "recv")
    <3>1. outq \in [Sock -> Seq(Nat)] /\ \A a \in Prod : \A s \in {a, Backend[a]} : s \in Sock /\ s # x
      BY Socks DEF ReplayInv, StartInv, IsolInv, ProcInv, LoopInv, SockTypeOK
    <3>2. UNCHANGED <<got, sent>> /\ \A s \in Sock : s # x => outq'[s] = outq[s]
      BY <2>2, <3>1 DEF Send, Transmit, sockVars
    <3> QED  BY <3>1, <3>2, AnsweredStill
  <2> QED  BY <1>5, <2>1, <2>2 DEF R2, read_pipe_dest
<1>6. ASSUME NEW x \in Clone, R3(x) PROVE Answered'
  BY <1>1, <1>6 DEF R3, read_pipe_nowhere, ReadPipe, ReadAstray, sockVars
<1> QED  BY <1>2, <1>3, <1>4, <1>5, <1>6

\* A peer takes nothing from what was written, and adds nothing to what was handed on.
LEMMA PeersAnswered ==
  ASSUME ReplayInv, Answered, NEW x \in Sock, Reads(x) \/ Writes(x) \/ Quits(x) \/ Resets(x)
  PROVE  Answered'
<1>1. SockTypeOK /\ sent \in [Sock -> Nat] /\ SockTypeOK'
  <2>1. IsolInv /\ [Next]_vars
    BY DEF ReplayInv, StartInv, Next
  <2>2. IsolInv'
    BY <2>1, NextIsol
  <2> QED  BY <2>1, <2>2 DEF IsolInv, ProcInv, LoopInv, SockTypeOK
<1>2. ASSUME NEW s \in Sock, NEW d \in Sock, Ahead(s, d), Passed(d) =< sent[s]
      PROVE  Passed(d)' =< sent'[s]
  <2>1. Passed(d) \in Nat /\ Passed(d)' \in Nat /\ sent[s] \in Nat
    <3>1. /\ Len(got[d]) \in Nat /\ Len(outq[d]) \in Nat
          /\ Len(got'[d]) \in Nat /\ Len(outq'[d]) \in Nat
      <4>1. /\ got[d] \in Seq(Nat) /\ outq[d] \in Seq(Nat)
            /\ got'[d] \in Seq(Nat) /\ outq'[d] \in Seq(Nat)
        BY <1>1 DEF SockTypeOK
      <4> QED  BY <4>1, LenProperties
    <3>2. \A i, j \in Nat : i + j \in Nat
      OBVIOUS
    <3> QED  BY <1>1, <3>1, <3>2, Zenon DEF Passed
  <2>2. sent'[s] = sent[s] \/ sent'[s] = sent[s] + 1
    BY <1>1 DEF Reads, Writes, Quits, Resets, PeerRead, PeerWrite, PeerHalfClose, PeerClose, Reset
  <2>3. Passed(d)' = Passed(d) \/ Passed(d)' =< Passed(d)
    <3>1. CASE x # d \/ Writes(x) \/ Quits(x)
      <4>1. got'[d] = got[d] /\ outq'[d] = outq[d]
        BY <1>1, <3>1 DEF Reads, Writes, Quits, Resets, PeerRead, PeerWrite, PeerHalfClose,
                          PeerClose, Reset, SockTypeOK
      <4> QED  BY <4>1 DEF Passed
    <3>2. CASE x = d /\ Reads(x)
      BY <1>1, <1>2, <3>2, AheadRead DEF Reads
    <3>3. CASE x = d /\ Resets(x)
      BY <1>1, <1>2, <3>3, AheadReset DEF Resets
    <3> QED  BY <3>1, <3>2, <3>3
  <2> DEFINE f == Passed(d)
             g == Passed(d)'
             n == sent[s]
             m == sent'[s]
  <2>4. /\ f \in Nat /\ g \in Nat /\ n \in Nat /\ (m = n \/ m = n + 1) /\ (g = f \/ g =< f)
        /\ f =< n
    BY <1>2, <2>1, <2>2, <2>3
  <2> HIDE DEF f, g, n, m
  <2>5. g =< m
    BY <2>4
  <2> QED  BY <2>5 DEF g, m
<1>3. ASSUME NEW a \in Prod
      PROVE  Passed(Backend[a])' =< sent'[a] /\ Passed(a)' =< sent'[Backend[a]]
  <2>1. a \in Sock /\ Backend[a] \in Sock /\ Ahead(a, Backend[a]) /\ Ahead(Backend[a], a)
    BY Socks DEF ReplayInv, StartInv, IsolInv, Streams, Stream
  <2>2. Passed(Backend[a]) =< sent[a] /\ Passed(a) =< sent[Backend[a]]
    BY DEF Answered
  <2> QED  BY <1>2, <2>1, <2>2
<1> QED  BY <1>3 DEF Answered

LEMMA NextAnswered == ReplayInv /\ Answered /\ [Next]_vars => Answered'
<1> SUFFICES ASSUME ReplayInv, Answered, [Next]_vars PROVE Answered'
  OBVIOUS
<1>1. CASE UNCHANGED vars
  BY <1>1, AnsweredStill DEF vars, sockVars
<1>2. CASE \E x \in Conn : Accept(x) \/ handle_client(x) \/ Terminated(x)
  <2>1. UNCHANGED <<got, outq, sent>>
    BY <1>2 DEF handle_client, Accept, CreateConnection, CheckOrder, GetCounter,
                increment_shm_counter, Lock, Load, Store, Unlock, Inner, ForkFirst, ForkSecond,
                Fork, Terminated, Connected, sockVars
  <2> QED  BY <2>1, AnsweredStill
<1>3. CASE \/ \E x \in Prod : W1(x) \/ W2(x)
           \/ \E x \in Clone : R1(x) \/ R2(x) \/ R3(x)
  BY <1>3, WorkersAnswered
<1>4. CASE \E s \in Sock : Reads(s) \/ Writes(s) \/ Quits(s) \/ Resets(s)
  BY <1>4, PeersAnswered
<1> QED  BY <1>1, <1>2, <1>3, <1>4 DEF Next

----------------------------------------------------------------------------
(* Every step is one of the Exchange's, or changes nothing that it shows.  *)

\* The pipes that the connections are tied to.
Ties == [x \in Conn |-> Tied(x, IF x \in Prod THEN "W2" ELSE "R2")]

\* The pipes are those of the connections whose W2 or R2 has been forked.
LEMMA TiesStill ==
  ASSUME \A a \in Prod : /\ pc'[<<a, "W2">>] = "none" <=> pc[<<a, "W2">>] = "none"
                         /\ idx'[a] = idx[a] \/ pc[<<a, "W2">>] = "none",
         \A y \in Clone : /\ pc'[<<y, "R2">>] = "none" <=> pc[<<y, "R2">>] = "none"
                          /\ idx'[y] = idx[y] \/ pc[<<y, "R2">>] = "none"
  PROVE  Ties' = Ties
<1>1. ASSUME NEW x \in Conn
      PROVE  Tied(x, IF x \in Prod THEN "W2" ELSE "R2")' = Tied(x, IF x \in Prod THEN "W2" ELSE "R2")
  <2>1. CASE x \in Prod
    BY <2>1 DEF Tied
  <2>2. CASE x \notin Prod /\ x \in Clone
    BY <2>2 DEF Tied
  <2> QED  BY <2>1, <2>2 DEF Conn
<1> QED  BY <1>1 DEF Ties

LEMMA Shown ==
  ASSUME UNCHANGED <<sent, got, dropped>>, Ties' = Ties
  PROVE  UNCHANGED Promise!vars
BY DEF Promise!vars, Ties

LEMMA AloofShown ==
  ASSUME Aloof, UNCHANGED <<got, sent>>
  PROVE  UNCHANGED Promise!vars
<1>1. Ties' = Ties
  BY TiesStill DEF Aloof, Idle, Ending
<1> QED  BY <1>1, Shown DEF Aloof

\* What the steps of the Exchange speak of.
LEMMA Meanings ==
  /\ Promise!End = Sock
  /\ \A s : Promise!Has(s) = Units(got[s])
  /\ \A a, n : Promise!Reply(a, n) = ReplyUnit(a, n)
  /\ \A a : Promise!Replies(a) = {ReplyUnit(a, n) : n \in 1 .. sent[Backend[a]]}
<1>1. Promise!End = Sock
  BY ConnAssumption DEF Promise!End, Conn
<1>2. /\ \A s : Promise!Has(s) = Units(got[s])
      /\ \A a, n : Promise!Reply(a, n) = ReplyUnit(a, n)
      /\ \A a : Promise!Replies(a) = {ReplyUnit(a, n) : n \in 1 .. sent[Backend[a]]}
  BY Zenon DEF Promise!Has, Promise!Reply, Promise!Replies, Units, ReplyUnit
<1> QED  BY <1>1, <1>2

\* The fork() of W2 or of R2 ties a connection to its pipe, if it has one.
LEMMA ForkTies ==
  ASSUME ReplayInv, NEW x \in Conn, ForkSecond(x)
  PROVE  (\E q \in Index : Promise!Tie(x, q)) \/ UNCHANGED Promise!vars
<1> DEFINE r == IF x \in Prod THEN "W2" ELSE "R2"
           Role(z) == IF z \in Prod THEN "W2" ELSE "R2"
<1>1. Fork(x, "fork2", r, "done") /\ UNCHANGED <<sent, got, idx, dropped>>
  BY DEF ForkSecond, Fork, sockVars, aggVars, pipeVars
<1>2. /\ pc \in [Proc -> Step] /\ Handler(x) \in Proc /\ <<x, r>> \in Proc
      /\ pc[<<x, r>>] = "none" /\ Handler(x) # <<x, r>>
  <2>1. /\ pc \in [Proc -> Step] /\ ForkInv /\ pc[Handler(x)] = "fork2"
    BY <1>1 DEF ReplayInv, StartInv, IsolInv, ProcInv, LoopInv, Fork
  <2>2. CASE x \in Prod
    BY <2>1, <2>2, Procs DEF ForkInv, Handler
  <2>3. CASE x \notin Prod /\ x \in Clone
    BY <2>1, <2>3, Procs DEF ForkInv, Handler
  <2> QED  BY <2>2, <2>3 DEF Conn
<1>3. PICK w \in {"recv", "none"} : pc' = [pc EXCEPT ![<<x, r>>] = w, ![Handler(x)] = "done"]
  BY <1>1, <1>2, ForkEffect
<1>4. /\ pc'[<<x, r>>] = w
      /\ \A p \in Proc : p[2] # "H" /\ p # <<x, r>> => pc'[p] = pc[p]
  <2>1. Handler(x)[2] = "H"
    BY Procs DEF Handler
  <2> QED  BY <1>2, <1>3, <2>1
<1>5. ASSUME NEW z \in Conn, z # x PROVE Ties'[z] = Ties[z]
  <2>1. <<z, Role(z)>> \in Proc /\ <<z, Role(z)>> # <<x, r>> /\ <<z, Role(z)>>[2] # "H"
    <3>1. z \in Prod => <<z, "W2">> \in Proc
      BY Procs
    <3>2. z \in Clone => <<z, "R2">> \in Proc
      BY Procs
    <3> QED  BY <1>5, <3>1, <3>2 DEF Conn
  <2>2. pc'[<<z, Role(z)>>] = pc[<<z, Role(z)>>]
    BY <1>4, <2>1
  <2> HIDE DEF Role
  <2>3. Tied(z, Role(z))' = Tied(z, Role(z))
    BY <1>1, <2>2 DEF Tied
  <2> QED  BY <2>3 DEF Ties, Role
<1>6. Ties[x] = NumConns
  BY <1>2 DEF Ties, Tied
<1>7. Ties' = [z \in Conn |-> Ties'[z]] /\ Ties = [z \in Conn |-> Ties[z]]
  BY DEF Ties
<1>8. CASE w = "recv" /\ idx[x] \in Index
  <2>1. Ties'[x] = idx[x]
    <3>1. Tied(x, r)' = idx[x]
      BY <1>1, <1>4, <1>8 DEF Tied
    <3> QED  BY <3>1 DEF Ties
  <2>2. Ties' = [Ties EXCEPT ![x] = idx[x]]
    BY <1>5, <1>7, <2>1
  <2>3. Ties[x] = NumConns /\ Ties' = [Ties EXCEPT ![x] = idx[x]] /\ UNCHANGED <<sent, got, dropped>>
    BY <1>1, <1>6, <2>2
  <2> QED  BY <1>8, <2>3, Zenon DEF Promise!Tie, Ties
<1>9. CASE ~(w = "recv" /\ idx[x] \in Index)
  <2>1. Ties'[x] = NumConns
    <3>1. Tied(x, r)' = NumConns
      BY <1>1, <1>4, <1>9 DEF Tied
    <3> QED  BY <3>1 DEF Ties
  <2>2. Ties' = Ties
    BY <1>5, <1>6, <1>7, <2>1
  <2> QED  BY <1>1, <2>2, Shown
<1> QED  BY <1>8, <1>9

\* What W2 gives up are the replies behind all that it is done with.
LEMMA OverflowGivesUp ==
  ASSUME ReplayInv, OnceInv, NEW x \in Prod, UNCHANGED aggVars,
         WritePipe(<<x, "W2">>, idx[x], "recv") \/ WriteAstray(<<x, "W2">>, "recv"),
         dropped' = dropped \cup Units(buf[<<x, "W2">>])
  PROVE  Promise!GiveUp(x) \/ dropped' = dropped
<1> DEFINE b == buf[<<x, "W2">>]
           m == Len(b)
           k == Mark(x)
           n == sent[Backend[x]]
           first == k + 1
           last == k + m
<1>1. /\ dropped' = dropped \cup Units(b) /\ UNCHANGED <<sent, got>>
      /\ k \in Nat /\ m \in Nat /\ n \in Nat /\ k + m =< n /\ n =< MaxSent[Backend[x]]
      /\ MaxSent[Backend[x]] \in Nat
      /\ \A i \in 1 .. m : b[i] = ReplyUnit(x, k + i)
  <2>1. dropped' = dropped \cup Units(b) /\ pc[<<x, "W2">>] = "write"
    BY DEF WritePipe, WriteAstray
  <2>2. /\ m \in Nat /\ n \in Nat /\ MaxSent[Backend[x]] \in Nat /\ Len(inq[Backend[x]]) \in Nat
        /\ UNCHANGED <<sent, got>> /\ \A i \in 1 .. m : b[i] = ReplyUnit(x, k + i)
    BY ProdCounts, Written
  <2>3. k \in Nat /\ n =< MaxSent[Backend[x]] /\ k + m + Len(inq[Backend[x]]) = n
    <3>1. Working(x) /\ Owed(x) = m
      BY <2>1 DEF Working, Owed, Holding
    <3> QED  BY <3>1, MarkCounts, ProdCounts DEF ReplayInv, StartInv, Limits
  <2>4. k + m =< n
    <3> DEFINE l == Len(inq[Backend[x]])
    <3>1. k \in Nat /\ m \in Nat /\ n \in Nat /\ l \in Nat /\ k + m + l = n
      BY <2>2, <2>3
    <3> HIDE DEF b, m, k, n, l
    <3> QED  BY <3>1
  <2> HIDE DEF b, m, k, n
  <2> QED  BY <2>1, <2>2, <2>3, <2>4
<1> HIDE DEF b, m, k, n
<1>2. Units(b) = {ReplyUnit(x, i) : i \in first .. last}
  <2>1. Units(b) = {b[i] : i \in 1 .. m}
    BY DEF Units, m
  <2>2. ASSUME NEW i \in 1 .. m PROVE b[i] \in {ReplyUnit(x, j) : j \in first .. last}
    <3>1. k + i \in first .. last
      BY <1>1
    <3> QED  BY <1>1, <3>1
  <2>3. ASSUME NEW j \in first .. last PROVE ReplyUnit(x, j) \in {b[i] : i \in 1 .. m}
    <3>1. j - k \in 1 .. m /\ k + (j - k) = j
      BY <1>1
    <3> QED  BY <1>1, <3>1
  <2> QED  BY <2>1, <2>2, <2>3
<1>3. CASE m = 0
  <2>1. Units(b) = {}
    BY <1>1, <1>2, <1>3
  <2> QED  BY <1>1, <2>1
<1>4. CASE m # 0
  <2>1. first \in 1 .. n /\ last \in 1 .. n /\ first =< last
    BY <1>1, <1>4
  <2>2. ASSUME NEW j \in first .. last
        PROVE  /\ j \in 1 .. MaxSent[Backend[x]] /\ j > Mark(x)
               /\ ReplyUnit(x, j) \notin dropped
    <3>1. j \in 1 .. MaxSent[Backend[x]] /\ j > k
      BY <1>1
    <3>2. j > Mark(x)
      BY <3>1 DEF k
    <3> QED  BY <3>1, <3>2, Unseen
  <2>3. ASSUME NEW y \in Clone, NEW v \in Units(got[y]) \cap {ReplyUnit(x, i) : i \in 1 .. n}
        PROVE  v < ReplyUnit(x, first)
    <3>1. PICK i \in 1 .. n : v = ReplyUnit(x, i)
      OBVIOUS
    <3>2. i \in 1 .. MaxSent[Backend[x]] /\ v \in Played(y)
      BY <1>1 DEF Played
    <3>3. ~(i > Mark(x))
      BY <3>1, <3>2, Unseen
    <3>4. i < first /\ i \in Nat
      BY <1>1, <3>3 DEF k
    <3>5. Base[Backend[x]] \in Nat
      BY ProdCounts
    <3> QED  BY <1>1, <3>1, <3>4, <3>5 DEF ReplyUnit
  <2>4. /\ \A y \in Clone : Promise!Follows(y, x, Promise!Reply(x, first))
        /\ {Promise!Reply(x, i) : i \in first .. last} \cap dropped = {}
        /\ dropped' = dropped \cup {Promise!Reply(x, i) : i \in first .. last}
    <3>1. \A y \in Clone : Promise!Follows(y, x, Promise!Reply(x, first))
      BY <2>3, Meanings DEF Promise!Follows, n
    <3>2. {Promise!Reply(x, i) : i \in first .. last} = {ReplyUnit(x, i) : i \in first .. last}
      BY Meanings
    <3> QED  BY <1>1, <1>2, <2>2, <3>1, <3>2
  <2>5. Ties' = Ties
    <3>1. /\ pc' = [pc EXCEPT ![<<x, "W2">>] = "recv"] /\ pc[<<x, "W2">>] = "write" /\ idx' = idx
          /\ pc \in [Proc -> Step]
      BY DEF WritePipe, WriteAstray, Goto, aggVars, ReplayInv, StartInv, IsolInv, ProcInv, LoopInv
    <3> QED  BY <3>1, Procs, TiesStill
  <2> HIDE DEF first, last
  <2>6. \E i, j \in 1 .. n :
           /\ i =< j
           /\ \A y \in Clone : Promise!Follows(y, x, Promise!Reply(x, i))
           /\ {Promise!Reply(x, h) : h \in i .. j} \cap dropped = {}
           /\ dropped' = dropped \cup {Promise!Reply(x, h) : h \in i .. j}
    BY <2>1, <2>4
  <2> QED  BY <1>1, <2>5, <2>6 DEF Promise!GiveUp, Ties, n
<1> QED  BY <1>3, <1>4

LEMMA WorkerTies ==
  ASSUME NEW q \in Proc, pc[q] # "none", pc'[q] # "none",
         \A p \in Proc : p # q => pc'[p] = pc[p], idx' = idx
  PROVE  Ties' = Ties
<1>1. \A p \in Proc : pc'[p] = "none" <=> pc[p] = "none"
  OBVIOUS
<1>2. /\ \A a \in Prod : <<a, "W2">> \in Proc
      /\ \A y \in Clone : <<y, "R2">> \in Proc
  BY Procs
<1> QED  BY <1>1, <1>2, TiesStill

\* The workers: what is shown changes when W2 gives replies up.
LEMMA WorkersShown ==
  ASSUME ReplayInv, OnceInv,
         \/ \E x \in Prod : W1(x) \/ W2(x)
         \/ \E x \in Clone : R1(x) \/ R2(x) \/ R3(x)
  PROVE  (\E x \in Prod : Promise!GiveUp(x)) \/ UNCHANGED Promise!vars
<1>1. pc \in [Proc -> Step]
  BY DEF ReplayInv, StartInv, IsolInv, ProcInv, LoopInv
<1>2. ASSUME NEW x \in Prod, W1(x) PROVE UNCHANGED Promise!vars
  BY <1>2, W1Aloof, AloofShown
<1>3. ASSUME NEW x \in Prod, W2(x) PROVE Promise!GiveUp(x) \/ UNCHANGED Promise!vars
  <2>1. UNCHANGED aggVars /\ <<x, "W2">> \in Proc
    BY <1>3, Procs DEF W2
  <2>2. CASE /\ \/ Recv(<<x, "W2">>, Backend[x], "send", "shut1")
                \/ Send(<<x, "W2">>, "send", x, "write")
                \/ Shut2(<<x, "W2">>, x, Backend[x])
             /\ UNCHANGED pipeVars
    <3>1. UNCHANGED <<got, sent, dropped>>
      BY <2>1, <2>2, W2QuietOnce DEF pipeVars
    <3>2. /\ pc[<<x, "W2">>] # "none" /\ pc'[<<x, "W2">>] # "none"
          /\ \A p \in Proc : p # <<x, "W2">> => pc'[p] = pc[p]
      BY <1>1, <2>1, <2>2 DEF Recv, Send, Shut2, Shut, Goto
    <3> QED  BY <2>1, <3>1, <3>2, WorkerTies, Shown DEF aggVars
  <2>3. CASE WritePipe(<<x, "W2">>, idx[x], "recv") \/ WriteAstray(<<x, "W2">>, "recv")
    <3>1. /\ UNCHANGED <<got, sent, idx>>
          /\ pc[<<x, "W2">>] # "none" /\ pc'[<<x, "W2">>] # "none"
          /\ \A p \in Proc : p # <<x, "W2">> => pc'[p] = pc[p]
      BY <2>1, <2>3, Written
    <3>2. CASE dropped' = dropped
      BY <2>1, <3>1, <3>2, WorkerTies, Shown
    <3>3. CASE dropped' = dropped \cup Units(buf[<<x, "W2">>])
      BY <2>1, <2>3, <3>2, <3>3, OverflowGivesUp
    <3> QED  BY <2>3, <3>2, <3>3 DEF WritePipe, Put, Refuse, WriteAstray
  <2> QED  BY <1>3, <2>2, <2>3 DEF W2, forward_data_to_dest_and_pipe
<1>4. ASSUME NEW x \in Clone, R1(x) PROVE UNCHANGED Promise!vars
  BY <1>4, R1Aloof, AloofShown
<1>5. ASSUME NEW x \in Clone, NEW r \in {"R2", "R3"}, ReadPipe(<<x, r>>, idx[x]),
             UNCHANGED aggVars, idx[x] \in Index
      PROVE  UNCHANGED Promise!vars
  <2>1. UNCHANGED <<got, sent, idx, dropped>>
    BY <1>5, PipeReadOnce DEF ReadPipe, aggVars
  <2>2. /\ pc[<<x, r>>] # "none" /\ pc'[<<x, r>>] # "none" /\ <<x, r>> \in Proc
        /\ \A p \in Proc : p # <<x, r>> => pc'[p] = pc[p]
    <3>1. <<x, r>> \in Proc
      BY Procs
    <3> QED  BY <1>5, <3>1, ReadPipeParts
  <2> QED  BY <2>1, <2>2, WorkerTies, Shown
<1>6. ASSUME NEW x \in Clone, R2(x) PROVE UNCHANGED Promise!vars
  <2>1. UNCHANGED aggVars /\ <<x, "R2">> \in Proc
    BY <1>6, Procs DEF R2
  <2>2. CASE Send(<<x, "R2">>, "send", x, "recv") /\ UNCHANGED pipeVars
    <3>1. UNCHANGED <<got, sent, dropped>>
      BY <2>1, <2>2, R2SendOnce DEF pipeVars
    <3>2. /\ pc[<<x, "R2">>] # "none" /\ pc'[<<x, "R2">>] # "none"
          /\ \A p \in Proc : p # <<x, "R2">> => pc'[p] = pc[p]
      BY <1>1, <2>1, <2>2 DEF Send, Goto
    <3> QED  BY <2>1, <3>1, <3>2, WorkerTies, Shown DEF aggVars
  <2>3. CASE \/ ReadAstray(<<x, "R2">>, "shut1")
             \/ Shut(<<x, "R2">>, "shut1", x, "done") /\ UNCHANGED pipeVars
    BY <2>1, <2>3, AstrayAloof, AloofShown
  <2> QED  BY <1>5, <1>6, <2>1, <2>2, <2>3 DEF R2, read_pipe_dest
<1>7. ASSUME NEW x \in Clone, R3(x) PROVE UNCHANGED Promise!vars
  <2>1. UNCHANGED aggVars
    BY <1>7 DEF R3
  <2>2. CASE /\ pc[<<x, "R3">>] = "send" /\ Goto(<<x, "R3">>, "recv") /\ Drop(<<x, "R3">>, "recv")
             /\ UNCHANGED <<sockVars, off, pipeVars>>
    BY <2>1, <2>2, LostAloof, AloofShown
  <2>3. CASE ReadAstray(<<x, "R3">>, "done")
    BY <2>1, <2>3, AstrayAloof, AloofShown
  <2> QED  BY <1>5, <1>7, <2>1, <2>2, <2>3 DEF R3, read_pipe_nowhere
<1> QED  BY <1>2, <1>3, <1>4, <1>5, <1>6, <1>7

\* The n-th unit of a stream is what its reader reads after n - 1 of them.
LEMMA DeliverNext ==
  ASSUME ReplayInv, Answered, NEW a \in Prod, NEW s, NEW d, PeerRead(d), Ties' = Ties, dropped' = dropped,
         \/ s = a /\ d = Backend[a]
         \/ s = Backend[a] /\ d = a
  PROVE  Promise!Deliver(s, d)
<1> DEFINE g == Len(got[d])
           o == outq[d]
           n == sent[s]
           z == Base[s]
<1>1. /\ s \in Sock /\ d \in Sock /\ Ahead(s, d) /\ Passed(d) =< n
  <2>1. /\ a \in Sock /\ Backend[a] \in Sock /\ Ahead(a, Backend[a]) /\ Ahead(Backend[a], a)
        /\ Passed(Backend[a]) =< sent[a] /\ Passed(a) =< sent[Backend[a]]
    BY Socks DEF ReplayInv, StartInv, IsolInv, Streams, Stream, Answered
  <2> QED  BY <2>1
<1>2. /\ got \in [Sock -> Seq(Nat)] /\ g \in Nat /\ o \in Seq(Nat) /\ n \in Nat /\ z \in Nat
  <2>1. got \in [Sock -> Seq(Nat)] /\ outq \in [Sock -> Seq(Nat)] /\ sent \in [Sock -> Nat]
    BY DEF ReplayInv, StartInv, IsolInv, ProcInv, LoopInv, SockTypeOK
  <2> QED  BY <1>1, <2>1, BaseAssumption, LenProperties
<1>3. /\ o # <<>> /\ sent' = sent
      /\ got' = [got EXCEPT ![d] = Append(@, Head(o))]
  BY DEF PeerRead
<1>4. Len(o) > 0 /\ Len(o) \in Nat /\ Head(o) = o[1]
  BY <1>2, <1>3, HeadTailProperties, EmptySeq
<1>5. \A i \in 1 .. Len(o) : o[i] = z + g + i
  BY <1>1 DEF Ahead
<1>6. g + Len(o) =< n
  BY <1>1 DEF Passed
<1> HIDE DEF g, o, n, z
<1>7. Head(o) = z + g + 1 /\ g < n
  BY <1>2, <1>4, <1>5, <1>6
<1>8. /\ g < n
      /\ got' = [got EXCEPT ![d] = Append(@, z + Len(@) + 1)]
  BY <1>1, <1>2, <1>3, <1>7 DEF g
<1> QED  BY <1>3, <1>8 DEF Promise!Deliver, Ties, g, n, z

\* What a connection of the clone reads is a reply to one that uses the same pipe; it comes
\* behind those it has read, and was neither played to another nor given up.
LEMMA PlayNext ==
  ASSUME ReplayInv, OnceInv, NEW y \in Clone, PeerRead(y), Ties' = Ties, dropped' = dropped
  PROVE  \E a \in Prod : Promise!Play(a, y)
<1> DEFINE h == Head(outq[y])
<1>1. /\ got[y] \in Seq(Nat) /\ outq[y] \in Seq(Nat) /\ outq[y] # <<>> /\ y \in Conn
      /\ got' = [got EXCEPT ![y] = Append(@, h)] /\ sent' = sent
  BY CloneParts, Socks DEF PeerRead
<1>2. h \in Units(outq[y]) /\ h \in Played(y)
  <2>1. Len(outq[y]) \in Nat /\ Len(outq[y]) > 0 /\ h = outq[y][1]
    BY <1>1, HeadTailProperties, EmptySeq
  <2>2. 1 \in 1 .. Len(outq[y])
    BY <2>1
  <2> QED  BY <2>1, <2>2 DEF Units, Played
<1> HIDE DEF h
<1>3. pc[<<y, "R2">>] # "none" /\ idx[y] \in Index /\ h \in Copies(idx[y])
  BY <1>2, PlayedFrom
<1>4. PICK j \in Index : idx[y] = j
  BY <1>3
<1>5. PICK b \in Prod : /\ pc[<<b, "W2">>] # "none" /\ idx[b] = j /\ h \in Of(b)
                        /\ \E m \in 1 .. Mark(b) : h = ReplyUnit(b, m)
  BY <1>3, <1>4, CopyOf
<1>6. Ties[b] = j /\ Ties[y] = j /\ j # NumConns
  <2>1. b \in Conn /\ y \notin Prod
    BY Socks
  <2>2. j # NumConns
    BY QueueAssumption DEF Index
  <2> QED  BY <1>1, <1>3, <1>4, <1>5, <2>1, <2>2 DEF Ties, Tied
<1>7. /\ h \in {ReplyUnit(b, n) : n \in 1 .. sent[Backend[b]]}
      /\ {ReplyUnit(b, n) : n \in 1 .. sent[Backend[b]]} \subseteq Of(b)
  <2>1. /\ Mark(b) \in Nat /\ Mark(b) =< sent[Backend[b]] /\ sent[Backend[b]] \in Nat
        /\ sent[Backend[b]] =< MaxSent[Backend[b]] /\ MaxSent[Backend[b]] \in Nat
    BY MarkCounts, ProdCounts DEF ReplayInv, StartInv, Limits
  <2>2. 1 .. Mark(b) \subseteq 1 .. sent[Backend[b]]
        /\ 1 .. sent[Backend[b]] \subseteq 1 .. MaxSent[Backend[b]]
    BY <2>1
  <2> QED  BY <1>5, <2>2 DEF Of
<1>8. \A v \in Units(got[y]) \cap Of(b) : v < h
  <2>1. Rising(Chain(j, y), Of(b))
    BY <1>4 DEF OnceInv, Ordered
  <2> DEFINE t == Rest(y) \o pipes[j]
             l == Line(y)
  <2>2. Chain(j, y) = l \o t /\ l \in Seq(Nat) /\ t \in Seq(Nat)
    BY CloneParts DEF Chain
  <2>3. l = got[y] \o outq[y]
    BY DEF Line
  <2> HIDE DEF l, t
  <2>4. Rising(l, Of(b))
    BY <2>1, <2>2, RisingJoin
  <2>5. Rising(got[y] \o outq[y], Of(b))
    BY <2>3, <2>4
  <2>6. \A v \in Units(got[y]) \cap Of(b), w \in Units(outq[y]) \cap Of(b) : v < w
    BY <1>1, <2>5, RisingJoin
  <2> QED  BY <1>2, <1>5, <2>6
<1>9. h \in Nat /\ ~(h < h)
  BY <1>1, <1>2, UnitsType
<1>10. h \notin dropped /\ \A z \in Clone : h \notin Units(got[z])
  <2>1. h \notin Units(got[y])
    BY <1>5, <1>8, <1>9
  <2>2. ASSUME NEW z \in Clone, z # y PROVE h \notin Units(got[z])
    <3>1. Played(y) \cap Played(z) = {}
      BY <2>2 DEF OnceInv, Apart
    <3> QED  BY <1>2, <3>1 DEF Played
  <2>3. h \notin dropped
    BY <1>2 DEF OnceInv, GivenUp
  <2> QED  BY <2>1, <2>2, <2>3
<1>11. /\ h \in Promise!Replies(b) \ dropped
       /\ \A z \in Clone : h \notin Promise!Has(z)
       /\ Promise!Follows(y, b, h)
  <2>1. h \in Promise!Replies(b) \ dropped /\ \A z \in Clone : h \notin Promise!Has(z)
    BY <1>7, <1>10, Meanings
  <2>2. \A v \in Promise!Has(y) \cap Promise!Replies(b) : v < h
    BY <1>7, <1>8, Meanings
  <2> QED  BY <2>1, <2>2 DEF Promise!Follows
<1>12. \E u \in Promise!Replies(b) \ dropped :
          /\ \A z \in Clone : u \notin Promise!Has(z)
          /\ Promise!Follows(y, b, u)
          /\ got' = [got EXCEPT ![y] = Append(@, u)]
  BY <1>1, <1>11
<1>13. Ties[b] = Ties[y] /\ Ties[b] # NumConns
  BY <1>6
<1> QED  BY <1>1, <1>12, <1>13, Zenon DEF Promise!Play, Ties

\* The peers.
LEMMA PeersShown ==
  ASSUME ReplayInv, OnceInv, Answered, NEW s \in Sock,
         Reads(s) \/ Writes(s) \/ Quits(s) \/ Resets(s)
  PROVE  \/ \E x \in Promise!End : Promise!Write(x)
         \/ \E a \in Prod : Promise!Deliver(a, Backend[a]) \/ Promise!Deliver(Backend[a], a)
         \/ \E a \in Prod, y \in Clone : Promise!Play(a, y)
         \/ UNCHANGED Promise!vars
<1>1. UNCHANGED <<pc, idx, dropped>>
  BY DEF Reads, Writes, Quits, Resets, procVars, aggVars, pipeVars
<1>2. Ties' = Ties
  BY <1>1, TiesStill
<1>3. CASE Quits(s) \/ Resets(s)
  <2>1. UNCHANGED <<got, sent>>
    BY <1>3 DEF Quits, Resets, PeerHalfClose, PeerClose, Reset
  <2> QED  BY <1>1, <1>2, <2>1, Shown
<1>4. CASE Writes(s)
  <2>1. sent' = [sent EXCEPT ![s] = @ + 1] /\ UNCHANGED <<got, dropped>>
    BY <1>1, <1>4 DEF Writes, PeerWrite
  <2>2. Promise!Write(s)
    BY <1>2, <2>1, Zenon DEF Promise!Write, Ties
  <2> QED  BY <2>2, Meanings
<1>5. CASE Reads(s)
  <2>1. PeerRead(s)
    BY <1>5 DEF Reads
  <2>2. CASE s \in Clone
    BY <1>1, <1>2, <2>1, <2>2, PlayNext
  <2>3. CASE s \in Prod
    <3>1. Promise!Deliver(Backend[s], s)
      BY <1>1, <1>2, <2>1, <2>3, DeliverNext
    <3> QED  BY <2>3, <3>1
  <2>4. CASE \E a \in Prod : s = Backend[a]
    <3>1. PICK a \in Prod : s = Backend[a]
      BY <2>4
    <3>2. Promise!Deliver(a, Backend[a])
      BY <1>1, <1>2, <2>1, <3>1, DeliverNext
    <3> QED  BY <3>2
  <2> QED  BY <2>2, <2>3, <2>4, ConnAssumption DEF Conn
<1> QED  BY <1>3, <1>4, <1>5

LEMMA StepExchanges ==
  ASSUME ReplayInv, OnceInv, Answered, [Next]_vars
  PROVE  [Promise!Next]_(Promise!vars)
<1>1. CASE UNCHANGED vars
  <2>1. Aloof /\ UNCHANGED <<got, sent>>
    BY <1>1 DEF vars, sockVars, aggVars, pipeVars, Aloof, Idle
  <2> QED  BY <2>1, AloofShown
<1>2. CASE \E x \in Conn : Accept(x) \/ handle_client(x) \/ Terminated(x)
  <2>1. PICK x \in Conn : Accept(x) \/ handle_client(x) \/ Terminated(x)
    BY <1>2
  <2>2. CASE ForkSecond(x)
    <3>1. (\E q \in Index : Promise!Tie(x, q)) \/ UNCHANGED Promise!vars
      BY <2>2, ForkTies
    <3> QED  BY <2>1, <3>1 DEF Promise!Next, Conn
  <2>3. CASE \/ Accept(x) \/ CreateConnection(x) \/ CheckOrder(x) \/ GetCounter(x)
             \/ increment_shm_counter(x) \/ ForkFirst(x) \/ Terminated(x)
    BY <2>3, HandlersAloof, AloofShown
  <2> QED  BY <2>1, <2>2, <2>3 DEF handle_client
<1>3. CASE \/ \E x \in Prod : W1(x) \/ W2(x)
           \/ \E x \in Clone : R1(x) \/ R2(x) \/ R3(x)
  BY <1>3, WorkersShown DEF Promise!Next
<1>4. CASE \E s \in Sock : Reads(s) \/ Writes(s) \/ Quits(s) \/ Resets(s)
  BY <1>4, PeersShown DEF Promise!Next
<1> QED  BY <1>1, <1>2, <1>3, <1>4 DEF Next

\* Seen from the containers and the backend the aggregator is an Exchange, for every number of
\* connections and pipes and every size of them, whichever connections end up with the same
\* pipe and whoever leaves, is killed or reads with an R3: production and its backend have
\* each other's streams, no reply of the backend is played twice, to one connection or to two,
\* none that was given up or came through another pipe is played, and those to one connection
\* are played in their order.
THEOREM AggExchanges == Spec => ExchangesReplies
<1>1. Init => Promise!Init /\ Answered
  <2> SUFFICES ASSUME Init PROVE Promise!Init /\ Answered
    OBVIOUS
  <2>1. /\ sent = [s \in Promise!End |-> 0] /\ got = [s \in Promise!End |-> <<>>] /\ dropped = {}
    BY Meanings DEF Init, SockInit
  <2>2. Ties = [x \in Conn |-> NumConns]
    <3>1. \A x \in Conn : Tied(x, IF x \in Prod THEN "W2" ELSE "R2") = NumConns
      BY Procs DEF Init, Tied, Conn
    <3> QED  BY <3>1 DEF Ties
  <2>3. Promise!Init
    BY <2>1, <2>2, Zenon DEF Promise!Init, Ties, Conn
  <2>4. Answered
    <3>1. Len(<<>>) = 0 /\ 0 + 0 = 0 /\ 0 =< 0
      OBVIOUS
    <3>2. \A a \in Prod : \A s \in {a, Backend[a]} : got[s] = <<>> /\ outq[s] = <<>> /\ sent[s] = 0
      BY Socks DEF Init, SockInit
    <3> QED  BY <3>1, <3>2 DEF Answered, Passed
  <2> QED  BY <2>3, <2>4
<1> QED  BY <1>1, InitReplay, InitOnce, NextReplay, NextOnce, NextAnswered, StepExchanges, PTL
         DEF Spec, ExchangesReplies, Promise!Spec
=============================================================================
