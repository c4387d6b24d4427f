----------------------- MODULE AggregatorReplayProofs -----------------------
(***************************************************************************)
(* Theorems about what the aggregator answers the clone with, for every    *)
(* value of the constants: only what production has been answered with,    *)
(* and, where a pipe has one writer and one reader, all of it in order but *)
(* for the overflow.                                                       *)
(***************************************************************************)
EXTENDS AggregatorProofs

----------------------------------------------------------------------------
(* Queues that are joined.                                                 *)

\* A queue is its first k units and the others.
LEMMA Parts ==
  ASSUME NEW q \in Seq(Nat), NEW k \in 0 .. Len(q)
  PROVE  /\ SubSeq(q, 1, k) \in Seq(Nat) /\ SubSeq(q, k + 1, Len(q)) \in Seq(Nat)
         /\ SubSeq(q, 1, k) \o SubSeq(q, k + 1, Len(q)) = q
<1>1. /\ Len(q) \in Nat /\ k \in 1 - 1 .. Len(q) /\ Len(q) \in k .. Len(q)
      /\ 1 \in 1 .. Len(q) + 1 /\ k + 1 \in Int
      /\ \A i \in k + 1 .. Len(q) : i \in 1 .. Len(q)
  BY LenProperties
<1>2. SubSeq(q, 1, k) \in Seq(Nat)
  BY Prefix
<1>3. SubSeq(q, k + 1, Len(q)) \in Seq(Nat)
  <2>1. \A i \in k + 1 .. Len(q) : q[i] \in Nat
    BY <1>1, ElementOfSeq
  <2> QED  BY <1>1, <2>1, SubSeqProperties
<1>4. SubSeq(q, 1, k) \o SubSeq(q, k + 1, Len(q)) = SubSeq(q, 1, Len(q))
  BY <1>1, ConcatAdjacentSubSeq
<1> QED  BY <1>2, <1>3, <1>4, SubSeqFull

\* What send() has still to hand over: a unit and what follows it.
LEMMA Unsent ==
  ASSUME NEW b \in Seq(Nat), NEW k \in Nat, k < Len(b)
  PROVE  /\ b[k + 1] \in Nat /\ SubSeq(b, k + 2, Len(b)) \in Seq(Nat)
         /\ SubSeq(b, k + 1, Len(b)) = <<b[k + 1]>> \o SubSeq(b, k + 2, Len(b))
         /\ k + 1 = Len(b) => SubSeq(b, k + 2, Len(b)) = <<>>
<1>1. /\ Len(b) \in Nat /\ k + 1 \in 1 .. Len(b) /\ Len(b) \in k + 1 .. Len(b)
      /\ (k + 1) + 1 = k + 2 /\ k + 1 \in 0 .. Len(b) /\ k + 2 \in Int /\ Len(b) < Len(b) + 1
      /\ k + 1 = Len(b) => Len(b) < k + 2
  BY LenProperties
<1>2. SubSeq(b, k + 1, Len(b)) = <<b[k + 1]>> \o SubSeq(b, (k + 1) + 1, Len(b))
  BY <1>1, SubSeqRecursiveFirst
<1>3. SubSeq(b, (k + 1) + 1, Len(b)) \in Seq(Nat)
  BY <1>1, Parts
<1>4. k + 1 = Len(b) => SubSeq(b, k + 2, Len(b)) = <<>>
  BY <1>1, SubSeqEmpty
<1> QED  BY <1>1, <1>2, <1>3, <1>4, ElementOfSeq

\* A queue that is not empty: its first unit and the others.
LEMMA First ==
  ASSUME NEW q \in Seq(Nat), q # <<>>
  PROVE  Head(q) \in Nat /\ Tail(q) \in Seq(Nat) /\ q = <<Head(q)>> \o Tail(q)
<1>1. /\ Head(q) \in Nat /\ Tail(q) \in Seq(Nat) /\ Head(q) = q[1]
  BY HeadTailProperties
<1>2. Len(q) \in Nat /\ Len(q) # 0 /\ 1 \in 1 .. Len(q) /\ Len(q) \in 1 .. Len(q) /\ 1 + 1 = 2
  <2>1. Len(q) \in Nat /\ Len(q) # 0
    BY EmptySeq, LenProperties
  <2> QED  BY <2>1
<1>3. SubSeq(q, 1, Len(q)) = q
  BY SubSeqFull
<1>4. q = <<q[1]>> \o SubSeq(q, 2, Len(q))
  BY <1>2, <1>3, SubSeqRecursiveFirst
<1>5. Tail(q) = SubSeq(q, 2, Len(q))
  <2>1. Tail(SubSeq(q, 1, Len(q))) = SubSeq(q, 1 + 1, Len(q))
    BY <1>2, HeadTailOfSubSeq
  <2> QED  BY <1>2, <1>3, <2>1
<1> QED  BY <1>1, <1>4, <1>5

\* The reader of a queue moves its first unit to the end of what it has.
LEMMA ReadLine ==
  ASSUME NEW g \in Seq(Nat), NEW o \in Seq(Nat), o # <<>>
  PROVE  /\ Append(g, Head(o)) \o Tail(o) = g \o o
         /\ Units(Append(g, Head(o))) \cup Units(Tail(o)) = Units(g) \cup Units(o)
<1> DEFINE h == Head(o)
           t == Tail(o)
           e == <<h>>
<1>1. h \in Nat /\ t \in Seq(Nat) /\ o = e \o t
  BY First
<1> HIDE DEF h, t
<1>2. /\ Append(g, h) = g \o e /\ Units(Append(g, h)) = Units(g) \cup {h}
      /\ e \in Seq(Nat) /\ Units(e) = {h}
  <2>1. Append(g, h) = g \o e
    BY <1>1, AppendIsConcat
  <2>2. Units(Append(g, h)) = Units(g) \cup {h} /\ e \in Seq(Nat) /\ Units(e) = {h}
    BY <1>1, Snoc, SMTT(60)
  <2> QED  BY <2>1, <2>2
<1> HIDE DEF e
<1>3. Grouped(g, e, t)
  BY <1>1, <1>2, Regroup
<1>4. Append(g, h) \o t = g \o o
  BY <1>1, <1>2, <1>3, Zenon DEF Grouped
<1>5. Units(e \o t) = Units(e) \cup Units(t)
  BY <1>1, <1>2, Splice
<1> QED  BY <1>1, <1>2, <1>4, <1>5 DEF h, t

\* A unit u goes from the front of one queue to the end of the one before it.
HandedOver(g, o, t, p, u) ==
    /\ (g \o Append(o, u)) \o (t \o p) = (g \o o) \o ((<<u>> \o t) \o p)
    /\ g \o Append(o, u) \in Seq(Nat) /\ t \o p \in Seq(Nat)
    /\ Units(Append(o, u)) \cup Units(t) = Units(o) \cup Units(<<u>> \o t)

LEMMA HandOver ==
  ASSUME NEW g \in Seq(Nat), NEW o \in Seq(Nat), NEW t \in Seq(Nat), NEW p \in Seq(Nat),
         NEW u \in Nat
  PROVE  HandedOver(g, o, t, p, u)
<1> DEFINE e == <<u>>
<1>1. /\ g \o Append(o, u) = (g \o o) \o e /\ e \in Seq(Nat) /\ Units(e) = {u}
      /\ Units(Append(o, u)) = Units(o) \cup {u}
  BY Snoc, SMTT(60)
<1> HIDE DEF e
<1> DEFINE l == g \o o
           r == t \o p
<1>2. l \in Seq(Nat) /\ r \in Seq(Nat) /\ l \o e \in Seq(Nat)
  BY <1>1, Splice
<1>3. Grouped(e, t, p) /\ Grouped(l, e, r)
  BY <1>1, <1>2, Regroup
<1>4. (l \o e) \o r = l \o ((e \o t) \o p)
  <2>1. (e \o t) \o p = e \o r
    BY <1>3, Zenon DEF Grouped
  <2>2. (l \o e) \o r = l \o (e \o r)
    BY <1>3, Zenon DEF Grouped
  <2> QED  BY <2>1, <2>2, Zenon
<1>5. Units(e \o t) = Units(e) \cup Units(t)
  BY <1>1, Splice
<1> QED  BY <1>1, <1>2, <1>4, <1>5 DEF e, HandedOver

\* A queue is put behind the last of three.
Lengthened(l, r, p, b) == l \o (r \o (p \o b)) = (l \o (r \o p)) \o b

LEMMA PutBehind ==
  ASSUME NEW l \in Seq(Nat), NEW r \in Seq(Nat), NEW p \in Seq(Nat), NEW b \in Seq(Nat)
  PROVE  Lengthened(l, r, p, b)
<1> DEFINE s == r \o p
<1>1. s \in Seq(Nat)
  BY Splice
<1>2. Grouped(r, p, b) /\ Grouped(l, s, b)
  BY <1>1, Regroup
<1> QED  BY <1>2, Zenon DEF Grouped, Lengthened

----------------------------------------------------------------------------
(* A replay.                                                               *)

\* q has units beyond z in order, and skips only those of d.
Replays(z, q, d) ==
    /\ \A i, j \in 1 .. Len(q) : i < j => q[i] < q[j]
    /\ \A i \in 1 .. Len(q) :
          /\ q[i] > z
          /\ \A u \in z + 1 .. q[i] : u \in d \/ \E j \in 1 .. i : q[j] = u

\* The beginning of a replay is one, and units given up later do no harm.
LEMMA ReplaysPrefix ==
  ASSUME NEW q \in Seq(Nat), NEW r \in Seq(Nat), NEW z, NEW d, Replays(z, q \o r, d)
  PROVE  Replays(z, q, d)
<1> DEFINE m == Len(q)
           s == q \o r
<1>1. m \in Nat /\ Len(s) \in Nat /\ m =< Len(s) /\ \A i \in 1 .. m : s[i] = q[i]
  BY Splice, LenProperties
<1>2. /\ \A i, j \in 1 .. Len(s) : i < j => s[i] < s[j]
      /\ \A i \in 1 .. Len(s) :
            /\ s[i] > z
            /\ \A u \in z + 1 .. s[i] : u \in d \/ \E j \in 1 .. i : s[j] = u
  BY DEF Replays
<1> HIDE DEF m, s
<1>3. \A i \in 1 .. m : i \in 1 .. Len(s) /\ 1 .. i \subseteq 1 .. m
  BY <1>1
<1>4. \A i, j \in 1 .. m : i < j => q[i] < q[j]
  BY <1>1, <1>2, <1>3
<1>5. ASSUME NEW i \in 1 .. m
      PROVE  /\ q[i] > z
             /\ \A u \in z + 1 .. q[i] : u \in d \/ \E j \in 1 .. i : q[j] = u
  <2>1. i \in 1 .. Len(s) /\ s[i] = q[i] /\ \A j \in 1 .. i : s[j] = q[j]
    BY <1>1, <1>3
  <2>2. /\ q[i] > z
        /\ \A u \in z + 1 .. q[i] : u \in d \/ \E j \in 1 .. i : s[j] = u
    BY <1>2, <2>1, Zenon
  <2>3. \A u : (\E j \in 1 .. i : s[j] = u) => \E j \in 1 .. i : q[j] = u
    BY <2>1, Zenon
  <2> QED  BY <2>2, <2>3, Zenon
<1> QED  BY <1>4, <1>5 DEF Replays, m

LEMMA ReplaysMore ==
  ASSUME NEW q, NEW z, NEW d, NEW e, Replays(z, q, d), d \subseteq e
  PROVE  Replays(z, q, e)
BY DEF Replays

LEMMA ReplaysNothing ==
  ASSUME NEW z, NEW d
  PROVE  Replays(z, <<>>, d)
<1>1. \A i \in 1 .. Len(<<>>) : FALSE
  OBVIOUS
<1> QED  BY <1>1, Zenon DEF Replays

\* A replay of all up to z + m that is not given up goes on with z + m + 1.
LEMMA ReplaysExtend ==
  ASSUME NEW q \in Seq(Nat), NEW b \in Seq(Nat), NEW d, NEW z \in Nat, NEW m \in Nat,
         Replays(z, q, d),
         \A u \in Units(q) : u =< z + m,
         \A n \in 1 .. m : z + n \in d \cup Units(q),
         \A i \in 1 .. Len(b) : b[i] = z + m + i
  PROVE  /\ Replays(z, q \o b, d)
         /\ \A n \in 1 .. m + Len(b) : z + n \in d \cup Units(q \o b)
<1> DEFINE s == q \o b
           k == Len(q)
           n == Len(b)
<1>1. /\ k \in Nat /\ n \in Nat /\ Len(s) = k + n
      /\ \A i \in 1 .. k : s[i] = q[i]
      /\ \A i \in 1 .. n : s[k + i] = z + m + i
      /\ Units(s) = Units(q) \cup Units(b)
  BY Splice, LenProperties
<1>2. \A i \in 1 .. k : q[i] \in Units(q) /\ q[i] \in Nat /\ q[i] =< z + m
  BY ElementOfSeq DEF Units
<1>3. /\ \A i, j \in 1 .. k : i < j => q[i] < q[j]
      /\ \A i \in 1 .. k :
            /\ q[i] > z
            /\ \A u \in z + 1 .. q[i] : u \in d \/ \E j \in 1 .. i : q[j] = u
  BY DEF Replays
<1>4. \A l \in 1 .. m : z + l \in d \/ \E j \in 1 .. k : q[j] = z + l
  BY DEF Units
<1>5. \A i \in 1 .. n : z + m + i \in Units(b)
  BY DEF Units
<1> HIDE DEF s, k, n
<1>6. ASSUME NEW i \in 1 .. k + n
      PROVE  \/ i \in 1 .. k /\ s[i] = q[i]
             \/ i - k \in 1 .. n /\ s[i] = z + m + (i - k)
  <2>1. CASE i =< k
    BY <1>1, <2>1
  <2>2. CASE i > k
    <3>1. i - k \in 1 .. n /\ k + (i - k) = i
      BY <1>1, <2>2
    <3> QED  BY <1>1, <3>1
  <2> QED  BY <1>1, <2>1, <2>2
<1>7. ASSUME NEW i \in 1 .. k + n, NEW j \in 1 .. k + n, i < j PROVE s[i] < s[j]
  <2>1. CASE j \in 1 .. k
    <3>1. i \in 1 .. k
      BY <1>1, <1>7, <2>1
    <3> QED  BY <1>1, <1>3, <1>7, <2>1, <3>1
  <2>2. CASE j - k \in 1 .. n /\ s[j] = z + m + (j - k)
    <3>1. CASE i \in 1 .. k /\ s[i] = q[i]
      <4>1. s[i] \in Nat /\ s[i] =< z + m
        BY <1>2, <3>1
      <4>2. z + m < s[j] /\ s[j] \in Nat
        BY <1>1, <2>2
      <4> QED  BY <4>1, <4>2
    <3>2. CASE i - k \in 1 .. n /\ s[i] = z + m + (i - k)
      BY <1>1, <1>7, <2>2, <3>2
    <3> QED  BY <1>6, <3>1, <3>2
  <2> QED  BY <1>6, <2>1, <2>2
<1>8. ASSUME NEW i \in 1 .. k + n
      PROVE  /\ s[i] > z
             /\ \A u \in z + 1 .. s[i] : u \in d \/ \E j \in 1 .. i : s[j] = u
  <2>1. CASE i \in 1 .. k /\ s[i] = q[i]
    <3>1. \A j \in 1 .. i : j \in 1 .. k /\ s[j] = q[j]
      BY <1>1, <2>1
    <3>2. \A u \in z + 1 .. s[i] : u \in d \/ \E j \in 1 .. i : q[j] = u
      BY <1>3, <2>1
    <3>3. \A u : (\E j \in 1 .. i : q[j] = u) => \E j \in 1 .. i : s[j] = u
      BY <3>1, Zenon
    <3> QED  BY <1>3, <2>1, <3>2, <3>3, Zenon
  <2>2. CASE i - k \in 1 .. n /\ s[i] = z + m + (i - k)
    <3>1. s[i] > z
      BY <1>1, <2>2
    <3>2. ASSUME NEW u \in z + 1 .. s[i], u \notin d PROVE \E j \in 1 .. i : s[j] = u
      <4>1. CASE u =< z + m
        <5>1. u - z \in 1 .. m /\ z + (u - z) = u
          BY <1>1, <2>2, <3>2, <4>1
        <5>2. PICK j \in 1 .. k : q[j] = u
          BY <1>4, <3>2, <5>1
        <5>3. j \in 1 .. i /\ s[j] = u
          BY <1>1, <2>2, <5>2
        <5> QED  BY <5>3
      <4>2. CASE u > z + m
        <5> DEFINE l == u - (z + m)
        <5>1. l \in 1 .. n /\ k + l \in 1 .. i /\ z + m + l = u
          BY <1>1, <2>2, <3>2, <4>2
        <5> HIDE DEF l
        <5> QED  BY <1>1, <5>1
      <4> QED  BY <2>2, <4>1, <4>2
    <3> QED  BY <3>1, <3>2
  <2> QED  BY <1>6, <2>1, <2>2
<1>9. ASSUME NEW l \in 1 .. m + n PROVE z + l \in d \cup Units(s)
  <2>1. CASE l =< m
    <3>1. l \in 1 .. m
      BY <1>1, <2>1
    <3> QED  BY <1>1, <3>1
  <2>2. CASE l > m
    <3> DEFINE j == l - m
    <3>1. j \in 1 .. n /\ z + m + j = z + l
      BY <1>1, <2>2
    <3> HIDE DEF j
    <3> QED  BY <1>1, <1>5, <3>1
  <2> QED  BY <1>1, <2>1, <2>2
<1> QED  BY <1>1, <1>7, <1>8, <1>9 DEF Replays, s, n

----------------------------------------------------------------------------
(* The invariant.                                                          *)

\* What the clone's connection y has read and has still to read, what R2 has read
\* from the pipe and not yet sent, and with the pipe behind them all that y may get.
Line(y) == got[y] \o outq[y]
Rest(y) == IF pc[<<y, "R2">>] = "send"
           THEN SubSeq(buf[<<y, "R2">>], off[<<y, "R2">>] + 1, Len(buf[<<y, "R2">>]))
           ELSE <<>>
Chain(i, y) == Line(y) \o (Rest(y) \o pipes[i])

\* The units that came out of pipe i to a connection that reads it, or are in it.
Played(y) == Units(got[y]) \cup Units(outq[y]) \cup Units(Rest(y))
Copies(i) == Units(pipes[i]) \cup UNION {Played(y) : y \in Readers(i)}

\* W2 may still write the pipe; what of its buffer it has still to write; and the
\* number of the last reply that it has written or given up.
Holding == {"send", "write"}
Working(a) == pc[<<a, "W2">>] \in {"none", "recv"} \cup Holding
Owed(a) == IF pc[<<a, "W2">>] \in Holding THEN Len(buf[<<a, "W2">>]) ELSE 0
Mark(a) == IF Working(a) THEN sent[Backend[a]] - Len(inq[Backend[a]]) - Owed(a)
           ELSE sent[Backend[a]]

\* Production can be answered; y reads no pipe; nothing has been lost behind what y
\* has still to read; and y is the reader of pipe i, or may become it, and a is its writer.
Standing(a) == Writable(a) /\ ~Gone(a)
Idle(y) == pc[<<y, "R2">>] = "none" /\ pc[<<y, "R3">>] = "none"
Live(y) == pc[<<y, "R2">>] \in {"none", "recv", "send"} /\ ~shut[y] /\ peer[y] # "closed"
Paired(i, a, y) == /\ Writers(i) = {a} /\ Readers(i) \subseteq {y}
                   /\ idx[y] = i \/ Idle(y)

\* The bound on what is written, and what has not happened yet to a connection that
\* has not been accepted, has no W2, no R2 or no pipe, and what has once R3 is there.
Limits == \A s \in Sock : sent[s] =< MaxSent[s]
Untouched ==
    /\ \A x \in Conn : pc[Handler(x)] = "none" => peer[x] = "away"
    /\ \A a \in Prod : pc[<<a, "W2">>] = "none" => got[a] = <<>>
    /\ \A y \in Clone :
          /\ pc[<<y, "R2">>] = "none" => got[y] = <<>> /\ outq[y] = <<>>
          /\ pc[<<y, "R1">>] = "fork" \/ pc[<<y, "R3">>] # "none" => shut[y]
          /\ idx[y] \notin Index => pc[<<y, "R2">>] # "send" /\ got[y] = <<>> /\ outq[y] = <<>>

\* W2's buffer comes right before what waits at the backend's socket.
Took(a) ==
    pc[<<a, "W2">>] \in Holding =>
        /\ Len(inq[Backend[a]]) + Len(buf[<<a, "W2">>]) =< sent[Backend[a]]
        /\ \A k \in 1 .. Len(buf[<<a, "W2">>]) :
              buf[<<a, "W2">>][k] = ReplyUnit(a, sent[Backend[a]] - Len(inq[Backend[a]])
                                                  - Len(buf[<<a, "W2">>]) + k)
Taken == \A a \in Prod : Took(a)

\* Copies are of replies that a writer of the pipe has handed on, and of a connection
\* that stands only of those that production has been given.
Sources ==
    \A i \in Index : \A u \in Copies(i) :
        \E b \in Writers(i) : \E m \in 1 .. Mark(b) : u = ReplyUnit(b, m)
Followed ==
    \A a \in Prod : Standing(a) =>
        \A i \in Index : \A n \in 1 .. MaxSent[Backend[a]] :
            ReplyUnit(a, n) \in Copies(i) => n =< Passed(a)

\* Between one writer and one reader.
Replay(i, a, y) ==
    /\ Replays(Base[Backend[a]], Line(y), dropped)
    /\ Live(y) =>
          /\ Replays(Base[Backend[a]], Chain(i, y), dropped)
          /\ Working(a) => \A n \in 1 .. Mark(a) :
                              ReplyUnit(a, n) \in dropped \cup Units(Chain(i, y))
Replayed ==
    \A i \in Index, a \in Prod, y \in Clone : Paired(i, a, y) => Replay(i, a, y)

StartInv == IsolInv /\ Limits /\ Untouched
CopyInv == Taken /\ Sources /\ Followed /\ Replayed
ReplayInv == StartInv /\ CopyInv

\* The numbers and queues of the proofs below.
LEMMA ProdCounts ==
  ASSUME ReplayInv, NEW a \in Prod
  PROVE  /\ a \in Sock /\ Backend[a] \in Sock /\ <<a, "W2">> \in Proc
         /\ sent[Backend[a]] \in Nat /\ Base[Backend[a]] \in Nat /\ MaxSent[Backend[a]] \in Nat
         /\ inq[Backend[a]] \in Seq(Nat) /\ Len(inq[Backend[a]]) \in Nat
         /\ buf[<<a, "W2">>] \in Seq(Nat) /\ Len(buf[<<a, "W2">>]) \in Nat
         /\ Owed(a) \in Nat /\ Passed(a) \in Nat
<1>1. a \in Sock /\ Backend[a] \in Sock /\ <<a, "W2">> \in Proc
  BY Socks, Procs
<1>2. LoopInv(Proc, Step, {"send"})
  BY DEF ReplayInv, StartInv, IsolInv, ProcInv
<1>3. /\ sent[Backend[a]] \in Nat /\ Base[Backend[a]] \in Nat
      /\ inq[Backend[a]] \in Seq(Nat) /\ Len(inq[Backend[a]]) \in Nat
      /\ buf[<<a, "W2">>] \in Seq(Nat) /\ Len(buf[<<a, "W2">>]) \in Nat
      /\ Passed(a) \in Nat
  BY <1>1, <1>2, StreamCounts
<1>4. Owed(a) \in Nat
  BY <1>3 DEF Owed
<1> QED  BY <1>1, <1>3, <1>4, QueueAssumption

\* Mark splits what the backend has written.
LEMMA MarkCounts ==
  ASSUME ReplayInv, NEW a \in Prod
  PROVE  /\ Mark(a) \in Nat /\ Mark(a) =< sent[Backend[a]]
         /\ Mark(a) =< MaxSent[Backend[a]]
         /\ Working(a) => Mark(a) + Owed(a) + Len(inq[Backend[a]]) = sent[Backend[a]]
<1> DEFINE n == sent[Backend[a]]
           q == Len(inq[Backend[a]])
           o == Owed(a)
<1>1. n \in Nat /\ q \in Nat /\ o \in Nat
  BY ProdCounts
<1>2. q + o =< n
  <2>1. q =< n
    BY DEF ReplayInv, StartInv, IsolInv, Streams, Stream, Behind
  <2>2. pc[<<a, "W2">>] \in Holding => q + Len(buf[<<a, "W2">>]) =< n
    BY DEF ReplayInv, CopyInv, Taken, Took
  <2>3. CASE pc[<<a, "W2">>] \in Holding
    BY <2>2, <2>3 DEF Owed
  <2>4. CASE pc[<<a, "W2">>] \notin Holding
    <3>1. o = 0
      BY <2>4 DEF Owed
    <3> HIDE DEF n, q, o
    <3> QED  BY <1>1, <2>1, <3>1
  <2> QED  BY <2>3, <2>4
<1>3. Mark(a) = IF Working(a) THEN n - q - o ELSE n
  BY DEF Mark
<1>4. n =< MaxSent[Backend[a]] /\ MaxSent[Backend[a]] \in Nat
  BY ProdCounts DEF ReplayInv, StartInv, Limits
<1> HIDE DEF n, q, o
<1>5. /\ Mark(a) \in Nat /\ Mark(a) =< n /\ (Working(a) => Mark(a) + o + q = n)
      /\ Mark(a) =< MaxSent[Backend[a]]
  BY <1>1, <1>2, <1>3, <1>4
<1> QED  BY <1>5 DEF n, q, o

\* The parts of what a connection of the clone may get are queues.
LEMMA CloneParts ==
  ASSUME ReplayInv, NEW y \in Clone
  PROVE  /\ y \in Sock /\ <<y, "R1">> \in Proc /\ <<y, "R2">> \in Proc /\ <<y, "R3">> \in Proc
         /\ got[y] \in Seq(Nat) /\ outq[y] \in Seq(Nat) /\ Line(y) \in Seq(Nat)
         /\ Rest(y) \in Seq(Nat)
         /\ buf[<<y, "R2">>] \in Seq(Nat) /\ off[<<y, "R2">>] \in Nat
         /\ pc[<<y, "R2">>] = "send" => off[<<y, "R2">>] < Len(buf[<<y, "R2">>])
         /\ Units(Line(y)) = Units(got[y]) \cup Units(outq[y])
         /\ \A i \in Index : /\ pipes[i] \in Seq(Nat) /\ Rest(y) \o pipes[i] \in Seq(Nat)
                             /\ Chain(i, y) \in Seq(Nat)
                             /\ Units(Chain(i, y)) = Played(y) \cup Units(pipes[i])
<1>1. y \in Sock /\ <<y, "R1">> \in Proc /\ <<y, "R2">> \in Proc /\ <<y, "R3">> \in Proc
  BY Socks, Procs
<1>2. LoopInv(Proc, Step, {"send"}) /\ PipeInv
  BY DEF ReplayInv, StartInv, IsolInv, ProcInv
<1>3. /\ got[y] \in Seq(Nat) /\ outq[y] \in Seq(Nat)
      /\ buf[<<y, "R2">>] \in Seq(Nat) /\ off[<<y, "R2">>] \in Nat
      /\ pc[<<y, "R2">>] = "send" => off[<<y, "R2">>] < Len(buf[<<y, "R2">>])
      /\ \A i \in Index : pipes[i] \in Seq(Nat)
  BY <1>1, <1>2 DEF LoopInv, SockTypeOK, PipeInv
<1>4. Line(y) \in Seq(Nat) /\ Units(Line(y)) = Units(got[y]) \cup Units(outq[y])
  BY <1>3, Splice DEF Line
<1>5. Rest(y) \in Seq(Nat)
  <2> DEFINE b == buf[<<y, "R2">>]
             k == off[<<y, "R2">>]
  <2>1. CASE pc[<<y, "R2">>] = "send"
    <3>1. b \in Seq(Nat) /\ k \in 0 .. Len(b)
      <4>1. b \in Seq(Nat) /\ k \in Nat /\ k < Len(b)
        BY <1>3, <2>1
      <4> HIDE DEF b, k
      <4> QED  BY <4>1, LenProperties
    <3> HIDE DEF b, k
    <3>2. SubSeq(b, k + 1, Len(b)) \in Seq(Nat)
      BY <3>1, Parts
    <3> QED  BY <2>1, <3>2 DEF Rest, b, k
  <2>2. CASE pc[<<y, "R2">>] # "send"
    BY <2>2 DEF Rest
  <2> QED  BY <2>1, <2>2
<1>6. ASSUME NEW i \in Index
      PROVE  /\ Rest(y) \o pipes[i] \in Seq(Nat) /\ Chain(i, y) \in Seq(Nat)
             /\ Units(Chain(i, y)) = Played(y) \cup Units(pipes[i])
  <2>1. /\ Rest(y) \o pipes[i] \in Seq(Nat)
        /\ Units(Rest(y) \o pipes[i]) = Units(Rest(y)) \cup Units(pipes[i])
    BY <1>3, <1>5, Splice
  <2>2. /\ Chain(i, y) \in Seq(Nat)
        /\ Units(Chain(i, y)) = Units(Line(y)) \cup Units(Rest(y) \o pipes[i])
    BY <1>4, <2>1, Splice DEF Chain
  <2> QED  BY <1>4, <2>1, <2>2 DEF Played
<1> QED  BY <1>1, <1>3, <1>4, <1>5, <1>6

\* A connection that reads pipe i, or reads none, has got nothing from another.
LEMMA PlayedIn ==
  ASSUME ReplayInv, NEW i \in Index, NEW y \in Clone, idx[y] = i \/ Idle(y)
  PROVE  /\ Played(y) \subseteq Copies(i)
         /\ pc[<<y, "R2">>] = "none" => Played(y) = {}
<1>1. ASSUME pc[<<y, "R2">>] = "none" PROVE Played(y) = {}
  <2>1. got[y] = <<>> /\ outq[y] = <<>> /\ Rest(y) = <<>>
    BY <1>1 DEF ReplayInv, StartInv, Untouched, Rest
  <2>2. Units(<<>>) = {}
    BY DEF Units
  <2> QED  BY <2>1, <2>2 DEF Played
<1>2. ASSUME pc[<<y, "R2">>] # "none" PROVE Played(y) \subseteq Copies(i)
  <2>1. y \in Readers(i)
    BY <1>2 DEF Readers, Idle
  <2> QED  BY <2>1 DEF Copies
<1> QED  BY <1>1, <1>2

\* Where a copy of a reply can have come from.
LEMMA SourceOf ==
  ASSUME ReplayInv, NEW i \in Index, NEW a \in Prod, NEW n \in 1 .. MaxSent[Backend[a]],
         ReplyUnit(a, n) \in Copies(i)
  PROVE  a \in Writers(i) /\ n =< Mark(a)
<1>1. PICK b \in Writers(i) : \E m \in 1 .. Mark(b) : ReplyUnit(a, n) = ReplyUnit(b, m)
  BY DEF ReplayInv, CopyInv, Sources
<1>2. PICK m \in 1 .. Mark(b) : ReplyUnit(a, n) = ReplyUnit(b, m)
  BY <1>1
<1>3. /\ b \in Prod /\ Mark(b) \in Nat /\ Mark(b) =< MaxSent[Backend[b]]
      /\ MaxSent[Backend[b]] \in Nat /\ Base[Backend[b]] \in Nat
  BY MarkCounts, ProdCounts DEF Writers
<1>4. m \in 1 .. MaxSent[Backend[b]]
  BY <1>3
<1>5. a = b
  BY <1>2, <1>3, <1>4, UnitsAssumption DEF ReplyUnit
<1>6. n = m
  BY <1>2, <1>3, <1>5 DEF ReplyUnit
<1> QED  BY <1>3, <1>5, <1>6

----------------------------------------------------------------------------
(* Steps after which the pipes, and what went through them, are as before. *)

\* A step that moves replies along at most, gives up some, or lets W2 go on: nothing
\* comes into the pipes and no connection begins to write or to read one.
LEMMA Still ==
  ASSUME ReplayInv, dropped \subseteq dropped',
         \A i \in Index : Writers(i)' = Writers(i) /\ Copies(i)' \subseteq Copies(i),
         \A a \in Prod :
            /\ Mark(a)' \in Nat /\ Mark(a) =< Mark(a)'
            /\ Standing(a)' => \/ pc[Handler(a)] = "none"
                               \/ Standing(a) /\ Passed(a)' \in Nat /\ Passed(a) =< Passed(a)'
            /\ Working(a)' /\ idx[a] \in Index =>
                  /\ Working(a)
                  /\ \A n \in 1 .. Mark(a)' : n =< Mark(a) \/ ReplyUnit(a, n) \in dropped',
         \A i \in Index, a \in Prod, y \in Clone : Paired(i, a, y)' =>
            /\ Paired(i, a, y)
            /\ Replays(Base[Backend[a]], Line(y)', dropped)
            /\ Live(y)' => Live(y) /\ Chain(i, y)' = Chain(i, y)
  PROVE  Sources' /\ Followed' /\ Replayed'
<1>1. ASSUME NEW i \in Index, NEW u \in Copies(i)'
      PROVE  \E b \in Writers(i)' : \E m \in 1 .. Mark(b)' : u = ReplyUnit(b, m)
  <2>1. PICK b \in Writers(i) : \E m \in 1 .. Mark(b) : u = ReplyUnit(b, m)
    BY <1>1 DEF ReplayInv, CopyInv, Sources
  <2>2. PICK m \in 1 .. Mark(b) : u = ReplyUnit(b, m)
    BY <2>1
  <2>3. b \in Prod /\ Mark(b) \in Nat
    BY MarkCounts DEF Writers
  <2>4. m \in 1 .. Mark(b)'
    BY <2>3
  <2> QED  BY <1>1, <2>2, <2>4
<1>2. Sources'
  BY <1>1 DEF Sources, ReplyUnit
<1>3. ASSUME NEW a \in Prod, Standing(a)', NEW i \in Index, NEW n \in 1 .. MaxSent[Backend[a]],
             ReplyUnit(a, n) \in Copies(i)'
      PROVE  n =< Passed(a)'
  <2>1. ReplyUnit(a, n) \in Copies(i)
    BY <1>3
  <2>2. pc[Handler(a)] # "none"
    <3>1. a \in Writers(i)
      BY <2>1, SourceOf
    <3>2. pc[<<a, "W2">>] # "none"
      BY <3>1 DEF Writers
    <3> QED  BY <3>2 DEF ReplayInv, StartInv, IsolInv, ProcInv, ForkInv, Unforked
  <2>3. Standing(a) /\ Passed(a)' \in Nat /\ Passed(a) =< Passed(a)'
    BY <1>3, <2>2
  <2>4. n =< Passed(a)
    BY <2>1, <2>3 DEF ReplayInv, CopyInv, Followed
  <2>5. Passed(a) \in Nat
    BY ProdCounts
  <2>6. n \in Int
    OBVIOUS
  <2> QED  BY <2>3, <2>4, <2>5, <2>6
<1>4. Followed'
  BY <1>3 DEF Followed, ReplyUnit
<1>5. ASSUME NEW i \in Index, NEW a \in Prod, NEW y \in Clone, Paired(i, a, y)'
      PROVE  Replay(i, a, y)'
  <2> DEFINE z == Base[Backend[a]]
  <2>1. /\ Paired(i, a, y) /\ Replays(z, Line(y)', dropped)
        /\ Live(y)' => Live(y) /\ Chain(i, y)' = Chain(i, y)
    BY <1>5
  <2>2. Replay(i, a, y)
    BY <2>1 DEF ReplayInv, CopyInv, Replayed
  <2>3. Replays(z, Line(y)', dropped')
    BY <2>1, ReplaysMore
  <2>4. ASSUME Live(y)' PROVE Replays(z, Chain(i, y)', dropped')
    <3>1. Replays(z, Chain(i, y), dropped) /\ Chain(i, y)' = Chain(i, y)
      BY <2>1, <2>2, <2>4 DEF Replay
    <3>2. Replays(z, Chain(i, y), dropped')
      BY <3>1, ReplaysMore
    <3> QED  BY <3>1, <3>2
  <2>5. ASSUME Live(y)', Working(a)', NEW n \in 1 .. Mark(a)'
        PROVE  ReplyUnit(a, n) \in dropped' \cup Units(Chain(i, y)')
    <3>1. Live(y) /\ Working(a) /\ Chain(i, y)' = Chain(i, y)
      <4>1. idx[a] \in Index
        BY <2>1 DEF Paired, Writers
      <4> QED  BY <2>1, <2>5, <4>1
    <3>2. CASE n =< Mark(a)
      <4>1. Mark(a) \in Nat /\ n \in 1 .. Mark(a)
        BY <3>2, MarkCounts
      <4>2. ReplyUnit(a, n) \in dropped \cup Units(Chain(i, y))
        BY <2>2, <3>1, <4>1 DEF Replay
      <4> QED  BY <3>1, <4>2
    <3>3. CASE ReplyUnit(a, n) \in dropped'
      BY <3>3
    <3>4. idx[a] \in Index
      BY <2>1 DEF Paired, Writers
    <3> QED  BY <2>5, <3>2, <3>3, <3>4
  <2> QED  BY <2>3, <2>4, <2>5 DEF Replay, ReplyUnit
<1>6. Replayed'
  BY <1>5 DEF Replayed
<1> QED  BY <1>2, <1>4, <1>6

\* W2's buffer stays behind what waits while more of the backend's may come.
LEMMA TookStill ==
  ASSUME ReplayInv, NEW a \in Prod,
         pc'[<<a, "W2">>] \in Holding =>
            /\ pc[<<a, "W2">>] \in Holding /\ buf'[<<a, "W2">>] = buf[<<a, "W2">>]
            /\ sent'[Backend[a]] \in Nat /\ Len(inq'[Backend[a]]) \in Nat
            /\ sent'[Backend[a]] - Len(inq'[Backend[a]]) = sent[Backend[a]] - Len(inq[Backend[a]])
  PROVE  Took(a)'
<1>1. ASSUME pc'[<<a, "W2">>] \in Holding
      PROVE  /\ Len(inq'[Backend[a]]) + Len(buf'[<<a, "W2">>]) =< sent'[Backend[a]]
             /\ \A k \in 1 .. Len(buf'[<<a, "W2">>]) :
                   buf'[<<a, "W2">>][k] = ReplyUnit(a, sent'[Backend[a]] - Len(inq'[Backend[a]])
                                                       - Len(buf'[<<a, "W2">>]) + k)
  <2> DEFINE n == sent[Backend[a]]
             q == Len(inq[Backend[a]])
             b == Len(buf[<<a, "W2">>])
             m == sent'[Backend[a]]
             r == Len(inq'[Backend[a]])
  <2>1. /\ pc[<<a, "W2">>] \in Holding /\ buf'[<<a, "W2">>] = buf[<<a, "W2">>]
        /\ m \in Nat /\ r \in Nat /\ m - r = n - q
    BY <1>1
  <2>2. n \in Nat /\ q \in Nat /\ b \in Nat
    BY ProdCounts
  <2>3. /\ q + b =< n
        /\ \A k \in 1 .. b : buf[<<a, "W2">>][k] = ReplyUnit(a, n - q - b + k)
    BY <2>1 DEF ReplayInv, CopyInv, Taken, Took
  <2>4. Len(buf'[<<a, "W2">>]) = b
    BY <2>1
  <2> HIDE DEF n, q, b, m, r
  <2>5. r + b =< m /\ m - r - b = n - q - b
    BY <2>1, <2>2, <2>3
  <2>6. ASSUME NEW k \in 1 .. b
        PROVE  buf'[<<a, "W2">>][k] = ReplyUnit(a, m - r - b + k)
    BY <2>1, <2>3, <2>5
  <2> QED  BY <2>4, <2>5, <2>6 DEF m, r
<1> QED  BY <1>1 DEF Took, ReplyUnit

LEMMA TakenStill ==
  ASSUME ReplayInv,
         \A a \in Prod : pc'[<<a, "W2">>] \in Holding =>
            /\ pc[<<a, "W2">>] \in Holding /\ buf'[<<a, "W2">>] = buf[<<a, "W2">>]
            /\ sent'[Backend[a]] \in Nat /\ Len(inq'[Backend[a]]) \in Nat
            /\ sent'[Backend[a]] - Len(inq'[Backend[a]]) = sent[Backend[a]] - Len(inq[Backend[a]])
  PROVE  Taken'
BY TookStill DEF Taken

\* Where R2 holds nothing.
Ending == {"recv", "shut1", "done"}

\* A step that touches none of what the replies go through.
LEMMA Aside ==
  ASSUME ReplayInv, UNCHANGED pipeVars,
         \A a \in Prod :
            /\ UNCHANGED <<pc[<<a, "W2">>], buf[<<a, "W2">>], got[a], outq[a],
                           inq[Backend[a]], sent[Backend[a]]>>
            /\ idx'[a] = idx[a] \/ pc[<<a, "W2">>] = "none"
            /\ Standing(a)' => pc[Handler(a)] = "none" \/ Standing(a),
         \A y \in Clone :
            /\ \/ UNCHANGED <<pc[<<y, "R2">>], buf[<<y, "R2">>], off[<<y, "R2">>]>>
               \/ {pc[<<y, "R2">>], pc'[<<y, "R2">>]} \subseteq Ending
            /\ UNCHANGED <<got[y], outq[y]>>
            /\ pc'[<<y, "R3">>] = "none" <=> pc[<<y, "R3">>] = "none"
            /\ idx'[y] = idx[y] \/ Idle(y)
            /\ Live(y)' => Live(y)
  PROVE  CopyInv'
<1>1. ASSUME NEW a \in Prod
      PROVE  /\ Mark(a)' = Mark(a) /\ Passed(a)' = Passed(a) /\ (Working(a)' <=> Working(a))
             /\ Mark(a) \in Nat /\ Passed(a) \in Nat
  BY MarkCounts, ProdCounts DEF Mark, Owed, Working, Passed
<1>2. ASSUME NEW y \in Clone
      PROVE  /\ Line(y)' = Line(y) /\ Played(y)' = Played(y) /\ (Idle(y)' <=> Idle(y))
             /\ \A i \in Index : Chain(i, y)' = Chain(i, y)
             /\ pc'[<<y, "R2">>] = "none" <=> pc[<<y, "R2">>] = "none"
  <2>1. /\ Rest(y)' = Rest(y)
        /\ pc'[<<y, "R2">>] = "none" <=> pc[<<y, "R2">>] = "none"
    <3>1. CASE UNCHANGED <<pc[<<y, "R2">>], buf[<<y, "R2">>], off[<<y, "R2">>]>>
      BY <3>1 DEF Rest
    <3>2. CASE {pc[<<y, "R2">>], pc'[<<y, "R2">>]} \subseteq Ending
      BY <3>2 DEF Rest, Ending
    <3> QED  BY <3>1, <3>2
  <2> QED  BY <2>1 DEF Line, Played, Chain, Idle, pipeVars
<1>3. ASSUME NEW i \in Index
      PROVE  /\ Writers(i)' = Writers(i) /\ Readers(i)' = Readers(i)
             /\ Copies(i)' = Copies(i)
  <2>1. Writers(i)' = Writers(i)
    BY DEF Writers
  <2>2. Readers(i)' = Readers(i)
    BY <1>2 DEF Readers, Idle
  <2>3. \A y \in Readers(i) : Played(y)' = Played(y)
    BY <1>2 DEF Readers
  <2> QED  BY <2>1, <2>2, <2>3 DEF Copies, pipeVars
<1>4. ASSUME NEW i \in Index, NEW a \in Prod, NEW y \in Clone, Paired(i, a, y)'
      PROVE  /\ Paired(i, a, y)
             /\ Replays(Base[Backend[a]], Line(y)', dropped)
             /\ Live(y)' => Live(y) /\ Chain(i, y)' = Chain(i, y)
  <2>1. Paired(i, a, y)
    BY <1>2, <1>3, <1>4 DEF Paired
  <2>2. Replays(Base[Backend[a]], Line(y), dropped)
    BY <2>1 DEF ReplayInv, CopyInv, Replayed, Replay
  <2> QED  BY <1>2, <2>1, <2>2
<1>5. dropped' = dropped
  BY DEF pipeVars
<1>6. \A a \in Prod : \A n \in 1 .. Mark(a)' : n =< Mark(a)
  BY <1>1
<1>7. Sources' /\ Followed' /\ Replayed'
  <2>1. \A a \in Prod : Mark(a)' \in Nat /\ Mark(a) =< Mark(a)'
    BY <1>1
  <2>2. \A a \in Prod : Passed(a)' \in Nat /\ Passed(a) =< Passed(a)'
    BY <1>1
  <2>3. \A a \in Prod :
           /\ Mark(a)' \in Nat /\ Mark(a) =< Mark(a)'
           /\ Standing(a)' => \/ pc[Handler(a)] = "none"
                              \/ Standing(a) /\ Passed(a)' \in Nat /\ Passed(a) =< Passed(a)'
           /\ Working(a)' =>
                 /\ Working(a)
                 /\ \A n \in 1 .. Mark(a)' : n =< Mark(a) \/ ReplyUnit(a, n) \in dropped'
    BY <1>1, <1>6, <2>1, <2>2, Zenon
  <2> QED  BY <1>3, <1>4, <1>5, <2>3, Still
<1>8. Taken'
  <2>1. \A a \in Prod : sent[Backend[a]] \in Nat /\ Len(inq[Backend[a]]) \in Nat
    BY ProdCounts
  <2> QED  BY <2>1, TakenStill
<1> QED  BY <1>7, <1>8 DEF CopyInv

----------------------------------------------------------------------------
(* The handlers.                                                           *)

\* A connection whose process takes a step has not been given up.
LEMMA StandingStill ==
  ASSUME NEW a \in Prod, NEW x \in Conn, NEW r, <<x, r>> \in Proc,
         x = a => r # "R3" /\ pc[<<x, r>>] \notin Over,
         \A p \in Proc : p[1] # x => pc'[p] = pc[p],
         Writable(a)' => Writable(a), Standing(a)'
  PROVE  Standing(a)
<1>1. Owner(a) = a
  BY Socks DEF Owner
<1>2. PICK p \in Proc : p[1] = a /\ p[2] # "R3" /\ pc'[p] \notin Over
  BY <1>1 DEF Standing, Gone
<1>3. ~Gone(a)
  <2>1. CASE x = a
    <3>1. <<x, r>>[1] = a /\ <<x, r>>[2] # "R3" /\ pc[<<x, r>>] \notin Over
      BY <2>1
    <3> QED  BY <1>1, <3>1 DEF Gone
  <2>2. CASE x # a
    <3>1. pc[p] \notin Over
      BY <1>2, <2>2
    <3> QED  BY <1>1, <1>2, <3>1 DEF Gone
  <2> QED  BY <2>1, <2>2
<1> QED  BY <1>3 DEF Standing

\* A step of a handler that forks nothing.
LEMMA HandlerAside ==
  ASSUME ReplayInv, NEW x \in Conn, NEW next, Goto(Handler(x), next),
         UNCHANGED <<buf, off, inq, outq, got, sent, shut, pipeVars>>,
         \/ pc[Handler(x)] = "none" /\ \A y \in Conn : y # x => peer'[y] = peer[y]
         \/ pc[Handler(x)] \notin Over /\ \A y \in Conn : peer'[y] = peer[y],
         \A y \in Conn : idx'[y] = idx[y] \/ (y = x /\ pc[Handler(x)] \in Unforked)
  PROVE  CopyInv'
<1>1. /\ pc \in [Proc -> Step] /\ ForkInv
      /\ \A p \in Proc : p # Handler(x) => pc'[p] = pc[p]
  BY DEF Goto, ReplayInv, StartInv, IsolInv, ProcInv, LoopInv
<1>2. ASSUME NEW a \in Prod
      PROVE  /\ UNCHANGED <<pc[<<a, "W2">>], buf[<<a, "W2">>], got[a], outq[a],
                            inq[Backend[a]], sent[Backend[a]]>>
             /\ idx'[a] = idx[a] \/ pc[<<a, "W2">>] = "none"
  <2>1. a \in Conn /\ <<a, "W2">> \in Proc /\ <<a, "W2">> # Handler(x)
    BY Procs
  <2>2. pc'[<<a, "W2">>] = pc[<<a, "W2">>]
    BY <1>1, <2>1
  <2>3. idx'[a] = idx[a] \/ pc[<<a, "W2">>] = "none"
    BY <1>1, <2>1 DEF ForkInv
  <2> QED  BY <2>2, <2>3
<1>3. ASSUME NEW a \in Prod, Standing(a)' PROVE pc[Handler(a)] = "none" \/ Standing(a)
  <2>1. CASE x = a /\ pc[Handler(x)] = "none"
    BY <2>1
  <2>2. CASE x # a \/ pc[Handler(x)] \notin Over
    <3>1. a \in Conn /\ peer'[a] = peer[a]
      BY <2>2, Socks DEF Over
    <3>2. Writable(a)' => Writable(a)
      BY <3>1 DEF Writable
    <3>3. /\ <<x, "H">> \in Proc /\ (x = a => "H" # "R3" /\ pc[<<x, "H">>] \notin Over)
          /\ \A p \in Proc : p[1] # x => pc'[p] = pc[p]
      BY <1>1, <2>2, Procs DEF Handler
    <3> QED  BY <1>3, <3>2, <3>3, StandingStill
  <2> QED  BY <2>1, <2>2 DEF Over
<1>4. ASSUME NEW y \in Clone
      PROVE  /\ UNCHANGED <<pc[<<y, "R2">>], buf[<<y, "R2">>], off[<<y, "R2">>],
                            got[y], outq[y]>>
             /\ pc'[<<y, "R3">>] = "none" <=> pc[<<y, "R3">>] = "none"
             /\ idx'[y] = idx[y] \/ Idle(y)
             /\ Live(y)' => Live(y)
  <2>1. /\ y \in Conn
        /\ UNCHANGED <<pc[<<y, "R2">>], buf[<<y, "R2">>], off[<<y, "R2">>], pc[<<y, "R3">>]>>
    <3>1. /\ y \in Conn /\ <<y, "R2">> \in Proc /\ <<y, "R3">> \in Proc
          /\ <<y, "R2">> # Handler(x) /\ <<y, "R3">> # Handler(x)
      BY Procs
    <3>2. buf' = buf /\ off' = off
      OBVIOUS
    <3> QED  BY <1>1, <3>1, <3>2
  <2>2. idx'[y] = idx[y] \/ Idle(y)
    BY <1>1, <2>1 DEF ForkInv, Idle
  <2>3. Live(y)' => Live(y)
    <3>1. pc[Handler(y)] = "none" => peer[y] = "away"
      BY <2>1 DEF ReplayInv, StartInv, Untouched
    <3>2. peer[y] = "closed" => peer'[y] = "closed"
      BY <2>1, <3>1
    <3>3. shut' = shut
      OBVIOUS
    <3> QED  BY <2>1, <3>2, <3>3 DEF Live
  <2> QED  BY <2>1, <2>2, <2>3
<1> QED  BY <1>2, <1>3, <1>4, Aside

\* The handlers, but for their forks.
LEMMA HandlersCopy ==
  ASSUME ReplayInv, NEW x \in Conn,
         \/ Accept(x) \/ CreateConnection(x) \/ CheckOrder(x) \/ GetCounter(x)
         \/ increment_shm_counter(x) \/ Terminated(x)
  PROVE  CopyInv'
<1>1. /\ \A y : y \in Conn => y \in Sock
      /\ x \in Prod => Backend[x] \notin Conn
      /\ peer \in [Sock -> PeerState] /\ idx \in [Conn -> Nat]
      /\ pc[Handler(x)] = "connect" => x \in Prod
  BY Socks DEF ReplayInv, StartInv, IsolInv, ProcInv, LoopInv, SockTypeOK, CounterInv,
               CounterTypes, ForkInv, Conn
<1>2. CASE Accept(x)
  <2>1. /\ pc[Handler(x)] = "none" /\ \E next : Goto(Handler(x), next)
        /\ UNCHANGED <<buf, off, inq, outq, got, sent, shut, pipeVars, idx>>
        /\ \A y \in Conn : y # x => peer'[y] = peer[y]
    BY <1>1, <1>2 DEF Accept, Connected, aggVars
  <2> QED  BY <2>1, HandlerAside
<1>3. CASE CreateConnection(x)
  <2>1. pc[Handler(x)] = "connect" /\ x \in Prod
    BY <1>1, <1>3 DEF CreateConnection
  <2>2. /\ pc[Handler(x)] \notin Over /\ \E next : Goto(Handler(x), next)
        /\ UNCHANGED <<buf, off, inq, outq, got, sent, shut, pipeVars, idx>>
        /\ \A y \in Conn : peer'[y] = peer[y]
    BY <1>1, <1>3, <2>1 DEF CreateConnection, Connected, aggVars, sockVars, Over
  <2> QED  BY <2>2, HandlerAside
<1>4. CASE CheckOrder(x) \/ GetCounter(x) \/ increment_shm_counter(x) \/ Terminated(x)
  <2>1. /\ pc[Handler(x)] \notin Over /\ \E next : Goto(Handler(x), next)
        /\ UNCHANGED <<buf, off, inq, outq, got, sent, shut, pipeVars>>
        /\ \A y \in Conn : peer'[y] = peer[y]
    BY <1>4 DEF CheckOrder, GetCounter, increment_shm_counter, Lock, Load, Store, Unlock,
                Inner, Terminated, Over, sockVars
  <2>2. \A y \in Conn : idx'[y] = idx[y] \/ (y = x /\ pc[Handler(x)] \in Unforked)
    BY <1>1, <1>4 DEF CheckOrder, GetCounter, increment_shm_counter, Lock, Load, Store, Unlock,
                      Inner, Terminated, aggVars, Unforked
  <2> QED  BY <2>1, <2>2, HandlerAside
<1> QED  BY <1>2, <1>3, <1>4

\* fork() of W1 or R1, which use no pipe.
LEMMA ForkFirstCopy ==
  ASSUME ReplayInv, NEW x \in Conn, ForkFirst(x)
  PROVE  CopyInv'
<1>1. PICK r \in {"W1", "R1"} :
         /\ pc[Handler(x)] = "fork1" /\ <<x, r>> \in Proc
         /\ \/ pc' = [pc EXCEPT ![<<x, r>>] = "recv", ![Handler(x)] = "fork2"]
            \/ pc' = [pc EXCEPT ![Handler(x)] = "fork2"]
         /\ UNCHANGED <<sockVars, buf, off, aggVars, pipeVars>>
  <2>1. x \in Prod \/ (x \in Clone /\ x \notin Prod)
    BY ConnAssumption DEF Conn
  <2> QED  BY <2>1, Procs DEF ForkFirst, Fork, Goto
<1>2. /\ pc \in [Proc -> Step]
      /\ \A p \in Proc : p # Handler(x) /\ p # <<x, r>> => pc'[p] = pc[p]
  BY <1>1 DEF ReplayInv, StartInv, IsolInv, ProcInv, LoopInv
<1>3. /\ UNCHANGED <<inq, outq, got, sent, shut, peer>> /\ UNCHANGED <<idx, buf, off, pipeVars>>
      /\ \A s : Writable(s)' = Writable(s)
  BY <1>1 DEF sockVars, aggVars, Writable
<1>4. ASSUME NEW a \in Prod
      PROVE  /\ UNCHANGED <<pc[<<a, "W2">>], buf[<<a, "W2">>], got[a], outq[a],
                            inq[Backend[a]], sent[Backend[a]]>>
             /\ idx'[a] = idx[a]
             /\ Standing(a)' => Standing(a)
  <2>1. pc'[<<a, "W2">>] = pc[<<a, "W2">>]
    BY <1>2, Procs
  <2>2. ASSUME Standing(a)' PROVE Standing(a)
    <3>1. /\ <<x, "H">> \in Proc /\ (x = a => "H" # "R3" /\ pc[<<x, "H">>] \notin Over)
          /\ \A p \in Proc : p[1] # x => pc'[p] = pc[p]
      BY <1>1, <1>2, Procs DEF Handler, Over
    <3>2. Writable(a)' => Writable(a)
      BY <1>3
    <3> QED  BY <2>2, <3>1, <3>2, StandingStill
  <2> QED  BY <1>3, <2>1, <2>2
<1>5. ASSUME NEW y \in Clone
      PROVE  /\ UNCHANGED <<pc[<<y, "R2">>], buf[<<y, "R2">>], off[<<y, "R2">>],
                            got[y], outq[y]>>
             /\ pc'[<<y, "R3">>] = "none" <=> pc[<<y, "R3">>] = "none"
             /\ idx'[y] = idx[y]
             /\ Live(y)' => Live(y)
  <2>1. pc'[<<y, "R2">>] = pc[<<y, "R2">>] /\ pc'[<<y, "R3">>] = pc[<<y, "R3">>]
    BY <1>2, Procs
  <2>2. Live(y)' => Live(y)
    BY <1>3, <2>1 DEF Live
  <2> QED  BY <1>3, <2>1, <2>2
<1> QED  BY <1>3, <1>4, <1>5, Aside

\* Nothing has come out of a pipe that nobody has written.
LEMMA NothingYet ==
  ASSUME ReplayInv, NEW a \in Prod, pc[<<a, "W2">>] = "none", NEW i \in Index, Writers(i) = {},
         NEW y \in Clone, Readers(i) \subseteq {y}, idx[y] = i \/ Idle(y)
  PROVE  Line(y) = <<>> /\ Chain(i, y) = <<>> /\ Mark(a) = 0
<1>1. Copies(i) = {}
  BY DEF ReplayInv, CopyInv, Sources
<1>2. Units(pipes[i]) = {}
  BY <1>1 DEF Copies
<1>3. Played(y) = {}
  BY <1>1, PlayedIn
<1>4. \A q \in Seq(Nat) : Units(q) = {} => q = <<>>
  <2> SUFFICES ASSUME NEW q \in Seq(Nat), q # <<>> PROVE Units(q) # {}
    OBVIOUS
  <2>1. 1 \in 1 .. Len(q)
    <3>1. Len(q) \in Nat /\ Len(q) # 0
      BY EmptySeq, LenProperties
    <3> QED  BY <3>1
  <2>2. q[1] \in Units(q)
    BY <2>1 DEF Units
  <2> QED  BY <2>2
<1>5. /\ Line(y) \in Seq(Nat) /\ Units(Line(y)) \subseteq Played(y)
      /\ Chain(i, y) \in Seq(Nat) /\ Units(Chain(i, y)) = Played(y) \cup Units(pipes[i])
  BY CloneParts DEF Played
<1>6. Line(y) = <<>> /\ Chain(i, y) = <<>>
  BY <1>2, <1>3, <1>4, <1>5
<1>7. Mark(a) = 0
  <2>1. Joined(<<a, "W2">>, Backend[a], a)
    BY DEF ReplayInv, StartInv, IsolInv, Streams, Stream
  <2>2. got[a] = <<>>
    BY DEF ReplayInv, StartInv, Untouched
  <2>3. Len(got[a]) = 0 /\ Len(outq[a]) = 0
    BY <2>1, <2>2 DEF Joined
  <2>4. Passed(a) + Held(<<a, "W2">>) + Len(inq[Backend[a]]) = sent[Backend[a]]
    BY <2>1 DEF Joined
  <2>5. Passed(a) = 0 /\ Held(<<a, "W2">>) = 0
    BY <2>3 DEF Passed, Held
  <2>6. Mark(a) = sent[Backend[a]] - Len(inq[Backend[a]]) - 0
    BY DEF Mark, Working, Owed, Holding
  <2>7. sent[Backend[a]] \in Nat /\ Len(inq[Backend[a]]) \in Nat
    BY ProdCounts
  <2> QED  BY <2>4, <2>5, <2>6, <2>7
<1> QED  BY <1>6, <1>7

\* fork() of W2, which makes a writer of a.
LEMMA ForkWriterCopy ==
  ASSUME ReplayInv, NEW x \in Prod, ForkSecond(x),
         pc' = [pc EXCEPT ![<<x, "W2">>] = "recv", ![Handler(x)] = "done"]
  PROVE  CopyInv'
<1>1. /\ pc[Handler(x)] = "fork2" /\ pc[<<x, "W2">>] = "none"
      /\ pc' = [pc EXCEPT ![<<x, "W2">>] = "recv", ![Handler(x)] = "done"]
      /\ UNCHANGED <<sockVars, buf, off, aggVars, pipeVars>>
      /\ pc \in [Proc -> Step] /\ <<x, "W2">> \in Proc /\ x \in Conn
  BY Procs DEF ForkSecond, Fork, ReplayInv, StartInv, IsolInv, ProcInv, LoopInv, ForkInv
<1>2. /\ \A p \in Proc : p # Handler(x) /\ p # <<x, "W2">> => pc'[p] = pc[p]
      /\ pc'[<<x, "W2">>] = "recv"
  BY <1>1, Procs
<1>3. /\ UNCHANGED <<inq, outq, got, sent, shut, peer>> /\ UNCHANGED <<idx, buf, off, pipes, dropped>>
      /\ \A s : Writable(s)' = Writable(s)
  BY <1>1 DEF sockVars, aggVars, pipeVars, Writable
<1>4. ASSUME NEW a \in Prod
      PROVE  /\ a # x => pc'[<<a, "W2">>] = pc[<<a, "W2">>]
             /\ Mark(a)' = Mark(a) /\ Passed(a)' = Passed(a)
             /\ Standing(a)' => Standing(a)
             /\ Working(a)' <=> Working(a)
  <2>1. a # x => pc'[<<a, "W2">>] = pc[<<a, "W2">>]
    BY <1>2, Procs
  <2>2. /\ Owed(a)' = Owed(a) /\ (Working(a)' <=> Working(a))
        /\ pc'[<<a, "W2">>] \in Holding <=> pc[<<a, "W2">>] \in Holding
    BY <1>1, <1>2, <1>3, <2>1 DEF Owed, Working, Holding
  <2>3. Mark(a)' = Mark(a) /\ Passed(a)' = Passed(a)
    BY <1>3, <2>2 DEF Mark, Passed
  <2>4. ASSUME Standing(a)' PROVE Standing(a)
    <3>1. /\ <<x, "H">> \in Proc /\ (x = a => "H" # "R3" /\ pc[<<x, "H">>] \notin Over)
          /\ \A p \in Proc : p[1] # x => pc'[p] = pc[p]
      BY <1>1, <1>2, Procs DEF Handler, Over
    <3>2. Writable(a)' => Writable(a)
      BY <1>3
    <3> QED  BY <1>1, <2>4, <3>1, <3>2, StandingStill
  <2> QED  BY <2>1, <2>2, <2>3, <2>4
<1>5. ASSUME NEW y \in Clone
      PROVE  /\ pc'[<<y, "R2">>] = pc[<<y, "R2">>] /\ pc'[<<y, "R3">>] = pc[<<y, "R3">>]
             /\ Line(y)' = Line(y) /\ Played(y)' = Played(y)
             /\ Idle(y)' <=> Idle(y)
             /\ Live(y)' <=> Live(y)
             /\ \A i \in Index : Chain(i, y)' = Chain(i, y)
  <2>1. pc'[<<y, "R2">>] = pc[<<y, "R2">>] /\ pc'[<<y, "R3">>] = pc[<<y, "R3">>]
    BY <1>2, Procs
  <2> QED  BY <1>3, <2>1 DEF Line, Rest, Played, Chain, Idle, Live
<1>6. ASSUME NEW i \in Index
      PROVE  /\ Readers(i)' = Readers(i) /\ Copies(i)' = Copies(i)
             /\ Writers(i)' = Writers(i) \cup IF idx[x] = i THEN {x} ELSE {}
  <2>1. Readers(i)' = Readers(i)
    BY <1>3, <1>5 DEF Readers
  <2>2. \A y \in Readers(i) : Played(y)' = Played(y)
    BY <1>5 DEF Readers
  <2>3. Writers(i)' = Writers(i) \cup IF idx[x] = i THEN {x} ELSE {}
    BY <1>2, <1>3, <1>4 DEF Writers
  <2> QED  BY <1>3, <2>1, <2>2, <2>3 DEF Copies
<1>7. Taken'
  <2>1. \A a \in Prod : sent[Backend[a]] \in Nat /\ Len(inq[Backend[a]]) \in Nat
    BY ProdCounts
  <2>2. \A a \in Prod : pc'[<<a, "W2">>] \in Holding => pc[<<a, "W2">>] \in Holding
    BY <1>2, <1>4 DEF Holding
  <2> QED  BY <1>3, <2>1, <2>2, TakenStill
<1>8. Sources'
  <2>1. ASSUME NEW i \in Index, NEW u \in Copies(i)'
        PROVE  \E b \in Writers(i)' : \E m \in 1 .. Mark(b)' : u = ReplyUnit(b, m)
    <3>1. PICK b \in Writers(i) : \E m \in 1 .. Mark(b) : u = ReplyUnit(b, m)
      BY <1>6, <2>1 DEF ReplayInv, CopyInv, Sources
    <3>2. b \in Writers(i)' /\ b \in Prod
      BY <1>6 DEF Writers
    <3> QED  BY <1>4, <3>1, <3>2
  <2> QED  BY <2>1 DEF Sources, ReplyUnit
<1>9. Followed'
  BY <1>4, <1>6 DEF ReplayInv, CopyInv, Followed, ReplyUnit
<1>10. ASSUME NEW i \in Index, NEW a \in Prod, NEW y \in Clone, Paired(i, a, y)'
       PROVE  Replay(i, a, y)'
  <2>1. /\ Writers(i)' = {a} /\ Readers(i) \subseteq {y} /\ (idx[y] = i \/ Idle(y))
    BY <1>3, <1>5, <1>6, <1>10 DEF Paired
  <2>2. CASE a # x
    <3>1. Writers(i) = {a}
      BY <1>6, <2>1, <2>2
    <3>2. Replay(i, a, y)
      BY <2>1, <3>1 DEF Paired, ReplayInv, CopyInv, Replayed
    <3> QED  BY <1>3, <1>4, <1>5, <3>2 DEF Replay, ReplyUnit
  <2>3. CASE a = x
    <3>1. x \notin Writers(i) /\ Writers(i) \subseteq {a}
      BY <1>1, <1>6, <2>1 DEF Writers
    <3>2. Writers(i) = {}
      BY <2>3, <3>1
    <3>3. Line(y) = <<>> /\ Chain(i, y) = <<>> /\ Mark(a) = 0
      BY <1>1, <2>1, <2>3, <3>2, NothingYet
    <3>4. \A n : n \notin 1 .. 0
      OBVIOUS
    <3>5. Line(y)' = <<>> /\ Chain(i, y)' = <<>> /\ Mark(a)' = 0
      BY <1>4, <1>5, <3>3
    <3> QED  BY <3>4, <3>5, ReplaysNothing DEF Replay
  <2> QED  BY <2>2, <2>3
<1>11. Replayed'
  BY <1>10 DEF Replayed
<1> QED  BY <1>7, <1>8, <1>9, <1>11 DEF CopyInv

\* fork() of R2 or R3, which has read nothing yet.
LEMMA ForkReaderCopy ==
  ASSUME ReplayInv, NEW y \in Clone, NEW r \in {"R2", "R3"}, NEW q \in Proc,
         pc[<<y, r>>] = "none", q[1] = y, q[2] \notin {"R2", "R3"},
         pc'[<<y, r>>] = "recv", \A p \in Proc : p # q /\ p # <<y, r>> => pc'[p] = pc[p],
         UNCHANGED <<sockVars, buf, off, aggVars, pipeVars>>
  PROVE  CopyInv'
<1>1. /\ pc \in [Proc -> Step] /\ y \in Conn /\ y \notin Prod /\ <<y, r>> \in Proc
      /\ <<y, r>>[1] = y /\ <<y, r>>[2] \in {"R2", "R3"}
  BY Procs, Socks DEF ReplayInv, StartInv, IsolInv, ProcInv, LoopInv
<1>2. /\ \A p \in Proc : p # q /\ p # <<y, r>> => pc'[p] = pc[p]
      /\ pc'[<<y, r>>] = "recv"
  BY <1>1
<1>3. /\ UNCHANGED <<inq, outq, got, sent, shut, peer>> /\ UNCHANGED <<idx, buf, off, pipes, dropped>>
      /\ \A s : Writable(s)' = Writable(s)
  BY DEF sockVars, aggVars, pipeVars, Writable
<1>4. ASSUME NEW a \in Prod
      PROVE  /\ pc'[<<a, "W2">>] = pc[<<a, "W2">>]
             /\ Mark(a)' = Mark(a) /\ Passed(a)' = Passed(a)
             /\ Standing(a)' => Standing(a)
             /\ Working(a)' <=> Working(a)
  <2>1. pc'[<<a, "W2">>] = pc[<<a, "W2">>]
    <3>1. <<a, "W2">> \in Proc /\ a # y /\ <<a, "W2">>[1] = a
      BY <1>1, Procs
    <3> QED  BY <1>1, <1>2, <3>1
  <2>2. ASSUME Standing(a)' PROVE Standing(a)
    <3>1. \A p \in Proc : p[1] # y => pc'[p] = pc[p]
      BY <1>1, <1>2
    <3>2. y # a /\ (Writable(a)' => Writable(a))
      BY <1>1, <1>3
    <3> QED  BY <1>1, <2>2, <3>1, <3>2, StandingStill
  <2> QED  BY <1>3, <2>1, <2>2 DEF Mark, Owed, Working, Passed
<1>5. ASSUME NEW z \in Clone
      PROVE  /\ \/ pc'[<<z, "R2">>] = pc[<<z, "R2">>]
                \/ z = y /\ pc[<<z, "R2">>] = "none" /\ pc'[<<z, "R2">>] = "recv"
             /\ \/ pc'[<<z, "R3">>] = pc[<<z, "R3">>]
                \/ z = y /\ pc[<<z, "R3">>] = "none" /\ pc'[<<z, "R3">>] = "recv"
  <2>1. /\ <<z, "R2">> \in Proc /\ <<z, "R3">> \in Proc
        /\ <<z, "R2">>[2] \in {"R2", "R3"} /\ <<z, "R3">>[2] \in {"R2", "R3"}
    BY Procs
  <2>2. <<z, "R2">> # q /\ <<z, "R3">> # q
    BY <2>1
  <2>3. \/ pc'[<<z, "R2">>] = pc[<<z, "R2">>]
        \/ z = y /\ pc[<<z, "R2">>] = "none" /\ pc'[<<z, "R2">>] = "recv"
    <3>1. CASE <<z, "R2">> = <<y, r>>
      BY <1>2, <3>1
    <3>2. CASE <<z, "R2">> # <<y, r>>
      BY <1>2, <2>1, <2>2, <3>2
    <3> QED  BY <3>1, <3>2
  <2>4. \/ pc'[<<z, "R3">>] = pc[<<z, "R3">>]
        \/ z = y /\ pc[<<z, "R3">>] = "none" /\ pc'[<<z, "R3">>] = "recv"
    <3>1. CASE <<z, "R3">> = <<y, r>>
      BY <1>2, <3>1
    <3>2. CASE <<z, "R3">> # <<y, r>>
      BY <1>2, <2>1, <2>2, <3>2
    <3> QED  BY <3>1, <3>2
  <2> QED  BY <2>3, <2>4
<1>6. ASSUME NEW z \in Clone
      PROVE  /\ pc'[<<z, "R2">>] = "none" => pc[<<z, "R2">>] = "none"
             /\ pc'[<<z, "R3">>] = "none" => pc[<<z, "R3">>] = "none"
             /\ pc'[<<z, "R2">>] = "send" <=> pc[<<z, "R2">>] = "send"
             /\ Live(z)' => Live(z)
  BY <1>3, <1>5 DEF Live
<1>7. ASSUME NEW z \in Clone
      PROVE  /\ Line(z)' = Line(z) /\ Played(z)' = Played(z) /\ (Idle(z)' => Idle(z))
             /\ \A i \in Index : Chain(i, z)' = Chain(i, z)
  BY <1>3, <1>6 DEF Line, Rest, Played, Chain, Idle
<1>8. pc[<<y, "R2">>] = "none" => Played(y) = {}
  <2>1. pc[<<y, "R2">>] = "none" => got[y] = <<>> /\ outq[y] = <<>> /\ Rest(y) = <<>>
    BY DEF ReplayInv, StartInv, Untouched, Rest
  <2>2. Units(<<>>) = {}
    BY DEF Units
  <2> QED  BY <2>1, <2>2 DEF Played
<1>9. ASSUME NEW i \in Index
      PROVE  /\ Writers(i)' = Writers(i) /\ Readers(i) \subseteq Readers(i)'
             /\ Copies(i)' \subseteq Copies(i)
  <2>1. Writers(i)' = Writers(i)
    BY <1>3, <1>4 DEF Writers
  <2>2. Readers(i) \subseteq Readers(i)'
    BY <1>3, <1>6 DEF Readers
  <2>3. \A z \in Readers(i)' : z \in Clone /\ (z \in Readers(i) \/ (z = y /\ pc[<<y, "R2">>] = "none"))
    BY <1>3, <1>5 DEF Readers
  <2>4. \A z \in Readers(i)' : Played(z)' \subseteq Copies(i)
    <3>1. ASSUME NEW z \in Readers(i)' PROVE Played(z)' \subseteq Copies(i)
      <4>1. Played(z)' = Played(z)
        BY <1>7, <2>3
      <4>2. CASE z \in Readers(i)
        BY <4>1, <4>2 DEF Copies
      <4>3. CASE z = y /\ pc[<<y, "R2">>] = "none"
        BY <1>8, <4>1, <4>3
      <4> QED  BY <2>3, <4>2, <4>3
    <3> QED  BY <3>1
  <2>5. Units(pipes'[i]) \subseteq Copies(i)
    BY <1>3 DEF Copies
  <2>6. Copies(i)' = Units(pipes'[i]) \cup UNION {Played(z)' : z \in Readers(i)'}
    BY DEF Copies, Units
  <2> QED  BY <2>1, <2>2, <2>4, <2>5, <2>6
<1>10. ASSUME NEW i \in Index, NEW a \in Prod, NEW z \in Clone, Paired(i, a, z)'
       PROVE  /\ Paired(i, a, z)
              /\ Replays(Base[Backend[a]], Line(z)', dropped)
              /\ Live(z)' => Live(z) /\ Chain(i, z)' = Chain(i, z)
  <2>1. Paired(i, a, z)
    BY <1>3, <1>7, <1>9, <1>10 DEF Paired
  <2>2. Replays(Base[Backend[a]], Line(z), dropped)
    BY <2>1 DEF ReplayInv, CopyInv, Replayed, Replay
  <2> QED  BY <1>6, <1>7, <2>1, <2>2
<1>11. ASSUME NEW a \in Prod
       PROVE  /\ Mark(a)' \in Nat /\ Mark(a) =< Mark(a)'
              /\ Passed(a)' \in Nat /\ Passed(a) =< Passed(a)'
              /\ \A n \in 1 .. Mark(a)' : n =< Mark(a)
  <2>1. Mark(a)' = Mark(a) /\ Passed(a)' = Passed(a)
    BY <1>4
  <2>2. Mark(a) \in Nat /\ Passed(a) \in Nat
    BY MarkCounts, ProdCounts
  <2> QED  BY <2>1, <2>2
<1>12. Sources' /\ Followed' /\ Replayed'
  <2>1. \A a \in Prod :
           /\ Mark(a)' \in Nat /\ Mark(a) =< Mark(a)'
           /\ Standing(a)' => \/ pc[Handler(a)] = "none"
                              \/ Standing(a) /\ Passed(a)' \in Nat /\ Passed(a) =< Passed(a)'
           /\ Working(a)' =>
                 /\ Working(a)
                 /\ \A n \in 1 .. Mark(a)' : n =< Mark(a) \/ ReplyUnit(a, n) \in dropped'
    BY <1>4, <1>11, Zenon
  <2> QED  BY <1>3, <1>9, <1>10, <2>1, Still
<1>13. Taken'
  <2>1. \A a \in Prod : sent[Backend[a]] \in Nat /\ Len(inq[Backend[a]]) \in Nat
    BY ProdCounts
  <2> QED  BY <1>3, <1>4, <2>1, TakenStill
<1> QED  BY <1>12, <1>13 DEF CopyInv

----------------------------------------------------------------------------
(* The workers that use no pipe, or lose what they have read.              *)

\* A step of a worker that is not W2, nor R2 before its loop ends, and touches none of
\* their sockets but to shut one.
LEMMA WorkerQuiet ==
  ASSUME ReplayInv, NEW x \in Conn, NEW r, <<x, r>> \in Proc, r \in {"W1", "R1", "R2", "R3"},
         r = "R2" => pc[<<x, r>>] \in Ending /\ pc'[<<x, r>>] \in {"shut1", "done"},
         pc[<<x, r>>] \notin Over, pc'[<<x, r>>] # "none",
         \A p \in Proc : p # <<x, r>> => UNCHANGED <<pc[p], buf[p], off[p]>>,
         UNCHANGED <<got, sent, peer, idx, pipeVars>>,
         \A s \in Sock : shut[s] => shut'[s],
         \A s \in Conn : outq'[s] = outq[s],
         \A a \in Prod : inq'[Backend[a]] = inq[Backend[a]]
  PROVE  CopyInv'
<1>1. ASSUME NEW a \in Prod
      PROVE  /\ UNCHANGED <<pc[<<a, "W2">>], buf[<<a, "W2">>], got[a], outq[a],
                            inq[Backend[a]], sent[Backend[a]]>>
             /\ Standing(a)' => Standing(a)
  <2>1. /\ <<a, "W2">> \in Proc /\ <<a, "W2">> # <<x, r>> /\ a \in Conn /\ a \in Sock
        /\ x = a => r # "R3"
    <3>1. <<a, "R3">> \notin Proc
      BY ConnAssumption DEF Proc, Conn
    <3> QED  BY <3>1, Procs, Socks
  <2>2. UNCHANGED <<pc[<<a, "W2">>], buf[<<a, "W2">>]>>
    BY <2>1
  <2>3. Writable(a)' => Writable(a)
    BY <2>1 DEF Writable, ReplayInv, StartInv, IsolInv, ProcInv, LoopInv, SockTypeOK
  <2>4. \A p \in Proc : p[1] # x => pc'[p] = pc[p]
    <3>1. ASSUME NEW p \in Proc, p[1] # x PROVE pc'[p] = pc[p]
      <4>1. p # <<x, r>>
        BY <3>1
      <4> QED  BY <4>1
    <3> QED  BY <3>1
  <2>5. Standing(a)' => Standing(a)
    BY <2>1, <2>3, <2>4, StandingStill
  <2> QED  BY <2>1, <2>2, <2>5
<1>2. ASSUME NEW y \in Clone
      PROVE  /\ \/ UNCHANGED <<pc[<<y, "R2">>], buf[<<y, "R2">>], off[<<y, "R2">>]>>
                \/ {pc[<<y, "R2">>], pc'[<<y, "R2">>]} \subseteq Ending
             /\ UNCHANGED <<got[y], outq[y]>>
             /\ pc'[<<y, "R3">>] = "none" <=> pc[<<y, "R3">>] = "none"
             /\ Live(y)' => Live(y)
  <2>1. /\ y \in Conn /\ y \in Sock /\ <<y, "R2">> \in Proc /\ <<y, "R3">> \in Proc
    BY Procs, Socks
  <2>2. \/ UNCHANGED <<pc[<<y, "R2">>], buf[<<y, "R2">>], off[<<y, "R2">>]>>
        \/ /\ {pc[<<y, "R2">>], pc'[<<y, "R2">>]} \subseteq Ending
           /\ pc'[<<y, "R2">>] \in {"shut1", "done"}
    <3>1. CASE <<y, "R2">> = <<x, r>>
      BY <3>1 DEF Ending
    <3>2. CASE <<y, "R2">> # <<x, r>>
      BY <2>1, <3>2
    <3> QED  BY <3>1, <3>2
  <2>3. pc'[<<y, "R3">>] = "none" <=> pc[<<y, "R3">>] = "none"
    <3>1. CASE <<y, "R3">> = <<x, r>>
      BY <3>1 DEF Over
    <3>2. CASE <<y, "R3">> # <<x, r>>
      BY <2>1, <3>2
    <3> QED  BY <3>1, <3>2
  <2>4. Live(y)' => Live(y)
    BY <2>1, <2>2 DEF Live
  <2> QED  BY <2>1, <2>2, <2>3, <2>4
<1> QED  BY <1>1, <1>2, Aside

\* W1 takes requests to the backend.
LEMMA W1Copy ==
  ASSUME ReplayInv, NEW x \in Prod, W1(x)
  PROVE  CopyInv'
<1>1. /\ LoopInv(Proc, Step, {"send"}) /\ <<x, "W1">> \in Proc /\ x \in Conn /\ x \in Sock
      /\ Backend[x] \in Sock /\ Backend[x] \notin Conn
      /\ \A a \in Prod : Backend[a] \in Sock /\ Backend[a] # x
      /\ \A s \in Conn : s \in Sock
  BY Procs, Socks DEF ReplayInv, StartInv, IsolInv, ProcInv
<1> DEFINE q == <<x, "W1">>
<1>2. /\ UNCHANGED <<aggVars, pipeVars>>
      /\ \/ Recv(q, x, "send", "shut1") \/ Send(q, "send", Backend[x], "recv")
         \/ Shut(q, "shut1", Backend[x], "shut2") \/ Shut(q, "shut2", x, "done")
  BY DEF W1, forward_data, Shut2
<1>3. /\ pc[q] \notin Over /\ pc'[q] # "none" /\ UNCHANGED <<got, sent, peer>>
  BY <1>1, <1>2 DEF Recv, Send, Shut, Receive, Transmit, ShutDown, Goto, Drop, Over, sockVars,
                    LoopInv
<1>4. \A p \in Proc : p # q => UNCHANGED <<pc[p], buf[p], off[p]>>
  <2>1. \A p \in Proc : p # q => pc'[p] = pc[p]
    BY <1>1, <1>2 DEF Recv, Send, Shut, Goto, LoopInv
  <2>2. \A p \in Proc : p # q => buf'[p] = buf[p]
    BY <1>1, <1>2 DEF Recv, Send, Shut, Drop, LoopInv
  <2>3. \A p \in Proc : p # q => off'[p] = off[p]
    BY <1>1, <1>2 DEF Recv, Send, Shut, LoopInv
  <2> QED  BY <2>1, <2>2, <2>3
<1>5. /\ \A s \in Sock : shut[s] => shut'[s]
      /\ \A s \in Conn : outq'[s] = outq[s]
      /\ \A a \in Prod : inq'[Backend[a]] = inq[Backend[a]]
  BY <1>1, <1>2 DEF Recv, Send, Shut, Receive, Transmit, ShutDown, sockVars, LoopInv, SockTypeOK
<1> QED  BY <1>1, <1>2, <1>3, <1>4, <1>5, WorkerQuiet DEF aggVars

\* R1 throws away what the clone sends, and goes on as R3.
LEMMA R1Copy ==
  ASSUME ReplayInv, NEW x \in Clone, R1(x)
  PROVE  CopyInv'
<1>1. /\ LoopInv(Proc, Step, {"send"}) /\ <<x, "R1">> \in Proc /\ x \in Conn /\ x \in Sock
      /\ \A a \in Prod : Backend[a] \in Sock /\ Backend[a] # x
      /\ \A s \in Conn : s \in Sock
  BY Procs, Socks DEF ReplayInv, StartInv, IsolInv, ProcInv
<1> DEFINE q == <<x, "R1">>
<1>2. CASE \/ Drain(q, x) \/ DrainEnd(q, x) \/ Shut(q, "shut1", x, "fork")
  <2>1. UNCHANGED <<aggVars, pipeVars>>
    BY DEF R1, read_data_and_drop
  <2>2. /\ pc[q] \notin Over /\ pc'[q] # "none" /\ UNCHANGED <<got, sent, peer>>
    BY <1>1, <1>2 DEF Drain, DrainEnd, Shut, Receive, ShutDown, Goto, Over, sockVars, LoopInv
  <2>3. \A p \in Proc : p # q => UNCHANGED <<pc[p], buf[p], off[p]>>
    BY <1>1, <1>2 DEF Drain, DrainEnd, Shut, Goto, LoopInv
  <2>4. /\ \A s \in Sock : shut[s] => shut'[s]
        /\ \A s \in Conn : outq'[s] = outq[s]
        /\ \A a \in Prod : inq'[Backend[a]] = inq[Backend[a]]
    BY <1>1, <1>2 DEF Drain, DrainEnd, Shut, Receive, ShutDown, sockVars, LoopInv, SockTypeOK
  <2> QED  BY <1>1, <2>1, <2>2, <2>3, <2>4, WorkerQuiet DEF aggVars
<1>3. CASE /\ pc[q] = "fork" /\ pc' = [pc EXCEPT ![q] = "done", ![<<x, "R3">>] = "recv"]
           /\ UNCHANGED <<sockVars, buf, off>>
  <2>1. pc[<<x, "R3">>] = "none" /\ UNCHANGED <<sockVars, buf, off, aggVars, pipeVars>>
    BY <1>3 DEF R1, read_data_and_drop, ReplayInv, StartInv, IsolInv, ProcInv, ForkInv
  <2>2. /\ pc'[<<x, "R3">>] = "recv"
        /\ \A p \in Proc : p # q /\ p # <<x, "R3">> => pc'[p] = pc[p]
    BY <1>1, <1>3, Procs DEF LoopInv
  <2>3. q[1] = x /\ q[2] \notin {"R2", "R3"} /\ q \in Proc
    BY <1>1
  <2> QED  BY <2>1, <2>2, <2>3, ForkReaderCopy
<1>4. CASE pc[q] = "fork" /\ Goto(q, "done") /\ UNCHANGED <<sockVars, buf, off>>
  <2>1. UNCHANGED <<aggVars, pipeVars>>
    BY DEF R1, read_data_and_drop
  <2>2. /\ pc[q] \notin Over /\ pc'[q] # "none"
        /\ \A p \in Proc : p # q => UNCHANGED <<pc[p], buf[p], off[p]>>
    BY <1>1, <1>4 DEF Goto, Over, LoopInv
  <2>3. /\ UNCHANGED <<got, sent, peer, idx, pipeVars>>
        /\ \A s \in Sock : shut[s] => shut'[s]
        /\ \A s \in Conn : outq'[s] = outq[s]
        /\ \A a \in Prod : inq'[Backend[a]] = inq[Backend[a]]
    BY <1>4, <2>1 DEF sockVars, aggVars
  <2> QED  BY <1>1, <2>2, <2>3, WorkerQuiet
<1> QED  BY <1>2, <1>3, <1>4 DEF R1, read_data_and_drop

\* A connection of the clone without a pipe: its R2 or R3 goes to the end.
LEMMA AstrayReadCopy ==
  ASSUME ReplayInv, NEW y \in Clone, NEW r \in {"R2", "R3"},
         \/ /\ \E next \in {"shut1", "done"} : ReadAstray(<<y, r>>, next)
         \/ /\ r = "R2" /\ Shut(<<y, r>>, "shut1", y, "done") /\ UNCHANGED pipeVars,
         UNCHANGED aggVars
  PROVE  CopyInv'
<1> DEFINE q == <<y, r>>
<1>1. /\ LoopInv(Proc, Step, {"send"}) /\ q \in Proc /\ y \in Conn /\ y \in Sock
      /\ \A a \in Prod : Backend[a] \in Sock /\ Backend[a] # y
      /\ \A s \in Conn : s \in Sock
  <2>1. <<y, "R2">> \in Proc /\ <<y, "R3">> \in Proc /\ y \in Conn
    BY Procs
  <2>2. q \in Proc
    BY <2>1
  <2> QED  BY <2>1, <2>2, Socks DEF ReplayInv, StartInv, IsolInv, ProcInv
<1>2. /\ pc[q] \in Ending /\ pc[q] \notin Over /\ pc'[q] \in {"shut1", "done"}
      /\ UNCHANGED <<got, sent, peer, idx, pipeVars>>
  BY <1>1 DEF ReadAstray, Shut, ShutDown, Goto, Over, Ending, sockVars, aggVars, LoopInv
<1>3. \A p \in Proc : p # q => UNCHANGED <<pc[p], buf[p], off[p]>>
  BY <1>1 DEF ReadAstray, Shut, Goto, LoopInv
<1>4. /\ \A s \in Sock : shut[s] => shut'[s]
      /\ \A s \in Conn : outq'[s] = outq[s]
      /\ \A a \in Prod : inq'[Backend[a]] = inq[Backend[a]]
  BY <1>1 DEF ReadAstray, Shut, ShutDown, sockVars, LoopInv, SockTypeOK
<1> QED  BY <1>1, <1>2, <1>3, <1>4, WorkerQuiet

\* R3 loses what it has read.
LEMMA LostCopy ==
  ASSUME ReplayInv, NEW x \in Clone, pc[<<x, "R3">>] = "send", Goto(<<x, "R3">>, "recv"),
         Drop(<<x, "R3">>, "recv"), UNCHANGED <<sockVars, off, aggVars, pipeVars>>
  PROVE  CopyInv'
<1>1. LoopInv(Proc, Step, {"send"}) /\ <<x, "R3">> \in Proc /\ x \in Conn
  BY Procs DEF ReplayInv, StartInv, IsolInv, ProcInv
<1>2. /\ pc[<<x, "R3">>] \notin Over /\ pc'[<<x, "R3">>] # "none"
      /\ \A p \in Proc : p # <<x, "R3">> => UNCHANGED <<pc[p], buf[p], off[p]>>
  BY <1>1 DEF Goto, Drop, Over, LoopInv
<1>3. /\ UNCHANGED <<got, sent, peer, idx, pipeVars>>
      /\ \A s \in Sock : shut[s] => shut'[s]
      /\ \A s \in Conn : outq'[s] = outq[s]
      /\ \A a \in Prod : inq'[Backend[a]] = inq[Backend[a]]
  BY DEF sockVars, aggVars
<1> QED  BY <1>1, <1>2, <1>3, WorkerQuiet

----------------------------------------------------------------------------
(* W2.                                                                     *)

\* A step of W2 that puts nothing into the pipe.
LEMMA W2Still ==
  ASSUME ReplayInv, NEW x \in Prod,
         pc[<<x, "W2">>] \notin Over, pc'[<<x, "W2">>] # "none",
         \A p \in Proc : p # <<x, "W2">> => UNCHANGED <<pc[p], buf[p], off[p]>>,
         UNCHANGED <<got, sent, peer, idx, pipes>>, dropped \subseteq dropped',
         \A s \in Sock : shut[s] => shut'[s],
         \A s \in Conn : s # x => outq'[s] = outq[s],
         \A a \in Prod : a # x => inq'[Backend[a]] = inq[Backend[a]],
         Mark(x)' \in Nat, Mark(x) =< Mark(x)',
         Passed(x)' \in Nat, Passed(x) =< Passed(x)',
         Working(x)' /\ idx[x] \in Index =>
            /\ Working(x)
            /\ \A n \in 1 .. Mark(x)' : n =< Mark(x) \/ ReplyUnit(x, n) \in dropped'
  PROVE  Sources' /\ Followed' /\ Replayed'
<1>1. ASSUME NEW a \in Prod
      PROVE  /\ Mark(a)' \in Nat /\ Mark(a) =< Mark(a)'
             /\ Passed(a)' \in Nat /\ Passed(a) =< Passed(a)'
             /\ Standing(a)' => Standing(a)
             /\ Working(a)' /\ idx[a] \in Index =>
                   /\ Working(a)
                   /\ \A n \in 1 .. Mark(a)' : n =< Mark(a) \/ ReplyUnit(a, n) \in dropped'
             /\ pc'[<<a, "W2">>] = "none" <=> pc[<<a, "W2">>] = "none"
  <2>1. /\ <<a, "W2">> \in Proc /\ (a # x => <<a, "W2">> # <<x, "W2">>)
        /\ a \in Conn /\ a \in Sock /\ <<x, "W2">> \in Proc /\ x \in Conn
    BY Procs, Socks
  <2>2. ASSUME Standing(a)' PROVE Standing(a)
    <3>1. Writable(a)' => Writable(a)
      BY <2>1 DEF Writable, ReplayInv, StartInv, IsolInv, ProcInv, LoopInv, SockTypeOK
    <3>2. \A p \in Proc : p[1] # x => pc'[p] = pc[p]
      <4>1. ASSUME NEW p \in Proc, p[1] # x PROVE pc'[p] = pc[p]
        <5>1. p # <<x, "W2">>
          BY <4>1
        <5> QED  BY <5>1
      <4> QED  BY <4>1
    <3> QED  BY <2>1, <2>2, <3>1, <3>2, StandingStill
  <2>3. CASE a = x
    BY <2>2, <2>3, Zenon DEF Over
  <2>4. CASE a # x
    <3>1. UNCHANGED <<pc[<<a, "W2">>], buf[<<a, "W2">>], inq[Backend[a]], outq[a], got, sent>>
      BY <2>1, <2>4
    <3>2. Mark(a)' = Mark(a) /\ Passed(a)' = Passed(a) /\ (Working(a)' <=> Working(a))
      BY <3>1 DEF Mark, Owed, Working, Passed
    <3>3. Mark(a) \in Nat /\ Passed(a) \in Nat
      BY MarkCounts, ProdCounts
    <3>4. /\ Mark(a) =< Mark(a)' /\ Passed(a) =< Passed(a)'
          /\ \A n \in 1 .. Mark(a)' : n =< Mark(a)
      BY <3>2, <3>3
    <3> QED  BY <2>2, <3>1, <3>2, <3>3, <3>4, Zenon
  <2> QED  BY <2>3, <2>4
<1>2. ASSUME NEW y \in Clone
      PROVE  /\ UNCHANGED <<pc[<<y, "R2">>], pc[<<y, "R3">>]>>
             /\ Line(y)' = Line(y) /\ Played(y)' = Played(y)
             /\ Idle(y)' <=> Idle(y)
             /\ Live(y)' => Live(y)
             /\ \A i \in Index : Chain(i, y)' = Chain(i, y)
  <2>1. /\ y \in Conn /\ y \in Sock /\ y # x /\ <<y, "R2">> \in Proc /\ <<y, "R3">> \in Proc
        /\ <<y, "R2">> # <<x, "W2">> /\ <<y, "R3">> # <<x, "W2">>
    BY Procs, Socks
  <2>2. UNCHANGED <<pc[<<y, "R2">>], buf[<<y, "R2">>], off[<<y, "R2">>], pc[<<y, "R3">>], outq[y]>>
    BY <2>1
  <2>3. Live(y)' => Live(y)
    BY <2>1, <2>2 DEF Live
  <2> QED  BY <2>2, <2>3 DEF Line, Rest, Played, Chain, Idle
<1>3. ASSUME NEW i \in Index
      PROVE  Writers(i)' = Writers(i) /\ Readers(i)' = Readers(i) /\ Copies(i)' \subseteq Copies(i)
  <2>1. Writers(i)' = Writers(i)
    BY <1>1 DEF Writers
  <2>2. Readers(i)' = Readers(i)
    BY <1>2 DEF Readers
  <2>3. \A y \in Readers(i) : Played(y)' = Played(y)
    BY <1>2 DEF Readers
  <2> QED  BY <2>1, <2>2, <2>3 DEF Copies
<1>4. ASSUME NEW i \in Index, NEW a \in Prod, NEW y \in Clone, Paired(i, a, y)'
      PROVE  /\ Paired(i, a, y)
             /\ Replays(Base[Backend[a]], Line(y)', dropped)
             /\ Live(y)' => Live(y) /\ Chain(i, y)' = Chain(i, y)
  <2>1. Paired(i, a, y)
    BY <1>2, <1>3, <1>4 DEF Paired
  <2>2. Replays(Base[Backend[a]], Line(y), dropped)
    BY <2>1 DEF ReplayInv, CopyInv, Replayed, Replay
  <2> QED  BY <1>2, <2>1, <2>2
<1> QED  BY <1>1, <1>3, <1>4, Still

\* recv() takes what comes right after the last reply W2 has written.
LEMMA W2RecvCopy ==
  ASSUME ReplayInv, NEW x \in Prod, Recv(<<x, "W2">>, Backend[x], "send", "shut1"),
         UNCHANGED <<aggVars, pipeVars>>
  PROVE  CopyInv' /\ Mark(x)' \in Nat /\ Mark(x) =< Mark(x)'
<1> DEFINE q == <<x, "W2">>
           s == Backend[x]
<1>1. /\ LoopInv(Proc, Step, {"send"}) /\ q \in Proc /\ s \in Sock /\ s \notin Conn
      /\ x \in Sock /\ Behind(s)
      /\ \A a \in Prod : a # x => Backend[a] # s /\ Backend[a] \in Sock
  BY Procs, Socks DEF ReplayInv, StartInv, IsolInv, ProcInv, Streams, Stream
<1>2. /\ pc[q] = "recv" /\ UNCHANGED <<off, got, outq, sent, shut, peer, idx, pipes, dropped>>
      /\ \A p \in Proc : p # q => UNCHANGED <<pc[p], buf[p], off[p]>>
      /\ pc'[q] \in {"send", "shut1"}
  BY <1>1 DEF Recv, Receive, Goto, LoopInv, sockVars, aggVars, pipeVars
<1>3. \A a \in Prod : a # x => inq'[Backend[a]] = inq[Backend[a]]
  BY <1>1 DEF Recv, Receive, LoopInv, SockTypeOK, sockVars
<1>4. Passed(x)' = Passed(x) /\ Passed(x) \in Nat
  BY <1>2, ProdCounts DEF Passed
<1>5. /\ sent[s] \in Nat /\ inq[s] \in Seq(Nat) /\ Len(inq[s]) \in Nat /\ Len(inq[s]) =< sent[s]
      /\ Mark(x) = sent[s] - Len(inq[s]) - 0 /\ Working(x)
  <2>1. sent[s] \in Nat /\ inq[s] \in Seq(Nat) /\ Len(inq[s]) \in Nat
    BY ProdCounts
  <2> QED  BY <1>1, <1>2, <2>1 DEF Behind, Mark, Working, Owed, Holding
<1>6. Mark(x)' \in Nat /\ Mark(x) =< Mark(x)' /\ (Working(x)' => Mark(x)' = Mark(x)) /\ Took(x)'
  <2>1. CASE AtEnd(s) /\ Goto(q, "shut1") /\ UNCHANGED <<sockVars, buf>>
    <3>1. pc'[q] = "shut1"
      BY <1>1, <2>1 DEF Goto, LoopInv
    <3>2. Mark(x)' = sent[s] /\ ~Working(x)' /\ Took(x)'
      BY <1>2, <3>1 DEF Mark, Working, Holding, Took
    <3> QED  BY <1>5, <3>2
  <2>2. CASE /\ \E k \in 1 .. BufSize :
                   /\ k =< Len(inq[s])
                   /\ buf' = [buf EXCEPT ![q] = SubSeq(inq[s], 1, k)]
                   /\ Receive(s, k)
             /\ Goto(q, "send")
    <3> DEFINE b == buf'[q]
               r == inq'[s]
               n == sent[s]
               l == Len(inq[s])
    <3>1. PICK k \in 1 .. BufSize :
             /\ k =< l
             /\ buf' = [buf EXCEPT ![q] = SubSeq(inq[s], 1, k)]
             /\ Receive(s, k)
      BY <2>2
    <3>2. k \in 1 .. l /\ l \in Nat /\ n \in Nat /\ k \in Nat
      BY <1>5, <3>1, BufSizeAssumption
    <3>3. b = SubSeq(inq[s], 1, k) /\ r = SubSeq(inq[s], k + 1, l)
      BY <1>1, <3>1 DEF Receive, LoopInv, SockTypeOK
    <3>4. Len(b) = k /\ Len(r) = l - k /\ \A i \in 1 .. k : b[i] = inq[s][i]
      <4>1. /\ Len(SubSeq(inq[s], 1, k)) = k
            /\ \A i \in 1 .. k : SubSeq(inq[s], 1, k)[i] = inq[s][i]
            /\ Len(SubSeq(inq[s], k + 1, l)) = l - k
        BY <1>5, <3>2, Cut
      <4> QED  BY <3>3, <4>1
    <3>5. pc'[q] = "send"
      BY <1>1, <2>2 DEF Goto, LoopInv
    <3>6. Mark(x)' = n - Len(r) - Len(b) /\ Working(x)'
      BY <1>2, <3>5 DEF Mark, Working, Owed, Holding
    <3>7. \A i \in 1 .. l : inq[s][i] = Base[s] + n - l + i
      BY <1>1 DEF Behind
    <3>8. Mark(x) = n - l - 0 /\ l =< n
      BY <1>5
    <3>9. Base[s] \in Nat
      BY ProdCounts
    <3> HIDE DEF b, r, n, l
    <3>10. Mark(x)' = Mark(x) /\ Mark(x)' \in Nat /\ Mark(x) =< Mark(x)'
      BY <3>2, <3>4, <3>6, <3>8
    <3>11. Len(r) + Len(b) =< n
      BY <3>2, <3>4, <3>8
    <3>12. ASSUME NEW i \in 1 .. k PROVE b[i] = Base[s] + (n - Len(r) - Len(b) + i)
      <4>1. i \in 1 .. l
        BY <3>2
      <4>2. b[i] = Base[s] + n - l + i
        BY <3>4, <3>7, <4>1
      <4> QED  BY <3>2, <3>4, <3>9, <4>2
    <3>13. Took(x)'
      <4>1. Len(b) = k /\ n = sent'[s]
        BY <1>2, <3>4 DEF n
      <4> QED  BY <3>11, <3>12, <4>1 DEF Took, ReplyUnit, b, r
    <3> QED  BY <3>10, <3>13
  <2> QED  BY <2>1, <2>2 DEF Recv
<1>7. Taken'
  <2>1. ASSUME NEW a \in Prod, a # x PROVE Took(a)'
    <3>1. /\ <<a, "W2">> \in Proc /\ <<a, "W2">> # q
          /\ sent[Backend[a]] \in Nat /\ Len(inq[Backend[a]]) \in Nat
      BY <2>1, ProdCounts
    <3> QED  BY <1>2, <1>3, <2>1, <3>1, TookStill
  <2> QED  BY <1>6, <2>1 DEF Taken
<1>8. \A n \in 1 .. Mark(x)' : Working(x)' => n =< Mark(x)
  BY <1>6
<1>9. Passed(x)' \in Nat /\ Passed(x) =< Passed(x)'
  BY <1>4
<1>10. pc[q] \notin Over /\ pc'[q] # "none"
  BY <1>2 DEF Over
<1>11. Sources' /\ Followed' /\ Replayed'
  BY <1>2, <1>3, <1>5, <1>6, <1>8, <1>9, <1>10, W2Still
<1> QED  BY <1>6, <1>7, <1>11 DEF CopyInv

\* send() to production, and the end of the loop.
LEMMA W2SendCopy ==
  ASSUME ReplayInv, NEW x \in Prod, UNCHANGED <<aggVars, pipeVars>>,
         \/ Send(<<x, "W2">>, "send", x, "write")
         \/ Shut(<<x, "W2">>, "shut1", x, "shut2")
         \/ Shut(<<x, "W2">>, "shut2", Backend[x], "done")
  PROVE  CopyInv' /\ Mark(x)' \in Nat /\ Mark(x) =< Mark(x)'
<1> DEFINE q == <<x, "W2">>
<1>1. /\ LoopInv(Proc, Step, {"send"}) /\ q \in Proc /\ x \in Sock /\ x \in Conn
      /\ \A s \in Conn : s \in Sock
  BY Procs, Socks DEF ReplayInv, StartInv, IsolInv, ProcInv
<1>2. /\ pc[q] \notin Over /\ UNCHANGED <<inq, got, sent, peer, idx, pipes, dropped>>
      /\ \A s \in Sock : shut[s] => shut'[s]
      /\ \A s \in Conn : s # x => outq'[s] = outq[s]
  BY <1>1 DEF Send, Shut, Transmit, ShutDown, Over, sockVars, aggVars, pipeVars, LoopInv, SockTypeOK
<1>3. \A p \in Proc : p # q => UNCHANGED <<pc[p], buf[p], off[p]>>
  <2>1. \A p \in Proc : p # q => pc'[p] = pc[p]
    BY <1>1 DEF Send, Shut, Goto, LoopInv
  <2>2. \A p \in Proc : p # q => buf'[p] = buf[p]
    BY <1>1 DEF Send, Shut, Drop, LoopInv
  <2>3. \A p \in Proc : p # q => off'[p] = off[p]
    BY <1>1 DEF Send, Shut, LoopInv
  <2> QED  BY <2>1, <2>2, <2>3
<1>4. Passed(x) \in Nat /\ Passed(x)' \in Nat /\ Passed(x) =< Passed(x)'
  <2>1. Passed(x) \in Nat /\ outq[x] \in Seq(Nat) /\ got[x] \in Seq(Nat) /\ buf[q] \in Seq(Nat)
        /\ off[q] \in Nat
    BY <1>1, ProdCounts DEF LoopInv, SockTypeOK
  <2>2. Len(got[x]) \in Nat /\ Len(outq[x]) \in Nat
    BY <2>1, LenProperties
  <2>3. outq'[x] = outq[x] \/ outq'[x] = Append(outq[x], NextUnit(q))
    BY <1>1 DEF Send, Shut, Transmit, ShutDown, sockVars, LoopInv, SockTypeOK
  <2>4. CASE outq'[x] = outq[x]
    <3>1. Passed(x)' = Passed(x)
      BY <1>2, <2>4 DEF Passed
    <3> QED  BY <2>1, <3>1
  <2>5. CASE outq'[x] = Append(outq[x], NextUnit(q))
    <3>1. Len(outq'[x]) = Len(outq[x]) + 1
      BY <2>1, <2>5
    <3>2. Passed(x) = Len(got[x]) + Len(outq[x]) /\ Passed(x)' = Len(got[x]) + Len(outq'[x])
      BY <1>2 DEF Passed
    <3>3. \A g, o \in Nat : g + (o + 1) = (g + o) + 1
      OBVIOUS
    <3>4. Passed(x)' = Passed(x) + 1
      BY <2>2, <3>1, <3>2, <3>3, Zenon
    <3> QED  BY <2>1, <3>4
  <2> QED  BY <2>3, <2>4, <2>5
<1>5. \/ /\ pc[q] = "send" /\ pc'[q] \in Holding /\ buf'[q] = buf[q]
      \/ pc'[q] \in {"killed", "shut2", "done"}
  BY <1>1 DEF Send, Shut, Goto, Drop, LoopInv, Holding
<1>6. /\ Mark(x)' \in Nat /\ Mark(x) =< Mark(x)' /\ Took(x)' /\ pc'[q] # "none"
      /\ Working(x)' => Working(x) /\ Mark(x)' = Mark(x)
  <2>1. Mark(x) \in Nat /\ Mark(x) =< sent[Backend[x]] /\ sent[Backend[x]] \in Nat
    BY MarkCounts, ProdCounts
  <2>2. CASE pc[q] = "send" /\ pc'[q] \in Holding /\ buf'[q] = buf[q]
    <3>1. Mark(x)' = Mark(x) /\ Working(x)
      BY <1>2, <2>2 DEF Mark, Owed, Working, Holding
    <3>2. Took(x)'
      <4>1. pc[q] \in Holding /\ Len(inq[Backend[x]]) \in Nat
        BY <2>2, ProdCounts DEF Holding
      <4> QED  BY <1>2, <2>1, <2>2, <4>1, TookStill
    <3>3. pc'[q] # "none"
      BY <2>2 DEF Holding
    <3> QED  BY <2>1, <3>1, <3>2, <3>3
  <2>3. CASE pc'[q] \in {"killed", "shut2", "done"}
    <3>1. Mark(x)' = sent[Backend[x]] /\ ~Working(x)' /\ Took(x)' /\ pc'[q] # "none"
      BY <1>2, <2>3 DEF Mark, Working, Holding, Took
    <3> QED  BY <2>1, <3>1
  <2> QED  BY <1>5, <2>2, <2>3
<1>7. Taken'
  <2>1. ASSUME NEW a \in Prod, a # x PROVE Took(a)'
    <3>1. /\ <<a, "W2">> \in Proc /\ <<a, "W2">> # q
          /\ sent[Backend[a]] \in Nat /\ Len(inq[Backend[a]]) \in Nat
      BY <2>1, ProdCounts
    <3> QED  BY <1>2, <1>3, <2>1, <3>1, TookStill
  <2> QED  BY <1>6, <2>1 DEF Taken
<1>8. \A n \in 1 .. Mark(x)' : Working(x)' => n =< Mark(x)
  BY <1>6
<1>9. \A a \in Prod : a # x => inq'[Backend[a]] = inq[Backend[a]]
  BY <1>2
<1>10. Sources' /\ Followed' /\ Replayed'
  BY <1>2, <1>3, <1>4, <1>6, <1>8, <1>9, W2Still
<1> QED  BY <1>6, <1>7, <1>10 DEF CopyInv

\* What write() puts into the pipe, or drops: the replies after the last one.
LEMMA Written ==
  ASSUME ReplayInv, NEW x \in Prod, UNCHANGED aggVars,
         WritePipe(<<x, "W2">>, idx[x], "recv") \/ WriteAstray(<<x, "W2">>, "recv")
  PROVE  /\ pc[<<x, "W2">>] = "write" /\ pc'[<<x, "W2">>] = "recv"
         /\ UNCHANGED <<inq, outq, got, sent, shut, peer, off, idx>>
         /\ \A p \in Proc : p # <<x, "W2">> => UNCHANGED <<pc[p], buf[p], off[p]>>
         /\ Working(x) /\ Working(x)'
         /\ Mark(x)' = Mark(x) + Len(buf[<<x, "W2">>]) /\ Mark(x)' =< MaxSent[Backend[x]]
         /\ Mark(x) \in Nat /\ Mark(x)' \in Nat
         /\ \A k \in 1 .. Len(buf[<<x, "W2">>]) :
               buf[<<x, "W2">>][k] = ReplyUnit(x, Mark(x) + k)
         /\ Writable(x) => Mark(x)' = Passed(x)
         /\ Taken'
<1> DEFINE q == <<x, "W2">>
           n == sent[Backend[x]]
           l == Len(inq[Backend[x]])
           b == Len(buf[q])
<1>1. /\ LoopInv(Proc, Step, {"send"}) /\ q \in Proc
      /\ Joined(q, Backend[x], x)
  BY Procs DEF ReplayInv, StartInv, IsolInv, ProcInv, Streams, Stream
<1>2. /\ pc[q] = "write" /\ pc'[q] = "recv"
      /\ UNCHANGED <<inq, outq, got, sent, shut, peer, off, idx>>
      /\ \A p \in Proc : p # q => UNCHANGED <<pc[p], buf[p], off[p]>>
  BY <1>1 DEF WritePipe, WriteAstray, Goto, Drop, LoopInv, sockVars, aggVars
<1>3. n \in Nat /\ l \in Nat /\ b \in Nat /\ Passed(x) \in Nat /\ MaxSent[Backend[x]] \in Nat
  BY ProdCounts
<1>4. /\ Working(x) /\ Working(x)'
      /\ Mark(x) = n - l - b /\ Mark(x)' = n - l - 0
  BY <1>2 DEF Working, Mark, Owed, Holding
<1>5. /\ l + b =< n
      /\ \A k \in 1 .. b : buf[q][k] = ReplyUnit(x, n - l - b + k)
  BY <1>2 DEF ReplayInv, CopyInv, Taken, Took, Holding
<1>6. n =< MaxSent[Backend[x]]
  <2>1. Backend[x] \in Sock
    BY ProdCounts
  <2> QED  BY <2>1 DEF ReplayInv, StartInv, Limits
<1>7. Writable(x) => Passed(x) + 0 + l = n
  BY <1>1, <1>2 DEF Joined, Held, Flow
<1> HIDE DEF n, l, b
<1>8. /\ Mark(x)' = Mark(x) + b /\ Mark(x)' =< MaxSent[Backend[x]]
      /\ Mark(x) \in Nat /\ Mark(x)' \in Nat
      /\ \A k \in 1 .. b : buf[q][k] = ReplyUnit(x, Mark(x) + k)
      /\ Writable(x) => Mark(x)' = Passed(x)
  BY <1>3, <1>4, <1>5, <1>6, <1>7
<1>9. Taken'
  <2>1. ASSUME NEW a \in Prod PROVE Took(a)'
    <3>1. /\ <<a, "W2">> \in Proc /\ (a # x => <<a, "W2">> # q)
          /\ sent[Backend[a]] \in Nat /\ Len(inq[Backend[a]]) \in Nat
      BY ProdCounts
    <3>2. CASE a = x
      BY <1>2, <3>2 DEF Took, Holding
    <3>3. CASE a # x
      BY <1>2, <3>1, <3>3, TookStill
    <3> QED  BY <3>2, <3>3
  <2> QED  BY <2>1 DEF Taken
<1> QED  BY <1>2, <1>4, <1>8, <1>9 DEF b

\* The pipe has no room, and the replies are dropped, or there is no pipe.
LEMMA OverflowCopy ==
  ASSUME ReplayInv, NEW x \in Prod, UNCHANGED aggVars,
         \/ WritePipe(<<x, "W2">>, idx[x], "recv") /\ Refuse(<<x, "W2">>, idx[x])
         \/ WriteAstray(<<x, "W2">>, "recv") /\ idx[x] \notin Index
  PROVE  CopyInv'
<1> DEFINE q == <<x, "W2">>
           b == Len(buf[q])
<1>1. /\ pc[q] = "write" /\ pc'[q] = "recv"
      /\ UNCHANGED <<inq, outq, got, sent, shut, peer, off, idx>>
      /\ \A p \in Proc : p # q => UNCHANGED <<pc[p], buf[p], off[p]>>
      /\ Working(x) /\ Working(x)' /\ Taken'
  BY Written
<1>2. /\ Mark(x)' = Mark(x) + b /\ Mark(x) \in Nat /\ Mark(x)' \in Nat
      /\ \A k \in 1 .. b : buf[q][k] = ReplyUnit(x, Mark(x) + k)
  BY Written
<1>3. /\ dropped \subseteq dropped' /\ pipes' = pipes
      /\ idx[x] \in Index => dropped' = dropped \cup Units(buf[q])
  BY DEF Refuse, WriteAstray
<1>4. b \in Nat /\ Passed(x) \in Nat
  BY ProdCounts
<1>5. idx[x] \in Index => \A k \in 1 .. b : buf[q][k] \in dropped'
  BY <1>3 DEF Units
<1> HIDE DEF b
<1>6. ASSUME idx[x] \in Index, NEW n \in 1 .. Mark(x)'
      PROVE  n =< Mark(x) \/ ReplyUnit(x, n) \in dropped'
  <2>1. CASE n > Mark(x)
    <3> DEFINE k == n - Mark(x)
    <3>1. k \in 1 .. b /\ Mark(x) + k = n
      BY <1>2, <1>4, <2>1
    <3> HIDE DEF k
    <3> QED  BY <1>2, <1>5, <1>6, <3>1
  <2> QED  BY <1>2, <2>1
<1>7. /\ Mark(x) =< Mark(x)' /\ Passed(x)' = Passed(x)
      /\ pc[q] \notin Over /\ pc'[q] # "none"
  BY <1>1, <1>2, <1>4 DEF Passed, Over
<1>8. Passed(x)' \in Nat /\ Passed(x) =< Passed(x)'
  BY <1>4, <1>7
<1>9. Sources' /\ Followed' /\ Replayed'
  <2>1. /\ UNCHANGED <<got, sent, peer, idx, pipes>> /\ dropped \subseteq dropped'
        /\ \A s \in Sock : shut[s] => shut'[s]
        /\ \A s \in Conn : s # x => outq'[s] = outq[s]
        /\ \A a \in Prod : a # x => inq'[Backend[a]] = inq[Backend[a]]
    BY <1>1, <1>3
  <2> QED  BY <1>1, <1>2, <1>6, <1>7, <1>8, <2>1, W2Still
<1> QED  BY <1>1, <1>9 DEF CopyInv

\* The pipe has room: the replies go behind what is in it.
LEMMA FitCopy ==
  ASSUME ReplayInv, NEW x \in Prod, WritePipe(<<x, "W2">>, idx[x], "recv"), UNCHANGED aggVars,
         Put(<<x, "W2">>, idx[x]), idx[x] \in Index
  PROVE  CopyInv'
<1> DEFINE q == <<x, "W2">>
           b == buf[q]
           j == idx[x]
<1>1. /\ pc[q] = "write" /\ pc'[q] = "recv"
      /\ UNCHANGED <<inq, outq, got, sent, shut, peer, off, idx>>
      /\ \A p \in Proc : p # q => UNCHANGED <<pc[p], buf[p], off[p]>>
      /\ Working(x) /\ Working(x)' /\ Taken'
  BY Written
<1>2. /\ Mark(x)' = Mark(x) + Len(b) /\ Mark(x) \in Nat /\ Mark(x)' \in Nat
      /\ \A k \in 1 .. Len(b) : b[k] = ReplyUnit(x, Mark(x) + k)
      /\ Mark(x)' =< MaxSent[Backend[x]]
      /\ Writable(x) => Mark(x)' = Passed(x)
  BY Written
<1>3. /\ j \in Index /\ b \in Seq(Nat) /\ Len(b) \in Nat /\ pipes \in [Index -> Seq(Nat)]
      /\ pc \in [Proc -> Step] /\ q \in Proc /\ x \in Conn
  <2>1. j \in Index
    OBVIOUS
  <2> QED
    BY <2>1, ProdCounts, Procs DEF ReplayInv, StartInv, IsolInv, ProcInv, PipeInv, LoopInv
<1>4. pipes'[j] = pipes[j] \o b /\ dropped' = dropped /\ \A i \in Index : i # j => pipes'[i] = pipes[i]
  BY <1>3 DEF Put
<1>5. x \in Writers(j)
  BY <1>1 DEF Writers
<1> HIDE DEF q, b, j
<1>6. \A u \in Units(b) : \E k \in 1 .. Len(b) :
         /\ u = ReplyUnit(x, Mark(x) + k)
         /\ Mark(x) + k \in 1 .. Mark(x)' /\ Mark(x) + k \in 1 .. MaxSent[Backend[x]]
  <2>1. ASSUME NEW k \in 1 .. Len(b)
        PROVE  Mark(x) + k \in 1 .. Mark(x)' /\ Mark(x) + k \in 1 .. MaxSent[Backend[x]]
    <3>1. MaxSent[Backend[x]] \in Nat
      BY ProdCounts
    <3> QED  BY <1>2, <1>3, <3>1
  <2> QED  BY <1>2, <2>1 DEF Units
<1>7. ASSUME NEW a \in Prod
      PROVE  /\ pc'[<<a, "W2">>] = "none" <=> pc[<<a, "W2">>] = "none"
             /\ a # x => Mark(a)' = Mark(a)
             /\ Working(a)' <=> Working(a)
             /\ Passed(a)' = Passed(a)
             /\ Standing(a)' => Standing(a)
  <2>1. <<a, "W2">> \in Proc /\ (a # x => <<a, "W2">> # q)
    BY Procs DEF q
  <2>2. pc'[<<a, "W2">>] = "none" <=> pc[<<a, "W2">>] = "none"
    BY <1>1, <2>1 DEF q
  <2>3. (a # x => Mark(a)' = Mark(a)) /\ (Working(a)' <=> Working(a))
    <3>1. CASE a = x
      BY <1>1, <3>1
    <3>2. CASE a # x
      <4>1. UNCHANGED <<pc[<<a, "W2">>], buf[<<a, "W2">>], inq, sent>>
        BY <1>1, <2>1, <3>2
      <4> QED  BY <4>1 DEF Mark, Owed, Working
    <3> QED  BY <3>1, <3>2
  <2>4. Passed(a)' = Passed(a)
    BY <1>1 DEF Passed
  <2>5. ASSUME Standing(a)' PROVE Standing(a)
    <3>1. <<x, "W2">> \in Proc /\ "W2" # "R3" /\ pc[<<x, "W2">>] \notin Over
      BY <1>1, <1>3 DEF q, Over
    <3>2. Writable(a)' => Writable(a)
      BY <1>1 DEF Writable
    <3>3. \A p \in Proc : p[1] # x => pc'[p] = pc[p]
      <4>1. ASSUME NEW p \in Proc, p[1] # x PROVE pc'[p] = pc[p]
        <5>1. p # q
          BY <4>1 DEF q
        <5> QED  BY <1>1, <5>1
      <4> QED  BY <4>1
    <3> QED  BY <1>3, <2>5, <3>1, <3>2, <3>3, StandingStill
  <2> QED  BY <2>2, <2>3, <2>4, <2>5
<1>8. ASSUME NEW y \in Clone
      PROVE  /\ pc'[<<y, "R2">>] = pc[<<y, "R2">>] /\ pc'[<<y, "R3">>] = pc[<<y, "R3">>]
             /\ Line(y)' = Line(y) /\ Rest(y)' = Rest(y) /\ Played(y)' = Played(y)
             /\ (Idle(y)' <=> Idle(y)) /\ (Live(y)' <=> Live(y))
  <2>1. /\ <<y, "R2">> \in Proc /\ <<y, "R3">> \in Proc /\ <<y, "R2">> # q /\ <<y, "R3">> # q
    BY Procs DEF q
  <2>2. UNCHANGED <<pc[<<y, "R2">>], buf[<<y, "R2">>], off[<<y, "R2">>], pc[<<y, "R3">>]>>
    BY <1>1, <2>1
  <2> QED  BY <1>1, <2>2 DEF Line, Rest, Played, Idle, Live
<1>9. ASSUME NEW i \in Index
      PROVE  /\ Writers(i)' = Writers(i) /\ Readers(i)' = Readers(i)
             /\ Copies(i)' = Copies(i) \cup IF i = j THEN Units(b) ELSE {}
  <2>1. Writers(i)' = Writers(i)
    BY <1>1, <1>7 DEF Writers
  <2>2. Readers(i)' = Readers(i)
    BY <1>1, <1>8 DEF Readers
  <2>3. \A y \in Readers(i) : Played(y)' = Played(y)
    BY <1>8 DEF Readers
  <2>4. Units(pipes'[i]) = Units(pipes[i]) \cup IF i = j THEN Units(b) ELSE {}
    <3>1. pipes[j] \in Seq(Nat)
      BY <1>3
    <3>2. Units(pipes[j] \o b) = Units(pipes[j]) \cup Units(b)
      BY <1>3, <3>1, Splice
    <3> QED  BY <1>4, <3>2
  <2>5. Copies(i)' = Units(pipes'[i]) \cup UNION {Played(y)' : y \in Readers(i)'}
    BY DEF Copies, Units
  <2>6. Copies(i)' = Units(pipes'[i]) \cup UNION {Played(y) : y \in Readers(i)}
    BY <2>2, <2>3, <2>5
  <2> QED  BY <2>1, <2>2, <2>4, <2>6 DEF Copies
<1>10. ASSUME NEW i \in Index, NEW u \in Copies(i)'
       PROVE  \E c \in Writers(i)' : \E m \in 1 .. Mark(c)' : u = ReplyUnit(c, m)
  <2>1. CASE u \in Copies(i)
    <3>1. PICK c \in Writers(i) : \E m \in 1 .. Mark(c) : u = ReplyUnit(c, m)
      BY <2>1 DEF ReplayInv, CopyInv, Sources
    <3>2. PICK m \in 1 .. Mark(c) : u = ReplyUnit(c, m)
      BY <3>1
    <3>3. c \in Prod /\ Mark(c) \in Nat
      BY MarkCounts DEF Writers
    <3>4. m \in 1 .. Mark(c)'
      <4>1. CASE c = x
        <5>1. m \in 1 .. Mark(x) + Len(b)
          BY <1>2, <1>3, <4>1
        <5> QED  BY <1>2, <4>1, <5>1
      <4>2. CASE c # x
        BY <1>7, <3>3, <4>2
      <4> QED  BY <4>1, <4>2
    <3> QED  BY <1>9, <3>2, <3>4
  <2>2. CASE i = j /\ u \in Units(b)
    <3>1. PICK k \in 1 .. Len(b) : u = ReplyUnit(x, Mark(x) + k) /\ Mark(x) + k \in 1 .. Mark(x)'
      BY <1>6, <2>2
    <3> QED  BY <1>5, <1>9, <2>2, <3>1
  <2> QED  BY <1>9, <1>10, <2>1, <2>2
<1>11. ASSUME NEW a \in Prod, Standing(a)', NEW i \in Index, NEW n \in 1 .. MaxSent[Backend[a]],
              ReplyUnit(a, n) \in Copies(i)'
       PROVE  n =< Passed(a)'
  <2>1. Standing(a) /\ Passed(a)' = Passed(a)
    BY <1>7, <1>11
  <2>2. CASE ReplyUnit(a, n) \in Copies(i)
    BY <2>1, <2>2 DEF ReplayInv, CopyInv, Followed
  <2>3. CASE i = j /\ ReplyUnit(a, n) \in Units(b)
    <3>1. PICK k \in 1 .. Len(b) : /\ ReplyUnit(a, n) = ReplyUnit(x, Mark(x) + k)
                                   /\ Mark(x) + k \in 1 .. Mark(x)'
                                   /\ Mark(x) + k \in 1 .. MaxSent[Backend[x]]
      BY <1>6, <2>3
    <3>2. a = x
      BY <3>1, UnitsAssumption DEF ReplyUnit
    <3>3. n = Mark(x) + k
      <4>1. Base[Backend[x]] \in Nat
        BY ProdCounts
      <4>2. Base[Backend[x]] + n = Base[Backend[x]] + (Mark(x) + k)
        BY <3>1, <3>2 DEF ReplyUnit
      <4>3. n \in Int /\ Mark(x) + k \in Int
        BY <3>1
      <4>4. \A e \in Nat : \A r, t \in Int : e + r = e + t => r = t
        OBVIOUS
      <4> QED  BY <4>1, <4>2, <4>3, <4>4, Zenon
    <3>4. Mark(x)' = Passed(x)
      BY <1>2, <2>1, <3>2 DEF Standing
    <3>5. n =< Mark(x)'
      BY <1>2, <3>1, <3>3
    <3> QED  BY <2>1, <3>2, <3>4, <3>5
  <2> QED  BY <1>9, <1>11, <2>2, <2>3
<1>12. ASSUME NEW i \in Index, NEW a \in Prod, NEW y \in Clone, Paired(i, a, y)'
       PROVE  Replay(i, a, y)'
  <2> DEFINE z == Base[Backend[a]]
  <2>1. Paired(i, a, y)
    BY <1>1, <1>8, <1>9, <1>12 DEF Paired
  <2>2. Replay(i, a, y)
    BY <2>1 DEF ReplayInv, CopyInv, Replayed
  <2>3. CASE i # j
    <3>1. a # x
      BY <2>1, <2>3 DEF Paired, Writers, j
    <3>2. Chain(i, y)' = Chain(i, y)
      BY <1>4, <1>8, <2>3 DEF Chain
    <3> QED  BY <1>4, <1>7, <1>8, <2>2, <3>1, <3>2 DEF Replay, ReplyUnit
  <2>4. CASE i = j
    <3>1. a = x /\ Writers(i) = {x}
      BY <1>5, <2>1, <2>4 DEF Paired
    <3>2. Replays(z, Line(y)', dropped')
      BY <1>4, <1>8, <2>2 DEF Replay
    <3>3. ASSUME Live(y)'
          PROVE  /\ Replays(z, Chain(i, y)', dropped')
                 /\ \A n \in 1 .. Mark(a)' : ReplyUnit(a, n) \in dropped' \cup Units(Chain(i, y)')
      <4>1. /\ Chain(i, y) \in Seq(Nat) /\ Line(y) \in Seq(Nat) /\ Rest(y) \in Seq(Nat)
            /\ pipes[i] \in Seq(Nat)
            /\ Units(Chain(i, y)) = Played(y) \cup Units(pipes[i])
        BY CloneParts
      <4>2. Chain(i, y)' = Chain(i, y) \o b
        <5>1. Chain(i, y)' = Line(y) \o (Rest(y) \o (pipes[i] \o b))
          BY <1>4, <1>8, <2>4 DEF Chain
        <5>2. Chain(i, y) = Line(y) \o (Rest(y) \o pipes[i])
          BY DEF Chain
        <5>3. Lengthened(Line(y), Rest(y), pipes[i], b)
          BY <1>3, <4>1, PutBehind
        <5> QED  BY <5>1, <5>2, <5>3, Zenon DEF Lengthened
      <4>3. Live(y)
        BY <1>8, <3>3
      <4>4. /\ Replays(z, Chain(i, y), dropped)
            /\ \A n \in 1 .. Mark(x) : ReplyUnit(x, n) \in dropped \cup Units(Chain(i, y))
        BY <1>1, <2>2, <3>1, <4>3 DEF Replay
      <4>5. z \in Nat
        BY ProdCounts
      <4>6. \A u \in Units(Chain(i, y)) : u =< z + Mark(x)
        <5>1. Units(Chain(i, y)) \subseteq Copies(i)
          <6>1. Played(y) \subseteq Copies(i)
            BY <2>1, PlayedIn DEF Paired
          <6> QED  BY <4>1, <6>1 DEF Copies
        <5>2. ASSUME NEW u \in Units(Chain(i, y)) PROVE u =< z + Mark(x)
          <6>1. PICK m \in 1 .. Mark(x) : u = ReplyUnit(x, m)
            BY <3>1, <5>1 DEF ReplayInv, CopyInv, Sources
          <6> QED  BY <1>2, <3>1, <4>5, <6>1 DEF ReplyUnit
        <5> QED  BY <5>2
      <4>7. \A n \in 1 .. Mark(x) : z + n \in dropped \cup Units(Chain(i, y))
        BY <3>1, <4>4 DEF ReplyUnit
      <4>8. \A k \in 1 .. Len(b) : b[k] = z + Mark(x) + k
        <5>1. ASSUME NEW k \in 1 .. Len(b) PROVE b[k] = z + Mark(x) + k
          <6>1. b[k] = z + (Mark(x) + k)
            BY <1>2, <3>1 DEF ReplyUnit
          <6> QED  BY <1>2, <1>3, <4>5, <6>1
        <5> QED  BY <5>1
      <4> HIDE DEF z
      <4>9. /\ Replays(z, Chain(i, y) \o b, dropped)
            /\ \A n \in 1 .. Mark(x) + Len(b) : z + n \in dropped \cup Units(Chain(i, y) \o b)
        BY <1>2, <1>3, <4>1, <4>4, <4>5, <4>6, <4>7, <4>8, ReplaysExtend
      <4> QED  BY <1>2, <1>4, <3>1, <4>2, <4>9 DEF z, ReplyUnit
    <3> QED  BY <3>2, <3>3 DEF Replay, ReplyUnit
  <2> QED  BY <2>3, <2>4
<1>13. Sources' /\ Followed' /\ Replayed'
  BY <1>10, <1>11, <1>12 DEF Sources, Followed, Replayed, ReplyUnit
<1> QED  BY <1>1, <1>13 DEF CopyInv

\* W2.
LEMMA W2Copy ==
  ASSUME ReplayInv, NEW x \in Prod, W2(x)
  PROVE  CopyInv'
<1>1. UNCHANGED aggVars
  BY DEF W2
<1>2. CASE idx[x] \in Index /\ WritePipe(<<x, "W2">>, idx[x], "recv")
  BY <1>1, <1>2, OverflowCopy, FitCopy DEF WritePipe
<1>3. CASE idx[x] \notin Index /\ WriteAstray(<<x, "W2">>, "recv")
  BY <1>1, <1>3, OverflowCopy
<1>4. CASE \/ Recv(<<x, "W2">>, Backend[x], "send", "shut1")
           \/ Send(<<x, "W2">>, "send", x, "write")
           \/ Shut2(<<x, "W2">>, x, Backend[x])
  <2>1. UNCHANGED <<aggVars, pipeVars>>
    BY <1>1, <1>4 DEF W2, forward_data_to_dest_and_pipe, WritePipe, WriteAstray, Recv, Send,
                      Shut2, Shut
  <2> QED  BY <1>4, <2>1, W2RecvCopy, W2SendCopy DEF Shut2
<1> QED  BY <1>2, <1>3, <1>4 DEF W2, forward_data_to_dest_and_pipe

----------------------------------------------------------------------------
(* R2 and R3, and what the clone reads.                                    *)

\* A step that takes replies along from the pipe of y to its reader, or loses some.
LEMMA CloneStill ==
  ASSUME ReplayInv, NEW y \in Clone, NEW j \in Index, idx[y] = j, ~Idle(y),
         UNCHANGED <<idx, dropped>>,
         \A a \in Prod :
            /\ UNCHANGED <<pc[<<a, "W2">>], buf[<<a, "W2">>], got[a], outq[a],
                           inq[Backend[a]], sent[Backend[a]]>>
            /\ Standing(a)' => Standing(a),
         \A z \in Clone :
            /\ pc'[<<z, "R2">>] = "none" <=> pc[<<z, "R2">>] = "none"
            /\ pc'[<<z, "R3">>] = "none" <=> pc[<<z, "R3">>] = "none"
            /\ z # y => /\ UNCHANGED <<pc[<<z, "R2">>], buf[<<z, "R2">>], off[<<z, "R2">>],
                                       got[z], outq[z]>>
                        /\ Live(z)' => Live(z),
         \A i \in Index : i # j => pipes'[i] = pipes[i],
         Units(pipes'[j]) \subseteq Units(pipes[j]),
         Played(y)' \subseteq Played(y) \cup Units(pipes[j]),
         \A a \in Prod : Paired(j, a, y) => Replays(Base[Backend[a]], Line(y)', dropped),
         Live(y)' => Live(y) /\ Chain(j, y)' = Chain(j, y)
  PROVE  CopyInv'
<1>1. ASSUME NEW a \in Prod
      PROVE  /\ Mark(a)' = Mark(a) /\ Passed(a)' = Passed(a) /\ (Working(a)' <=> Working(a))
             /\ Mark(a) \in Nat /\ Passed(a) \in Nat
  BY MarkCounts, ProdCounts DEF Mark, Owed, Working, Passed
<1>2. ASSUME NEW z \in Clone
      PROVE  /\ Idle(z)' <=> Idle(z)
             /\ z # y => Line(z)' = Line(z) /\ Rest(z)' = Rest(z) /\ Played(z)' = Played(z)
  BY DEF Line, Rest, Played, Idle
<1>3. y \in Readers(j)
  BY DEF Readers, Idle
<1>4. ASSUME NEW i \in Index
      PROVE  /\ Writers(i)' = Writers(i) /\ Readers(i)' = Readers(i)
             /\ Copies(i)' \subseteq Copies(i)
  <2>1. Writers(i)' = Writers(i)
    BY DEF Writers
  <2>2. Readers(i)' = Readers(i)
    BY DEF Readers
  <2>3. Units(pipes'[i]) \subseteq Copies(i)
    <3>1. Units(pipes'[i]) \subseteq Units(pipes[i])
      OBVIOUS
    <3> QED  BY <3>1 DEF Copies
  <2>4. ASSUME NEW z \in Readers(i) PROVE Played(z)' \subseteq Copies(i)
    <3>1. z \in Clone /\ idx[z] = i
      BY DEF Readers
    <3>2. CASE z = y
      <4>1. i = j /\ Played(y) \subseteq Copies(i) /\ Units(pipes[i]) \subseteq Copies(i)
        BY <1>3, <3>1, <3>2 DEF Copies
      <4> QED  BY <3>2, <4>1
    <3>3. CASE z # y
      BY <1>2, <3>1, <3>3 DEF Copies
    <3> QED  BY <3>2, <3>3
  <2>5. Copies(i)' = Units(pipes'[i]) \cup UNION {Played(z)' : z \in Readers(i)'}
    BY DEF Copies, Units
  <2> QED  BY <2>1, <2>2, <2>3, <2>4, <2>5
<1>5. ASSUME NEW i \in Index, NEW a \in Prod, NEW z \in Clone, Paired(i, a, z)'
      PROVE  /\ Paired(i, a, z)
             /\ Replays(Base[Backend[a]], Line(z)', dropped)
             /\ Live(z)' => Live(z) /\ Chain(i, z)' = Chain(i, z)
  <2>1. Paired(i, a, z)
    BY <1>2, <1>4, <1>5 DEF Paired
  <2>2. CASE z = y
    <3>1. i = j
      BY <2>1, <2>2 DEF Paired
    <3> QED  BY <2>1, <2>2, <3>1
  <2>3. CASE z # y
    <3>1. i # j
      BY <1>3, <2>1, <2>3 DEF Paired
    <3>2. Line(z)' = Line(z) /\ Chain(i, z)' = Chain(i, z)
      BY <1>2, <2>3, <3>1 DEF Chain
    <3>3. Replays(Base[Backend[a]], Line(z), dropped)
      BY <2>1 DEF ReplayInv, CopyInv, Replayed, Replay
    <3> QED  BY <2>1, <2>3, <3>2, <3>3
  <2> QED  BY <2>2, <2>3
<1>6. \A a \in Prod : \A n \in 1 .. Mark(a)' : n =< Mark(a)
  BY <1>1
<1>7. \A a \in Prod : /\ Mark(a)' \in Nat /\ Mark(a) =< Mark(a)'
                      /\ Passed(a)' \in Nat /\ Passed(a) =< Passed(a)'
  <2>1. \A a \in Prod : Mark(a)' \in Nat /\ Mark(a) =< Mark(a)'
    BY <1>1
  <2>2. \A a \in Prod : Passed(a)' \in Nat /\ Passed(a) =< Passed(a)'
    BY <1>1
  <2> QED  BY <2>1, <2>2
<1>8. Sources' /\ Followed' /\ Replayed'
  <2>1. \A a \in Prod :
           /\ Mark(a)' \in Nat /\ Mark(a) =< Mark(a)'
           /\ Standing(a)' => \/ pc[Handler(a)] = "none"
                              \/ Standing(a) /\ Passed(a)' \in Nat /\ Passed(a) =< Passed(a)'
           /\ Working(a)' =>
                 /\ Working(a)
                 /\ \A n \in 1 .. Mark(a)' : n =< Mark(a) \/ ReplyUnit(a, n) \in dropped'
    BY <1>1, <1>6, <1>7, Zenon
  <2> QED  BY <1>4, <1>5, <2>1, Still
<1>9. Taken'
  <2>1. \A a \in Prod : sent[Backend[a]] \in Nat /\ Len(inq[Backend[a]]) \in Nat
    BY ProdCounts
  <2> QED  BY <2>1, TakenStill
<1> QED  BY <1>8, <1>9 DEF CopyInv

\* What a step of R2 or R3 leaves alone.
LEMMA ReaderMoves ==
  ASSUME ReplayInv, NEW y \in Clone, NEW r \in {"R2", "R3"},
         pc[<<y, r>>] \notin Over, pc'[<<y, r>>] # "none",
         \A p \in Proc : p # <<y, r>> => UNCHANGED <<pc[p], buf[p], off[p]>>,
         UNCHANGED <<inq, got, sent, shut, peer>>,
         \A s \in Sock : s # y => outq'[s] = outq[s]
  PROVE  /\ ~Idle(y)
         /\ \A a \in Prod :
               /\ UNCHANGED <<pc[<<a, "W2">>], buf[<<a, "W2">>], got[a], outq[a],
                              inq[Backend[a]], sent[Backend[a]]>>
               /\ Standing(a)' => Standing(a)
         /\ \A z \in Clone :
               /\ pc'[<<z, "R2">>] = "none" <=> pc[<<z, "R2">>] = "none"
               /\ pc'[<<z, "R3">>] = "none" <=> pc[<<z, "R3">>] = "none"
               /\ z # y => /\ UNCHANGED <<pc[<<z, "R2">>], buf[<<z, "R2">>], off[<<z, "R2">>],
                                          got[z], outq[z]>>
                           /\ Live(z)' => Live(z)
<1> DEFINE q == <<y, r>>
<1>1. /\ y \in Sock /\ y \in Conn /\ q \in Proc /\ pc[q] # "none"
      /\ y \notin Prod /\ \A a \in Prod : a \in Sock /\ <<a, "W2">> \in Proc
      /\ \A z \in Clone : z \in Sock /\ <<z, "R2">> \in Proc /\ <<z, "R3">> \in Proc
  BY Procs, Socks DEF Over
<1>2. ~Idle(y)
  BY <1>1 DEF Idle
<1>3. ASSUME NEW a \in Prod
      PROVE  /\ UNCHANGED <<pc[<<a, "W2">>], buf[<<a, "W2">>], got[a], outq[a],
                            inq[Backend[a]], sent[Backend[a]]>>
             /\ Standing(a)' => Standing(a)
  <2>1. a # y /\ <<a, "W2">> # q
    BY <1>1
  <2>2. UNCHANGED <<pc[<<a, "W2">>], buf[<<a, "W2">>], outq[a]>>
    BY <1>1, <2>1
  <2>3. ASSUME Standing(a)' PROVE Standing(a)
    <3>1. \A p \in Proc : p[1] # y => pc'[p] = pc[p]
      <4>1. ASSUME NEW p \in Proc, p[1] # y PROVE pc'[p] = pc[p]
        <5>1. p # q
          BY <4>1
        <5> QED  BY <5>1
      <4> QED  BY <4>1
    <3>2. Writable(a)' => Writable(a)
      BY DEF Writable
    <3> QED  BY <1>1, <2>1, <2>3, <3>1, <3>2, StandingStill
  <2> QED  BY <2>2, <2>3
<1>4. ASSUME NEW z \in Clone
      PROVE  /\ pc'[<<z, "R2">>] = "none" <=> pc[<<z, "R2">>] = "none"
             /\ pc'[<<z, "R3">>] = "none" <=> pc[<<z, "R3">>] = "none"
             /\ z # y => /\ UNCHANGED <<pc[<<z, "R2">>], buf[<<z, "R2">>], off[<<z, "R2">>],
                                        got[z], outq[z]>>
                         /\ Live(z)' => Live(z)
  <2>1. pc'[<<z, "R2">>] = "none" <=> pc[<<z, "R2">>] = "none"
    BY <1>1
  <2>2. pc'[<<z, "R3">>] = "none" <=> pc[<<z, "R3">>] = "none"
    BY <1>1
  <2>3. ASSUME z # y
        PROVE  /\ UNCHANGED <<pc[<<z, "R2">>], buf[<<z, "R2">>], off[<<z, "R2">>], got[z], outq[z]>>
               /\ Live(z)' => Live(z)
    <3>1. <<z, "R2">> # q
      BY <2>3
    <3>2. UNCHANGED <<pc[<<z, "R2">>], buf[<<z, "R2">>], off[<<z, "R2">>], got[z], outq[z]>>
      BY <1>1, <2>3, <3>1
    <3> QED  BY <3>2 DEF Live
  <2> QED  BY <2>1, <2>2, <2>3
<1> QED  BY <1>2, <1>3, <1>4

\* What read() takes from a pipe, and what it leaves.
LEMMA ReadPipeParts ==
  ASSUME ReplayInv, NEW y \in Clone, NEW r \in {"R2", "R3"}, ReadPipe(<<y, r>>, idx[y]),
         idx[y] \in Index
  PROVE  /\ pc[<<y, r>>] = "recv" /\ pc'[<<y, r>>] = "send"
         /\ UNCHANGED <<inq, outq, got, sent, shut, peer, off, dropped>>
         /\ \A p \in Proc : p # <<y, r>> => UNCHANGED <<pc[p], buf[p], off[p]>>
         /\ \A i \in Index : i # idx[y] => pipes'[i] = pipes[i]
         /\ buf'[<<y, r>>] \in Seq(Nat) /\ pipes'[idx[y]] \in Seq(Nat)
         /\ pipes[idx[y]] = buf'[<<y, r>>] \o pipes'[idx[y]]
<1> DEFINE q == <<y, r>>
           j == idx[y]
<1>1. /\ LoopInv(Proc, Step, {"send"}) /\ q \in Proc
      /\ pipes \in [Index -> Seq(Nat)]
  BY Procs DEF ReplayInv, StartInv, IsolInv, ProcInv, PipeInv
<1>2. /\ pc[q] = "recv" /\ pc'[q] = "send"
      /\ UNCHANGED <<inq, outq, got, sent, shut, peer, off, dropped>>
      /\ \A p \in Proc : p # q => UNCHANGED <<pc[p], buf[p], off[p]>>
  BY <1>1 DEF ReadPipe, Goto, LoopInv, sockVars
<1>3. j \in Index
  OBVIOUS
<1>4. PICK k \in 1 .. BufSize :
         /\ k =< Len(pipes[j])
         /\ buf' = [buf EXCEPT ![q] = SubSeq(pipes[j], 1, k)]
         /\ pipes' = [pipes EXCEPT ![j] = SubSeq(@, k + 1, Len(@))]
  BY DEF ReadPipe
<1> HIDE DEF q, j
<1>5. /\ buf'[q] = SubSeq(pipes[j], 1, k)
      /\ pipes'[j] = SubSeq(pipes[j], k + 1, Len(pipes[j]))
      /\ \A i \in Index : i # j => pipes'[i] = pipes[i]
  BY <1>1, <1>3, <1>4 DEF LoopInv
<1>6. k \in 0 .. Len(pipes[j]) /\ pipes[j] \in Seq(Nat)
  <2>1. pipes[j] \in Seq(Nat)
    BY <1>1, <1>3
  <2>2. Len(pipes[j]) \in Nat
    BY <2>1, LenProperties
  <2> QED  BY <1>4, <2>1, <2>2, BufSizeAssumption
<1>7. /\ SubSeq(pipes[j], 1, k) \in Seq(Nat) /\ SubSeq(pipes[j], k + 1, Len(pipes[j])) \in Seq(Nat)
      /\ SubSeq(pipes[j], 1, k) \o SubSeq(pipes[j], k + 1, Len(pipes[j])) = pipes[j]
  BY <1>6, Parts
<1>8. /\ buf'[q] \in Seq(Nat) /\ pipes'[j] \in Seq(Nat)
      /\ pipes[j] = buf'[q] \o pipes'[j]
  BY <1>5, <1>7, Zenon
<1> QED  BY <1>2, <1>3, <1>5, <1>8 DEF q, j

\* R2 takes what comes next from the pipe.
LEMMA R2ReadCopy ==
  ASSUME ReplayInv, NEW y \in Clone, ReadPipe(<<y, "R2">>, idx[y]), UNCHANGED aggVars,
         idx[y] \in Index
  PROVE  /\ CopyInv'
         /\ \A i \in Index : idx[y] = i => Chain(i, y)' = Chain(i, y)
         /\ Played(y)' \subseteq Played(y) \cup Units(buf'[<<y, "R2">>])
<1> DEFINE q == <<y, "R2">>
<1>0. PICK j \in Index : idx[y] = j
  OBVIOUS
<1>1. /\ pc[q] = "recv" /\ pc'[q] = "send" /\ j \in Index
      /\ UNCHANGED <<inq, outq, got, sent, shut, peer, off, dropped>>
      /\ \A p \in Proc : p # q => UNCHANGED <<pc[p], buf[p], off[p]>>
      /\ \A i \in Index : i # j => pipes'[i] = pipes[i]
      /\ buf'[q] \in Seq(Nat) /\ pipes'[j] \in Seq(Nat)
      /\ pipes[j] = buf'[q] \o pipes'[j]
  BY <1>0, ReadPipeParts
<1>2. off[q] = 0 /\ idx' = idx
  BY <1>1, Procs DEF ReplayInv, StartInv, IsolInv, ProcInv, LoopInv, aggVars
<1>3. Rest(y) = <<>> /\ Rest(y)' = buf'[q]
  <2>1. Rest(y) = <<>>
    BY <1>1 DEF Rest
  <2>2. Rest(y)' = SubSeq(buf'[q], 0 + 1, Len(buf'[q]))
    BY <1>1, <1>2 DEF Rest
  <2>3. SubSeq(buf'[q], 1, Len(buf'[q])) = buf'[q]
    BY <1>1, SubSeqFull
  <2> QED  BY <2>1, <2>2, <2>3
<1>4. Units(pipes[j]) = Units(buf'[q]) \cup Units(pipes'[j])
  BY <1>1, Splice
<1>5. /\ Units(pipes'[j]) \subseteq Units(pipes[j])
      /\ Played(y)' \subseteq Played(y) \cup Units(buf'[q])
      /\ Played(y)' \subseteq Played(y) \cup Units(pipes[j])
  <2>1. Units(pipes'[j]) \subseteq Units(pipes[j]) /\ Units(buf'[q]) \subseteq Units(pipes[j])
    BY <1>4
  <2>2. Played(y)' = Units(got[y]) \cup Units(outq[y]) \cup Units(buf'[q])
    BY <1>1, <1>3 DEF Played
  <2> QED  BY <2>1, <2>2 DEF Played
<1>6. Line(y)' = Line(y)
  BY <1>1 DEF Line
<1>7. Chain(j, y)' = Chain(j, y)
  <2>1. pipes[j] \in Seq(Nat)
    BY <1>1 DEF ReplayInv, StartInv, IsolInv, ProcInv, PipeInv
  <2>2. <<>> \o pipes[j] = pipes[j]
    BY <2>1, ConcatEmptySeq
  <2>3. Chain(j, y) = Line(y) \o pipes[j]
    BY <1>3, <2>2 DEF Chain
  <2>4. Chain(j, y)' = Line(y) \o (buf'[q] \o pipes'[j])
    BY <1>3, <1>6 DEF Chain
  <2> QED  BY <1>1, <2>3, <2>4
<1>8. Live(y)' => Live(y)
  BY <1>1 DEF Live
<1>9. \A a \in Prod : Paired(j, a, y) => Replays(Base[Backend[a]], Line(y)', dropped)
  BY <1>6 DEF ReplayInv, CopyInv, Replayed, Replay
<1>10. pc[q] \notin Over /\ pc'[q] # "none" /\ \A s \in Sock : s # y => outq'[s] = outq[s]
  BY <1>1 DEF Over
<1>11. /\ idx[y] = j /\ ~Idle(y)
       /\ \A a \in Prod :
             /\ UNCHANGED <<pc[<<a, "W2">>], buf[<<a, "W2">>], got[a], outq[a],
                            inq[Backend[a]], sent[Backend[a]]>>
             /\ Standing(a)' => Standing(a)
       /\ \A z \in Clone :
             /\ pc'[<<z, "R2">>] = "none" <=> pc[<<z, "R2">>] = "none"
             /\ pc'[<<z, "R3">>] = "none" <=> pc[<<z, "R3">>] = "none"
             /\ z # y => /\ UNCHANGED <<pc[<<z, "R2">>], buf[<<z, "R2">>], off[<<z, "R2">>],
                                        got[z], outq[z]>>
                         /\ Live(z)' => Live(z)
  BY <1>0, <1>1, <1>10, ReaderMoves
<1>12. /\ j \in Index /\ UNCHANGED <<idx, dropped>>
       /\ \A i \in Index : i # j => pipes'[i] = pipes[i]
       /\ Live(y)' => Live(y) /\ Chain(j, y)' = Chain(j, y)
  BY <1>1, <1>2, <1>7, <1>8
<1>13. CopyInv'
  <2> HIDE DEF q
  <2> QED  BY <1>5, <1>9, <1>11, <1>12, CloneStill
<1>14. \A i \in Index : idx[y] = i => Chain(i, y)' = Chain(i, y)
  BY <1>0, <1>7
<1> QED  BY <1>5, <1>13, <1>14

\* R3 takes what R2 would have taken: the connection is shut, and nothing more is
\* claimed of it than the order of what it has.
LEMMA R3ReadCopy ==
  ASSUME ReplayInv, NEW y \in Clone, ReadPipe(<<y, "R3">>, idx[y]), UNCHANGED aggVars,
         idx[y] \in Index
  PROVE  CopyInv'
<1> DEFINE q == <<y, "R3">>
<1>0. PICK j \in Index : idx[y] = j
  OBVIOUS
<1>1. /\ pc[q] = "recv" /\ pc'[q] = "send"
      /\ UNCHANGED <<inq, outq, got, sent, shut, peer, off, dropped>>
      /\ \A p \in Proc : p # q => UNCHANGED <<pc[p], buf[p], off[p]>>
      /\ \A i \in Index : i # j => pipes'[i] = pipes[i]
      /\ buf'[q] \in Seq(Nat) /\ pipes'[j] \in Seq(Nat)
      /\ pipes[j] = buf'[q] \o pipes'[j]
  BY <1>0, ReadPipeParts
<1>2. idx' = idx
  BY DEF aggVars
<1>3. UNCHANGED <<pc[<<y, "R2">>], buf[<<y, "R2">>], off[<<y, "R2">>]>>
  <2>1. <<y, "R2">> \in Proc /\ <<y, "R2">> # q
    BY Procs
  <2> QED  BY <1>1, <2>1
<1>4. Line(y)' = Line(y) /\ Played(y)' = Played(y)
  BY <1>1, <1>3 DEF Line, Rest, Played
<1>5. Units(pipes'[j]) \subseteq Units(pipes[j])
  BY <1>1, Splice
<1>6. ~Live(y)'
  <2>1. shut[y]
    BY <1>1 DEF ReplayInv, StartInv, Untouched
  <2> QED  BY <1>1, <2>1 DEF Live
<1>7. \A a \in Prod : Paired(j, a, y) => Replays(Base[Backend[a]], Line(y)', dropped)
  BY <1>4 DEF ReplayInv, CopyInv, Replayed, Replay
<1>8. pc[q] \notin Over /\ pc'[q] # "none" /\ \A s \in Sock : s # y => outq'[s] = outq[s]
  BY <1>1 DEF Over
<1>9. /\ idx[y] = j /\ ~Idle(y)
      /\ \A a \in Prod :
            /\ UNCHANGED <<pc[<<a, "W2">>], buf[<<a, "W2">>], got[a], outq[a],
                           inq[Backend[a]], sent[Backend[a]]>>
            /\ Standing(a)' => Standing(a)
      /\ \A z \in Clone :
            /\ pc'[<<z, "R2">>] = "none" <=> pc[<<z, "R2">>] = "none"
            /\ pc'[<<z, "R3">>] = "none" <=> pc[<<z, "R3">>] = "none"
            /\ z # y => /\ UNCHANGED <<pc[<<z, "R2">>], buf[<<z, "R2">>], off[<<z, "R2">>],
                                       got[z], outq[z]>>
                        /\ Live(z)' => Live(z)
  BY <1>0, <1>1, <1>8, ReaderMoves
<1>10. /\ UNCHANGED <<idx, dropped>>
       /\ \A i \in Index : i # j => pipes'[i] = pipes[i]
       /\ Played(y)' \subseteq Played(y) \cup Units(pipes[j])
       /\ Live(y)' => Live(y) /\ Chain(j, y)' = Chain(j, y)
  BY <1>1, <1>2, <1>4, <1>6
<1> HIDE DEF q
<1> QED  BY <1>5, <1>7, <1>9, <1>10, CloneStill

\* R2 hands a unit to the clone's connection: it goes from what R2 holds to what the
\* clone has still to read.
LEMMA R2Handed ==
  ASSUME ReplayInv, NEW y \in Clone, NEW j \in Index, idx[y] = j,
         Send(<<y, "R2">>, "send", y, "recv"), Writable(y), UNCHANGED pipeVars
  PROVE  /\ Played(y)' \subseteq Played(y)
         /\ Live(y) /\ Chain(j, y)' = Chain(j, y)
         /\ \A a \in Prod : Paired(j, a, y) => Replays(Base[Backend[a]], Line(y)', dropped)
<1> DEFINE q == <<y, "R2">>
           b == buf[q]
           k == off[q]
           u == b[k + 1]
           t == SubSeq(b, k + 2, Len(b))
<1>1. /\ LoopInv(Proc, Step, {"send"}) /\ q \in Proc /\ y \in Sock
      /\ pc[q] = "send" /\ b \in Seq(Nat) /\ k \in Nat /\ k < Len(b)
      /\ got[y] \in Seq(Nat) /\ outq[y] \in Seq(Nat) /\ pipes[j] \in Seq(Nat)
  BY CloneParts DEF Send, ReplayInv, StartInv, IsolInv, ProcInv
<1>2. /\ Transmit(y, u)
      /\ \/ /\ k + 1 = Len(b) /\ off' = [off EXCEPT ![q] = 0]
            /\ Goto(q, "recv")
         \/ /\ k + 1 # Len(b) /\ off' = [off EXCEPT ![q] = @ + 1] /\ UNCHANGED <<pc, buf>>
  BY DEF Send, CutShort, Writable, Broken, NextUnit, LastUnit
<1>3. got'[y] = got[y] /\ outq'[y] = Append(outq[y], u) /\ pipes' = pipes
  BY <1>1, <1>2 DEF Transmit, LoopInv, SockTypeOK, pipeVars
<1>4. /\ \/ k + 1 = Len(b) /\ pc'[q] = "recv"
         \/ pc'[q] = "send" /\ off'[q] = k + 1 /\ buf'[q] = b
  BY <1>1, <1>2 DEF Goto, LoopInv
<1>5. /\ u \in Nat /\ t \in Seq(Nat) /\ SubSeq(b, k + 1, Len(b)) = <<u>> \o t
      /\ k + 1 = Len(b) => t = <<>>
  <2> HIDE DEF b, k
  <2> QED  BY <1>1, Unsent
<1>6. Rest(y) = <<u>> \o t
  BY <1>1, <1>5 DEF Rest
<1>7. Rest(y)' = t
  <2>1. CASE k + 1 = Len(b) /\ pc'[q] = "recv"
    <3>1. Rest(y)' = <<>>
      BY <2>1 DEF Rest
    <3> QED  BY <1>5, <2>1, <3>1
  <2>2. CASE pc'[q] = "send" /\ off'[q] = k + 1 /\ buf'[q] = b
    <3>1. Rest(y)' = SubSeq(b, (k + 1) + 1, Len(b))
      BY <2>2 DEF Rest
    <3>2. (k + 1) + 1 = k + 2
      BY <1>1
    <3> QED  BY <3>1, <3>2
  <2> QED  BY <1>4, <2>1, <2>2
<1> HIDE DEF b, k, u, t
<1> DEFINE g == got[y]
           o == outq[y]
           p == pipes[j]
<1>8. /\ Line(y) = g \o o /\ Line(y)' = g \o Append(o, u)
      /\ Chain(j, y) = Line(y) \o (Rest(y) \o p)
      /\ Chain(j, y)' = Line(y)' \o (t \o p)
      /\ Played(y) = Units(g) \cup Units(o) \cup Units(Rest(y))
      /\ Played(y)' = Units(g) \cup Units(Append(o, u)) \cup Units(t)
  BY <1>3, <1>7 DEF Line, Chain, Played
<1>9. g \in Seq(Nat) /\ o \in Seq(Nat) /\ p \in Seq(Nat) /\ u \in Nat /\ t \in Seq(Nat)
  BY <1>1, <1>5
<1> HIDE DEF g, o, p
<1>10. /\ (g \o Append(o, u)) \o (t \o p) = (g \o o) \o ((<<u>> \o t) \o p)
       /\ g \o Append(o, u) \in Seq(Nat) /\ t \o p \in Seq(Nat)
       /\ Units(Append(o, u)) \cup Units(t) = Units(o) \cup Units(<<u>> \o t)
  <2>1. HandedOver(g, o, t, p, u)
    BY <1>9, HandOver, Zenon
  <2> QED  BY <2>1 DEF HandedOver
<1> DEFINE e == <<u>> \o t
           l == g \o Append(o, u)
           r == t \o p
<1>11. Chain(j, y)' = Chain(j, y) /\ Chain(j, y) = l \o r
  BY <1>6, <1>8, <1>10, Zenon
<1>12. Played(y)' \subseteq Played(y)
  <2> HIDE DEF e
  <2>1. Rest(y) = e /\ Units(Append(o, u)) \cup Units(t) = Units(o) \cup Units(e)
    BY <1>6, <1>10 DEF e
  <2> QED  BY <1>8, <2>1, Zenon
<1>13. Live(y)
  BY <1>1 DEF Live, Writable
<1>14. ASSUME NEW a \in Prod, Paired(j, a, y)
       PROVE  Replays(Base[Backend[a]], Line(y)', dropped)
  <2>1. Replays(Base[Backend[a]], Chain(j, y), dropped)
    BY <1>13, <1>14 DEF ReplayInv, CopyInv, Replayed, Replay
  <2>2. l \in Seq(Nat) /\ r \in Seq(Nat) /\ Line(y)' = l
    BY <1>8, <1>10
  <2> HIDE DEF l, r
  <2>3. Replays(Base[Backend[a]], l \o r, dropped)
    BY <1>11, <2>1, Zenon
  <2>4. Replays(Base[Backend[a]], l, dropped)
    BY <2>2, <2>3, ReplaysPrefix
  <2> QED  BY <2>2, <2>4, Zenon
<1> QED  BY <1>11, <1>12, <1>13, <1>14

\* R2 finds the connection gone: what it holds is lost, and nothing is claimed any more
\* but of what the clone has been given.
LEMMA R2Lost ==
  ASSUME ReplayInv, NEW y \in Clone, Send(<<y, "R2">>, "send", y, "recv"), ~Writable(y)
  PROVE  /\ UNCHANGED sockVars /\ ~Live(y)' /\ Line(y)' = Line(y) /\ Rest(y)' = <<>>
         /\ Played(y)' \subseteq Played(y)
<1> DEFINE q == <<y, "R2">>
<1>1. pc \in [Proc -> Step] /\ q \in Proc
  BY CloneParts DEF ReplayInv, StartInv, IsolInv, ProcInv, LoopInv
<1>2. /\ UNCHANGED sockVars
      /\ shut[y] \/ peer[y] = "closed"
      /\ Goto(q, "recv") \/ Goto(q, "killed")
  BY DEF Send, CutShort, Transmit, Broken
<1>3. pc'[q] \in {"recv", "killed"} /\ got' = got /\ outq' = outq /\ shut' = shut /\ peer' = peer
  BY <1>1, <1>2 DEF Goto, sockVars
<1>4. Rest(y)' = <<>> /\ Units(<<>>) = {}
  BY <1>3 DEF Rest, Units
<1>5. Played(y)' \subseteq Played(y)
  <2>1. Played(y)' = Units(got[y]) \cup Units(outq[y]) \cup Units(<<>>)
    BY <1>3, <1>4 DEF Played
  <2> QED  BY <1>4, <2>1 DEF Played
<1> QED  BY <1>2, <1>3, <1>4, <1>5 DEF Live, Line

\* R2 sends.
LEMMA R2SendCopy ==
  ASSUME ReplayInv, NEW y \in Clone, Send(<<y, "R2">>, "send", y, "recv"),
         UNCHANGED <<aggVars, pipeVars>>
  PROVE  CopyInv'
<1> DEFINE q == <<y, "R2">>
<1>1. /\ LoopInv(Proc, Step, {"send"}) /\ q \in Proc /\ y \in Sock /\ pc[q] = "send"
  BY CloneParts DEF Send, ReplayInv, StartInv, IsolInv, ProcInv
<1>2. PICK j \in Index : idx[y] = j
  BY <1>1 DEF ReplayInv, StartInv, Untouched
<1>3. /\ pc[q] \notin Over /\ UNCHANGED <<inq, got, sent, shut, peer, idx, dropped>>
      /\ pipes' = pipes
      /\ \A s \in Sock : s # y => outq'[s] = outq[s]
  BY <1>1 DEF Send, Transmit, Over, sockVars, aggVars, pipeVars, LoopInv, SockTypeOK
<1>4. \A p \in Proc : p # q => UNCHANGED <<pc[p], buf[p], off[p]>>
  <2>1. \A p \in Proc : p # q => pc'[p] = pc[p]
    BY <1>1 DEF Send, Goto, LoopInv
  <2>2. \A p \in Proc : p # q => buf'[p] = buf[p]
    BY <1>1 DEF Send, Drop, LoopInv
  <2>3. \A p \in Proc : p # q => off'[p] = off[p]
    BY <1>1 DEF Send, LoopInv
  <2> QED  BY <2>1, <2>2, <2>3
<1>5. pc'[q] # "none"
  BY <1>1 DEF Send, Goto, LoopInv
<1>6. /\ Played(y)' \subseteq Played(y)
      /\ Live(y)' => Live(y) /\ Chain(j, y)' = Chain(j, y)
      /\ \A a \in Prod : Paired(j, a, y) => Replays(Base[Backend[a]], Line(y)', dropped)
  <2>1. CASE Writable(y)
    <3>1. UNCHANGED pipeVars
      OBVIOUS
    <3> QED  BY <1>2, <2>1, <3>1, R2Handed
  <2>2. CASE ~Writable(y)
    <3>1. ~Live(y)' /\ Line(y)' = Line(y) /\ Played(y)' \subseteq Played(y)
      BY <2>2, R2Lost
    <3>2. \A a \in Prod : Paired(j, a, y) => Replays(Base[Backend[a]], Line(y), dropped)
      BY DEF ReplayInv, CopyInv, Replayed, Replay
    <3> QED  BY <3>1, <3>2
  <2> QED  BY <2>1, <2>2
<1>7. /\ idx[y] = j /\ ~Idle(y)
      /\ \A a \in Prod :
            /\ UNCHANGED <<pc[<<a, "W2">>], buf[<<a, "W2">>], got[a], outq[a],
                           inq[Backend[a]], sent[Backend[a]]>>
            /\ Standing(a)' => Standing(a)
      /\ \A z \in Clone :
            /\ pc'[<<z, "R2">>] = "none" <=> pc[<<z, "R2">>] = "none"
            /\ pc'[<<z, "R3">>] = "none" <=> pc[<<z, "R3">>] = "none"
            /\ z # y => /\ UNCHANGED <<pc[<<z, "R2">>], buf[<<z, "R2">>], off[<<z, "R2">>],
                                       got[z], outq[z]>>
                        /\ Live(z)' => Live(z)
  <2>1. UNCHANGED <<inq, got, sent, shut, peer>>
    BY <1>3
  <2>2. \A s \in Sock : s # y => outq'[s] = outq[s]
    BY <1>3
  <2> QED  BY <1>2, <1>3, <1>4, <1>5, <2>1, <2>2, ReaderMoves
<1>8. /\ UNCHANGED <<idx, dropped>>
      /\ \A i \in Index : i # j => pipes'[i] = pipes[i]
      /\ Played(y)' \subseteq Played(y) \cup Units(pipes[j])
      /\ Units(pipes'[j]) \subseteq Units(pipes[j])
  BY <1>3, <1>6
<1> HIDE DEF q
<1> QED  BY <1>6, <1>7, <1>8, CloneStill

\* The three workers of a connection of the clone.
LEMMA CloneCopy ==
  ASSUME ReplayInv, NEW y \in Clone, R1(y) \/ R2(y) \/ R3(y)
  PROVE  CopyInv'
<1>1. CASE R1(y)
  BY <1>1, R1Copy
<1>2. CASE R2(y)
  <2>1. UNCHANGED aggVars
    BY <1>2 DEF R2
  <2>2. CASE idx[y] \in Index /\ ReadPipe(<<y, "R2">>, idx[y])
    BY <2>1, <2>2, R2ReadCopy
  <2>3. CASE Send(<<y, "R2">>, "send", y, "recv") /\ UNCHANGED pipeVars
    BY <2>1, <2>3, R2SendCopy
  <2>4. CASE \/ ReadAstray(<<y, "R2">>, "shut1")
             \/ Shut(<<y, "R2">>, "shut1", y, "done") /\ UNCHANGED pipeVars
    BY <2>1, <2>4, AstrayReadCopy
  <2> QED  BY <1>2, <2>2, <2>3, <2>4 DEF R2, read_pipe_dest
<1>3. CASE R3(y)
  <2>1. UNCHANGED aggVars
    BY <1>3 DEF R3
  <2>2. CASE idx[y] \in Index /\ ReadPipe(<<y, "R3">>, idx[y])
    BY <2>1, <2>2, R3ReadCopy
  <2>3. CASE ReadAstray(<<y, "R3">>, "done")
    BY <2>1, <2>3, AstrayReadCopy
  <2>4. CASE /\ pc[<<y, "R3">>] = "send" /\ Goto(<<y, "R3">>, "recv") /\ Drop(<<y, "R3">>, "recv")
             /\ UNCHANGED <<sockVars, off, pipeVars>>
    BY <2>1, <2>4, LostCopy
  <2> QED  BY <1>3, <2>2, <2>3, <2>4 DEF R3, read_pipe_nowhere
<1> QED  BY <1>1, <1>2, <1>3

----------------------------------------------------------------------------
(* The peers.                                                              *)

\* The clone reads, or a reset takes what it has not read: the pipes are as before.
LEMMA CloneHas ==
  ASSUME ReplayInv, NEW y \in Clone, UNCHANGED procVars, outq[y] # <<>>,
         UNCHANGED <<inq, sent, shut, peer>>,
         \A s \in Sock : s # y => got'[s] = got[s] /\ outq'[s] = outq[s],
         Units(got'[y]) \cup Units(outq'[y]) \subseteq Units(got[y]) \cup Units(outq[y]),
         \/ Line(y)' = Line(y)
         \/ /\ ~Live(y)
            /\ \A z \in Nat : Replays(z, Line(y), dropped) => Replays(z, Line(y)', dropped)
  PROVE  CopyInv'
<1>1. /\ UNCHANGED <<pc, buf, off, idx, pipes, dropped>>
      /\ y \in Sock /\ y \notin Prod /\ \A a \in Prod : a \in Sock
      /\ \A z \in Clone : z \in Sock
  BY Socks DEF procVars, aggVars, pipeVars
<1>2. ~Idle(y)
  BY DEF ReplayInv, StartInv, Untouched, Idle
<1>3. PICK j \in Index : idx[y] = j
  BY DEF ReplayInv, StartInv, Untouched
<1>4. Rest(y)' = Rest(y)
  BY <1>1 DEF Rest
<1>5. Played(y)' \subseteq Played(y)
  <2>1. Played(y)' = Units(got'[y]) \cup Units(outq'[y]) \cup Units(Rest(y))
    BY <1>4 DEF Played
  <2> QED  BY <2>1 DEF Played
<1>6. /\ Live(y)' => Live(y) /\ Chain(j, y)' = Chain(j, y)
      /\ \A a \in Prod : Paired(j, a, y) => Replays(Base[Backend[a]], Line(y)', dropped)
  <2>1. Live(y)' => Live(y)
    BY <1>1 DEF Live
  <2>2. ASSUME NEW a \in Prod, Paired(j, a, y)
        PROVE  Base[Backend[a]] \in Nat /\ Replays(Base[Backend[a]], Line(y), dropped)
    BY <2>2, ProdCounts DEF ReplayInv, CopyInv, Replayed, Replay
  <2>3. CASE Line(y)' = Line(y)
    <3>1. Chain(j, y)' = Chain(j, y)
      BY <1>1, <1>4, <2>3 DEF Chain
    <3> QED  BY <2>1, <2>2, <2>3, <3>1
  <2>4. CASE /\ ~Live(y)
             /\ \A z \in Nat : Replays(z, Line(y), dropped) => Replays(z, Line(y)', dropped)
    BY <2>1, <2>2, <2>4
  <2> QED  BY <2>3, <2>4
<1>7. \A a \in Prod :
         /\ UNCHANGED <<pc[<<a, "W2">>], buf[<<a, "W2">>], got[a], outq[a],
                        inq[Backend[a]], sent[Backend[a]]>>
         /\ Standing(a)' => Standing(a)
  <2>1. ASSUME NEW a \in Prod
        PROVE  UNCHANGED <<pc[<<a, "W2">>], buf[<<a, "W2">>], got[a], outq[a],
                           inq[Backend[a]], sent[Backend[a]]>>
    BY <1>1
  <2>2. ASSUME NEW a \in Prod PROVE Standing(a)' => Standing(a)
    BY <1>1 DEF Standing, Gone, Writable
  <2> QED  BY <2>1, <2>2
<1>8. \A z \in Clone :
         /\ pc'[<<z, "R2">>] = "none" <=> pc[<<z, "R2">>] = "none"
         /\ pc'[<<z, "R3">>] = "none" <=> pc[<<z, "R3">>] = "none"
         /\ z # y => /\ UNCHANGED <<pc[<<z, "R2">>], buf[<<z, "R2">>], off[<<z, "R2">>],
                                    got[z], outq[z]>>
                     /\ Live(z)' => Live(z)
  BY <1>1 DEF Live
<1>9. /\ UNCHANGED <<idx, dropped>>
      /\ \A i \in Index : i # j => pipes'[i] = pipes[i]
      /\ Units(pipes'[j]) \subseteq Units(pipes[j])
      /\ Played(y)' \subseteq Played(y) \cup Units(pipes[j])
  BY <1>1, <1>5
<1> QED  BY <1>2, <1>3, <1>6, <1>7, <1>8, <1>9, CloneStill

\* The clone reads.
LEMMA CloneReads ==
  ASSUME ReplayInv, NEW y \in Clone, PeerRead(y), UNCHANGED procVars
  PROVE  /\ CopyInv' /\ Line(y)' = Line(y)
         /\ Units(got'[y]) \cup Units(outq'[y]) \subseteq Units(got[y]) \cup Units(outq[y])
<1>1. /\ got[y] \in Seq(Nat) /\ outq[y] \in Seq(Nat) /\ y \in Sock
      /\ got \in [Sock -> Seq(Nat)] /\ outq \in [Sock -> Seq(Nat)]
  BY CloneParts DEF ReplayInv, StartInv, IsolInv, ProcInv, LoopInv, SockTypeOK
<1>2. /\ outq[y] # <<>> /\ UNCHANGED <<inq, sent, shut, peer>>
      /\ got'[y] = Append(got[y], Head(outq[y])) /\ outq'[y] = Tail(outq[y])
      /\ \A s \in Sock : s # y => got'[s] = got[s] /\ outq'[s] = outq[s]
  BY <1>1 DEF PeerRead
<1>3. /\ Append(got[y], Head(outq[y])) \o Tail(outq[y]) = got[y] \o outq[y]
      /\ Units(Append(got[y], Head(outq[y]))) \cup Units(Tail(outq[y]))
            = Units(got[y]) \cup Units(outq[y])
  BY <1>1, <1>2, ReadLine
<1>4. /\ Line(y)' = Line(y)
      /\ Units(got'[y]) \cup Units(outq'[y]) \subseteq Units(got[y]) \cup Units(outq[y])
  BY <1>2, <1>3 DEF Line
<1>5. CopyInv'
  BY <1>2, <1>4, CloneHas
<1> QED  BY <1>4, <1>5

\* A reset of the clone's connection drops the end of what it has still to read; R2 has
\* given it up before.
LEMMA CloneResets ==
  ASSUME ReplayInv, NEW y \in Clone, Reset(y, Gone(y)), UNCHANGED procVars
  PROVE  /\ CopyInv'
         /\ \E r \in Seq(Nat) : Line(y)' \in Seq(Nat) /\ Line(y) = Line(y)' \o r
         /\ Units(got'[y]) \cup Units(outq'[y]) \subseteq Units(got[y]) \cup Units(outq[y])
<1>1. /\ got[y] \in Seq(Nat) /\ outq[y] \in Seq(Nat) /\ y \in Sock /\ y \in Conn
      /\ outq \in [Sock -> Seq(Nat)] /\ <<y, "R2">> \in Proc
  BY CloneParts, Socks DEF ReplayInv, StartInv, IsolInv, ProcInv, LoopInv, SockTypeOK
<1>2. Len(outq[y]) \in Nat
  BY <1>1, LenProperties
<1>3. PICK k \in 0 .. Len(outq[y]) - 1 : outq' = [outq EXCEPT ![y] = SubSeq(@, 1, k)]
  BY DEF Reset
<1> DEFINE o == outq[y]
           p == SubSeq(o, 1, k)
           r == SubSeq(o, k + 1, Len(o))
<1>4. /\ UNCHANGED <<inq, got, sent, shut, peer>> /\ outq'[y] = p
      /\ \A s \in Sock : s # y => outq'[s] = outq[s]
  BY <1>1, <1>3 DEF Reset
<1>5. /\ k \in 0 .. Len(o) /\ o # <<>>
  <2>1. Len(<<>>) = 0
    OBVIOUS
  <2>2. Len(o) # 0
    BY <1>2, <1>3
  <2>3. k \in 0 .. Len(o)
    BY <1>2, <1>3
  <2> QED  BY <2>1, <2>2, <2>3
<1>6. p \in Seq(Nat) /\ r \in Seq(Nat) /\ p \o r = o
  <2> HIDE DEF o
  <2>1. o \in Seq(Nat)
    BY <1>1 DEF o
  <2> QED  BY <1>5, <2>1, Parts
<1> HIDE DEF o, p, r
<1>7. Units(o) = Units(p) \cup Units(r)
  BY <1>6, Splice
<1>8. Units(got'[y]) \cup Units(outq'[y]) \subseteq Units(got[y]) \cup Units(outq[y])
  BY <1>4, <1>7 DEF o
<1>9. Line(y) = got[y] \o (p \o r) /\ Line(y)' = got[y] \o p
  BY <1>4, <1>6 DEF Line, o
<1>10. got[y] \o p \in Seq(Nat) /\ Line(y) = (got[y] \o p) \o r
  <2>1. Grouped(got[y], p, r)
    BY <1>1, <1>6, Regroup
  <2>2. got[y] \o p \in Seq(Nat)
    BY <1>1, <1>6, Splice
  <2> QED  BY <1>9, <2>1, <2>2 DEF Grouped
<1>11. ASSUME NEW z \in Nat, Replays(z, Line(y), dropped) PROVE Replays(z, Line(y)', dropped)
  <2> DEFINE l == got[y] \o p
  <2>1. l \in Seq(Nat) /\ Line(y) = l \o r /\ Line(y)' = l
    BY <1>9, <1>10
  <2> HIDE DEF l
  <2> QED  BY <1>6, <1>11, <2>1, ReplaysPrefix
<1>12. ~Live(y)
  <2>1. shut[y] \/ Gone(y)
    BY DEF Reset
  <2>2. pc[<<y, "R2">>] # "none"
    BY <1>5 DEF o, ReplayInv, StartInv, Untouched
  <2>3. ASSUME Gone(y) PROVE pc[<<y, "R2">>] \in Over
    BY <1>1, <2>3 DEF Gone, Owner
  <2> QED  BY <2>1, <2>2, <2>3 DEF Live, Over
<1>13. \A s \in Sock : s # y => got'[s] = got[s] /\ outq'[s] = outq[s]
  BY <1>4
<1>14. outq[y] # <<>>
  BY <1>5 DEF o
<1>15. CopyInv'
  BY <1>4, <1>8, <1>11, <1>12, <1>13, <1>14, CloneHas
<1>16. Line(y)' \in Seq(Nat) /\ Line(y) = Line(y)' \o r
  BY <1>9, <1>10
<1> QED  BY <1>6, <1>8, <1>15, <1>16

\* Production reads, or a reset takes what it has not read.
LEMMA ProdHas ==
  ASSUME ReplayInv, NEW x \in Prod, UNCHANGED procVars, UNCHANGED <<inq, sent, shut, peer>>,
         \A s \in Sock : s # x => got'[s] = got[s] /\ outq'[s] = outq[s],
         Standing(x)' => Passed(x)' \in Nat /\ Passed(x) =< Passed(x)'
  PROVE  CopyInv'
<1>1. /\ UNCHANGED <<pc, buf, off, idx, pipes, dropped>>
      /\ \A y \in Clone : y \in Sock /\ y # x
      /\ \A a \in Prod : a \in Sock
  BY Socks DEF procVars, aggVars, pipeVars
<1>2. ASSUME NEW a \in Prod
      PROVE  /\ Mark(a)' = Mark(a) /\ (Working(a)' <=> Working(a))
             /\ Mark(a) \in Nat /\ Passed(a) \in Nat
             /\ sent[Backend[a]] \in Nat /\ Len(inq[Backend[a]]) \in Nat
  BY <1>1, MarkCounts, ProdCounts DEF Mark, Owed, Working
<1>3. ASSUME NEW a \in Prod
      PROVE  Standing(a)' => Standing(a) /\ Passed(a)' \in Nat /\ Passed(a) =< Passed(a)'
  <2>1. Standing(a)' => Standing(a)
    BY <1>1 DEF Standing, Gone, Writable
  <2>2. CASE a = x
    BY <2>1, <2>2
  <2>3. CASE a # x
    <3>1. Passed(a)' = Passed(a)
      BY <1>1, <2>3 DEF Passed
    <3> QED  BY <1>2, <2>1, <3>1
  <2> QED  BY <2>2, <2>3
<1>4. ASSUME NEW y \in Clone
      PROVE  /\ Line(y)' = Line(y) /\ Played(y)' = Played(y) /\ (Idle(y)' <=> Idle(y))
             /\ Live(y)' => Live(y)
             /\ \A i \in Index : Chain(i, y)' = Chain(i, y)
  <2>1. got'[y] = got[y] /\ outq'[y] = outq[y]
    BY <1>1
  <2>2. Rest(y)' = Rest(y)
    BY <1>1 DEF Rest
  <2> QED  BY <1>1, <2>1, <2>2 DEF Line, Played, Chain, Idle, Live
<1>5. ASSUME NEW i \in Index
      PROVE  /\ Writers(i)' = Writers(i) /\ Readers(i)' = Readers(i)
             /\ Copies(i)' = Copies(i)
  <2>1. Writers(i)' = Writers(i) /\ Readers(i)' = Readers(i)
    BY <1>1 DEF Writers, Readers
  <2>2. \A y \in Readers(i) : Played(y)' = Played(y)
    BY <1>4 DEF Readers
  <2> QED  BY <1>1, <2>1, <2>2 DEF Copies
<1>6. ASSUME NEW i \in Index, NEW a \in Prod, NEW y \in Clone, Paired(i, a, y)'
      PROVE  /\ Paired(i, a, y)
             /\ Replays(Base[Backend[a]], Line(y)', dropped)
             /\ Live(y)' => Live(y) /\ Chain(i, y)' = Chain(i, y)
  <2>1. Paired(i, a, y)
    BY <1>1, <1>4, <1>5, <1>6 DEF Paired
  <2>2. Replays(Base[Backend[a]], Line(y), dropped)
    BY <2>1 DEF ReplayInv, CopyInv, Replayed, Replay
  <2> QED  BY <1>4, <2>1, <2>2
<1>7. \A a \in Prod :
         /\ Mark(a)' \in Nat /\ Mark(a) =< Mark(a)'
         /\ Standing(a)' => \/ pc[Handler(a)] = "none"
                            \/ Standing(a) /\ Passed(a)' \in Nat /\ Passed(a) =< Passed(a)'
         /\ Working(a)' =>
               /\ Working(a)
               /\ \A n \in 1 .. Mark(a)' : n =< Mark(a) \/ ReplyUnit(a, n) \in dropped'
  <2>1. ASSUME NEW a \in Prod
        PROVE  /\ Mark(a)' \in Nat /\ Mark(a) =< Mark(a)'
               /\ \A n \in 1 .. Mark(a)' : n =< Mark(a)
    BY <1>2
  <2> QED  BY <1>2, <1>3, <2>1, Zenon
<1>8. Sources' /\ Followed' /\ Replayed'
  BY <1>1, <1>5, <1>6, <1>7, Still
<1>9. Taken'
  BY <1>1, <1>2, TakenStill
<1> QED  BY <1>8, <1>9 DEF CopyInv

\* Production reads.
LEMMA ProdReads ==
  ASSUME ReplayInv, NEW x \in Prod, PeerRead(x), UNCHANGED procVars
  PROVE  CopyInv'
<1>1. SockTypeOK /\ x \in Sock /\ Backend[x] \in Sock /\ Ahead(Backend[x], x)
  BY Socks DEF ReplayInv, StartInv, IsolInv, ProcInv, LoopInv, Streams, Stream
<1>2. /\ UNCHANGED <<inq, sent, shut, peer>>
      /\ \A s \in Sock : s # x => got'[s] = got[s] /\ outq'[s] = outq[s]
  BY <1>1 DEF PeerRead, SockTypeOK
<1>3. Passed(x)' = Passed(x) /\ Passed(x) \in Nat
  BY <1>1, AheadRead, ProdCounts
<1>4. Standing(x)' => Passed(x)' \in Nat /\ Passed(x) =< Passed(x)'
  BY <1>3
<1> QED  BY <1>2, <1>4, ProdHas

\* A reset of production's connection: it no longer stands.
LEMMA ProdResets ==
  ASSUME ReplayInv, NEW x \in Prod, Reset(x, Gone(x)), UNCHANGED procVars
  PROVE  CopyInv'
<1>1. outq \in [Sock -> Seq(Nat)]
  BY DEF ReplayInv, StartInv, IsolInv, ProcInv, LoopInv, SockTypeOK
<1>2. /\ UNCHANGED <<inq, sent, shut, peer>>
      /\ \A s \in Sock : s # x => got'[s] = got[s] /\ outq'[s] = outq[s]
  BY <1>1 DEF Reset
<1>3. ~Standing(x)'
  <2>1. shut[x] \/ Gone(x)
    BY DEF Reset
  <2>2. shut' = shut /\ pc' = pc
    BY DEF Reset, procVars
  <2> QED  BY <2>1, <2>2 DEF Standing, Gone, Writable
<1> QED  BY <1>2, <1>3, ProdHas

\* The backend writes: the reply waits at its socket, and nobody has handed it on.
LEMMA BackendWrites ==
  ASSUME ReplayInv, NEW x \in Prod, NEW gone, PeerWrite(Backend[x], gone), UNCHANGED procVars
  PROVE  CopyInv' /\ \A a \in Prod : Mark(a)' \in Nat /\ Mark(a) =< Mark(a)'
<1> DEFINE s == Backend[x]
           n == sent[s]
           l == Len(inq[s])
<1>1. /\ SockTypeOK /\ s \in Sock /\ n \in Nat /\ l \in Nat /\ inq[s] \in Seq(Nat)
      /\ Base[s] \in Nat
      /\ \A a \in Prod : a \in Sock /\ Backend[a] \in Sock /\ (a # x => Backend[a] # s)
      /\ \A y \in Clone : y \in Sock
  BY ProdCounts, Socks DEF ReplayInv, StartInv, IsolInv, ProcInv, LoopInv
<1>2. UNCHANGED <<pc, buf, off, idx, pipes, dropped, got, outq, shut, peer>>
  BY DEF procVars, aggVars, pipeVars, PeerWrite
<1>3. sent'[s] = n + 1 /\ inq'[s] = Append(inq[s], Base[s] + n + 1)
  BY <1>1 DEF PeerWrite, SockTypeOK
<1>4. \A a \in Prod : a # x => sent'[Backend[a]] = sent[Backend[a]]
                               /\ inq'[Backend[a]] = inq[Backend[a]]
  BY <1>1 DEF PeerWrite, SockTypeOK
<1>5. sent'[s] = n + 1 /\ Len(inq'[s]) = l + 1
  <2>1. Base[s] + n + 1 \in Nat
    BY <1>1
  <2>2. Len(Append(inq[s], Base[s] + n + 1)) = l + 1
    BY <1>1, <2>1, AppendProperties
  <2> QED  BY <1>3, <2>2
<1>6. ASSUME NEW a \in Prod
      PROVE  /\ sent'[Backend[a]] \in Nat /\ Len(inq'[Backend[a]]) \in Nat
             /\ sent'[Backend[a]] - Len(inq'[Backend[a]])
                   = sent[Backend[a]] - Len(inq[Backend[a]])
             /\ sent[Backend[a]] =< sent'[Backend[a]]
  <2>1. CASE a = x
    <3> HIDE DEF n, l
    <3>1. n + 1 \in Nat /\ l + 1 \in Nat /\ (n + 1) - (l + 1) = n - l /\ n =< n + 1
      BY <1>1
    <3> QED  BY <1>5, <2>1, <3>1 DEF n, l
  <2>2. CASE a # x
    <3>1. sent[Backend[a]] \in Nat /\ Len(inq[Backend[a]]) \in Nat
      BY ProdCounts
    <3> QED  BY <1>4, <2>2, <3>1
  <2> QED  BY <2>1, <2>2
<1>7. Taken'
  BY <1>2, <1>6, TakenStill
<1>8. ASSUME NEW a \in Prod
      PROVE  /\ Mark(a)' \in Nat /\ Mark(a) =< Mark(a)'
             /\ Working(a)' => Working(a) /\ Mark(a)' = Mark(a)
  <2>1. (Working(a)' <=> Working(a)) /\ Owed(a)' = Owed(a)
    BY <1>2 DEF Working, Owed
  <2>2. CASE Working(a)
    <3> DEFINE d == sent[Backend[a]] - Len(inq[Backend[a]])
               e == sent'[Backend[a]] - Len(inq'[Backend[a]])
    <3>1. Mark(a) = d - Owed(a) /\ Mark(a)' = e - Owed(a)
      BY <2>1, <2>2 DEF Mark
    <3>2. e = d
      BY <1>6
    <3> HIDE DEF d, e
    <3>3. Mark(a)' = Mark(a) /\ Mark(a) \in Nat
      BY <3>1, <3>2, MarkCounts
    <3> QED  BY <2>2, <3>3
  <2>3. CASE ~Working(a)
    <3>1. Mark(a) = sent[Backend[a]] /\ Mark(a)' = sent'[Backend[a]]
      BY <2>1, <2>3 DEF Mark
    <3> QED  BY <1>6, <2>1, <2>3, <3>1
  <2> QED  BY <2>2, <2>3
<1>9. ASSUME NEW a \in Prod
      PROVE  Standing(a)' => Standing(a) /\ Passed(a)' \in Nat /\ Passed(a) =< Passed(a)'
  <2>1. Passed(a) \in Nat
    BY ProdCounts
  <2>2. Passed(a)' = Passed(a) /\ (Standing(a)' => Standing(a))
    BY <1>2 DEF Passed, Standing, Gone, Writable
  <2> QED  BY <2>1, <2>2
<1>10. ASSUME NEW y \in Clone
       PROVE  /\ Line(y)' = Line(y) /\ Played(y)' = Played(y) /\ (Idle(y)' <=> Idle(y))
              /\ Live(y)' => Live(y)
              /\ \A i \in Index : Chain(i, y)' = Chain(i, y)
  BY <1>2 DEF Line, Rest, Played, Chain, Idle, Live
<1>11. ASSUME NEW i \in Index
       PROVE  /\ Writers(i)' = Writers(i) /\ Readers(i)' = Readers(i)
              /\ Copies(i)' = Copies(i)
  <2>1. Writers(i)' = Writers(i) /\ Readers(i)' = Readers(i)
    BY <1>2 DEF Writers, Readers
  <2>2. \A y \in Readers(i) : Played(y)' = Played(y)
    BY <1>10 DEF Readers
  <2> QED  BY <1>2, <2>1, <2>2 DEF Copies
<1>12. ASSUME NEW i \in Index, NEW a \in Prod, NEW y \in Clone, Paired(i, a, y)'
       PROVE  /\ Paired(i, a, y)
              /\ Replays(Base[Backend[a]], Line(y)', dropped)
              /\ Live(y)' => Live(y) /\ Chain(i, y)' = Chain(i, y)
  <2>1. Paired(i, a, y)
    BY <1>2, <1>10, <1>11, <1>12 DEF Paired
  <2>2. Replays(Base[Backend[a]], Line(y), dropped)
    BY <2>1 DEF ReplayInv, CopyInv, Replayed, Replay
  <2> QED  BY <1>10, <2>1, <2>2
<1>13. \A a \in Prod :
          /\ Mark(a)' \in Nat /\ Mark(a) =< Mark(a)'
          /\ Standing(a)' => \/ pc[Handler(a)] = "none"
                             \/ Standing(a) /\ Passed(a)' \in Nat /\ Passed(a) =< Passed(a)'
          /\ Working(a)' =>
                /\ Working(a)
                /\ \A k \in 1 .. Mark(a)' : k =< Mark(a) \/ ReplyUnit(a, k) \in dropped'
  <2>1. ASSUME NEW a \in Prod, Working(a)', NEW k \in 1 .. Mark(a)'
        PROVE  k =< Mark(a)
    <3>1. Mark(a)' = Mark(a) /\ Mark(a)' \in Nat
      BY <1>8, <2>1
    <3>2. \A m \in Nat : \A i \in 1 .. m : i =< m
      OBVIOUS
    <3> QED  BY <2>1, <3>1, <3>2, Zenon
  <2> QED  BY <1>8, <1>9, <2>1, Zenon
<1>14. Sources' /\ Followed' /\ Replayed'
  BY <1>2, <1>11, <1>12, <1>13, Still
<1> QED  BY <1>7, <1>8, <1>14 DEF CopyInv

\* What the peers do that has nothing to do with the replies.
LEMMA PeerAside ==
  ASSUME ReplayInv, UNCHANGED procVars, UNCHANGED shut,
         \A x \in Conn : got'[x] = got[x] /\ outq'[x] = outq[x],
         \A a \in Prod : inq'[Backend[a]] = inq[Backend[a]] /\ sent'[Backend[a]] = sent[Backend[a]],
         \A x \in Conn : peer'[x] \in {"open", "half"} => peer[x] \in {"open", "half"},
         \A x \in Conn : peer[x] = "closed" => peer'[x] = "closed"
  PROVE  CopyInv'
<1>1. UNCHANGED <<pc, buf, off, idx, pipeVars>>
  BY DEF procVars, aggVars
<1>2. ASSUME NEW a \in Prod
      PROVE  /\ UNCHANGED <<pc[<<a, "W2">>], buf[<<a, "W2">>], got[a], outq[a],
                            inq[Backend[a]], sent[Backend[a]]>>
             /\ idx'[a] = idx[a] \/ pc[<<a, "W2">>] = "none"
             /\ Standing(a)' => pc[Handler(a)] = "none" \/ Standing(a)
  <2>1. a \in Conn
    BY Socks
  <2>2. Standing(a)' => Standing(a)
    BY <1>1, <2>1 DEF Standing, Gone, Writable
  <2> QED  BY <1>1, <2>1, <2>2
<1>3. ASSUME NEW y \in Clone
      PROVE  /\ UNCHANGED <<pc[<<y, "R2">>], buf[<<y, "R2">>], off[<<y, "R2">>],
                            got[y], outq[y]>>
             /\ pc'[<<y, "R3">>] = "none" <=> pc[<<y, "R3">>] = "none"
             /\ idx'[y] = idx[y] \/ Idle(y)
             /\ Live(y)' => Live(y)
  <2>1. y \in Conn
    BY Socks
  <2> QED  BY <1>1, <2>1 DEF Live
<1> QED  BY <1>1, <1>2, <1>3, Aside

\* Whatever a peer does.
LEMMA PeersCopy ==
  ASSUME ReplayInv, NEW s \in Sock, Reads(s) \/ Writes(s) \/ Quits(s) \/ Resets(s)
  PROVE  CopyInv'
<1>1. UNCHANGED procVars /\ SockTypeOK
  BY DEF Reads, Writes, Quits, Resets, ReplayInv, StartInv, IsolInv, ProcInv, LoopInv
<1>2. /\ Conn \subseteq Sock /\ Conn = Prod \cup Clone
      /\ \A a \in Prod : Backend[a] \in Sock /\ Backend[a] \notin Conn
      /\ s \in Prod \/ s \in Clone \/ \E x \in Prod : s = Backend[x]
  BY Socks, ConnAssumption DEF Conn
<1>3. CASE Reads(s)
  <2>1. PeerRead(s)
    BY <1>3 DEF Reads
  <2>2. CASE s \in Prod
    BY <1>1, <2>1, <2>2, ProdReads
  <2>3. CASE s \in Clone
    BY <1>1, <2>1, <2>3, CloneReads
  <2>4. CASE \E x \in Prod : s = Backend[x]
    <3>1. UNCHANGED <<inq, sent, shut, peer>> /\ \A x \in Conn : x # s
      BY <1>2, <2>1, <2>4 DEF PeerRead
    <3>2. \A x \in Conn : got'[x] = got[x] /\ outq'[x] = outq[x]
      BY <1>1, <1>2, <2>1, <3>1 DEF PeerRead, SockTypeOK
    <3> QED  BY <1>1, <3>1, <3>2, PeerAside
  <2> QED  BY <1>2, <2>2, <2>3, <2>4
<1>4. CASE Resets(s)
  <2>1. Reset(s, Gone(s))
    BY <1>4 DEF Resets
  <2>2. CASE s \in Prod
    BY <1>1, <2>1, <2>2, ProdResets
  <2>3. CASE s \in Clone
    BY <1>1, <2>1, <2>3, CloneResets
  <2>4. CASE \E x \in Prod : s = Backend[x]
    <3>1. UNCHANGED <<inq, got, sent, shut, peer>> /\ \A x \in Conn : x # s
      BY <1>2, <2>1, <2>4 DEF Reset
    <3>2. \A x \in Conn : got'[x] = got[x] /\ outq'[x] = outq[x]
      BY <1>1, <1>2, <2>1, <3>1 DEF Reset, SockTypeOK
    <3> QED  BY <1>1, <3>1, <3>2, PeerAside
  <2> QED  BY <1>2, <2>2, <2>3, <2>4
<1>5. CASE Writes(s)
  <2>1. PeerWrite(s, Gone(s))
    BY <1>5 DEF Writes
  <2>2. CASE s \in Conn
    <3>1. /\ UNCHANGED <<got, outq, shut, peer>>
          /\ \A a \in Prod : inq'[Backend[a]] = inq[Backend[a]] /\ sent'[Backend[a]] = sent[Backend[a]]
      BY <1>1, <1>2, <2>1, <2>2 DEF PeerWrite, SockTypeOK
    <3> QED  BY <1>1, <3>1, PeerAside
  <2>3. CASE \E x \in Prod : s = Backend[x]
    <3>1. PICK x \in Prod : s = Backend[x]
      BY <2>3
    <3>2. \E gone : PeerWrite(Backend[x], gone)
      BY <2>1, <3>1
    <3> QED  BY <1>1, <3>2, BackendWrites
  <2> QED  BY <1>2, <2>2, <2>3
<1>6. CASE Quits(s)
  <2>1. /\ UNCHANGED <<inq, outq, got, sent, shut>>
        /\ \A x \in Sock : x # s => peer'[x] = peer[x]
        /\ peer[s] \in {"open", "half"}
    BY <1>1, <1>6 DEF Quits, PeerHalfClose, PeerClose, SockTypeOK
  <2>2. \A x \in Conn : peer'[x] \in {"open", "half"} => peer[x] \in {"open", "half"}
    BY <1>2, <2>1
  <2>3. \A x \in Conn : peer[x] = "closed" => peer'[x] = "closed"
    BY <1>2, <2>1
  <2> QED  BY <1>1, <2>1, <2>2, <2>3, PeerAside
<1> QED  BY <1>3, <1>4, <1>5, <1>6

----------------------------------------------------------------------------
(* What has not happened yet.                                              *)

\* No process is unborn again, no socket is opened again, and what needs a connection
\* to be accepted, a W2 or an R2 does not happen before there is one.
LEMMA StartStep ==
  ASSUME StartInv, IsolInv',
         \A p \in Proc : pc'[p] = "none" => pc[p] = "none",
         \A s \in Sock : sent'[s] =< MaxSent[s],
         \A s \in Sock : shut[s] => shut'[s],
         \A x \in Conn : pc'[Handler(x)] = "none" /\ peer[x] = "away" => peer'[x] = "away",
         \A a \in Prod : pc[<<a, "W2">>] = "none" => got'[a] = got[a],
         \A y \in Clone : pc[<<y, "R2">>] = "none" => got'[y] = got[y] /\ outq'[y] = outq[y],
         \A y \in Clone : pc'[<<y, "R1">>] = "fork" \/ pc'[<<y, "R3">>] # "none" =>
            pc[<<y, "R1">>] = "fork" \/ pc[<<y, "R3">>] # "none" \/ shut'[y],
         \A y \in Clone : idx'[y] \notin Index =>
            \/ pc'[<<y, "R2">>] = "none"
            \/ /\ UNCHANGED <<idx[y], got[y], outq[y]>>
               /\ pc'[<<y, "R2">>] # "send"
  PROVE  StartInv'
<1>1. Limits'
  BY DEF Limits
<1>2. ASSUME NEW x \in Conn, pc'[Handler(x)] = "none" PROVE peer'[x] = "away"
  BY <1>2, Procs DEF StartInv, Untouched
<1>3. ASSUME NEW a \in Prod, pc'[<<a, "W2">>] = "none" PROVE got'[a] = <<>>
  <2>1. pc[<<a, "W2">>] = "none"
    BY <1>3, Procs
  <2> QED  BY <2>1 DEF StartInv, Untouched
<1>4. ASSUME NEW y \in Clone
      PROVE  /\ pc'[<<y, "R2">>] = "none" => got'[y] = <<>> /\ outq'[y] = <<>>
             /\ pc'[<<y, "R1">>] = "fork" \/ pc'[<<y, "R3">>] # "none" => shut'[y]
             /\ idx'[y] \notin Index =>
                   pc'[<<y, "R2">>] # "send" /\ got'[y] = <<>> /\ outq'[y] = <<>>
  <2>1. y \in Sock /\ <<y, "R2">> \in Proc
    BY Procs, Socks
  <2>2. ASSUME pc'[<<y, "R2">>] = "none" PROVE got'[y] = <<>> /\ outq'[y] = <<>>
    BY <2>1, <2>2 DEF StartInv, Untouched
  <2>3. ASSUME pc'[<<y, "R1">>] = "fork" \/ pc'[<<y, "R3">>] # "none" PROVE shut'[y]
    BY <2>1, <2>3 DEF StartInv, Untouched
  <2>4. idx[y] \notin Index => pc[<<y, "R2">>] # "send" /\ got[y] = <<>> /\ outq[y] = <<>>
    BY DEF StartInv, Untouched
  <2>5. ASSUME idx'[y] \notin Index
        PROVE  pc'[<<y, "R2">>] # "send" /\ got'[y] = <<>> /\ outq'[y] = <<>>
    BY <2>2, <2>4, <2>5
  <2> QED  BY <2>2, <2>3, <2>5
<1>5. Untouched'
  BY <1>2, <1>3, <1>4 DEF Untouched
<1> QED  BY <1>1, <1>5 DEF StartInv

\* The handlers.
LEMMA HandlersStart ==
  ASSUME StartInv, IsolInv', NEW x \in Conn, Accept(x) \/ handle_client(x) \/ Terminated(x)
  PROVE  StartInv'
<1>1. /\ pc \in [Proc -> Step] /\ peer \in [Sock -> PeerState] /\ Handler(x) \in Proc
      /\ \A y \in Conn : y \in Sock
      /\ pc[Handler(x)] = "connect" => x \in Prod
      /\ x \in Prod => Backend[x] \notin Conn
      /\ x \in Prod \/ x \in Clone
  BY Procs, Socks DEF StartInv, IsolInv, ProcInv, LoopInv, SockTypeOK, ForkInv, Conn
<1>2. UNCHANGED <<inq, outq, got, sent, shut>>
  BY DEF Accept, handle_client, Terminated, CreateConnection, CheckOrder, GetCounter,
         increment_shm_counter, Lock, Load, Store, Unlock, Inner, ForkFirst, ForkSecond, Fork,
         Connected, sockVars
<1>3. \/ \E next \in Step \ {"none"} : Goto(Handler(x), next)
      \/ \E next \in {"fork2", "done"}, r \in {"W1", "W2", "R1", "R2"} :
            pc' = [pc EXCEPT ![<<x, r>>] = "recv", ![Handler(x)] = next]
  <2>1. CASE ForkFirst(x) \/ ForkSecond(x)
    BY <2>1 DEF ForkFirst, ForkSecond, Fork, Step, Over
  <2>2. CASE \/ Accept(x) \/ CreateConnection(x) \/ CheckOrder(x) \/ GetCounter(x)
             \/ increment_shm_counter(x) \/ Terminated(x)
    <3>1. \E next \in {"connect", "get", "killed", "check", "lock", "load", "store", "unlock", "fork1"} :
             Goto(Handler(x), next)
      BY <2>2 DEF Accept, CreateConnection, CheckOrder, GetCounter, Terminated,
                  increment_shm_counter, Lock, Load, Store, Unlock, Inner
    <3> QED  BY <3>1 DEF Step, Over
  <2> QED  BY <2>1, <2>2 DEF handle_client
<1>4. /\ pc'[Handler(x)] # "none"
      /\ \A p \in Proc : pc'[p] = "none" => pc[p] = "none"
  BY <1>1, <1>3 DEF Goto
<1>5. ASSUME NEW y \in Clone
      PROVE  /\ pc'[<<y, "R1">>] = "fork" => pc[<<y, "R1">>] = "fork"
             /\ pc'[<<y, "R3">>] # "none" => pc[<<y, "R3">>] # "none"
  <2>1. /\ <<y, "R1">> \in Proc /\ <<y, "R3">> \in Proc
        /\ <<y, "R1">> # Handler(x) /\ <<y, "R3">> # Handler(x)
        /\ \A r \in {"W1", "W2", "R1", "R2"} : <<y, "R3">> # <<x, r>>
    BY Procs
  <2> QED  BY <1>1, <1>3, <2>1 DEF Goto
<1>6. ASSUME NEW y \in Conn, pc'[Handler(y)] = "none" PROVE peer'[y] = peer[y]
  <2>1. y # x
    BY <1>4, <1>6
  <2>2. CASE Accept(x)
    BY <1>1, <2>1, <2>2 DEF Accept, Connected
  <2>3. CASE CreateConnection(x)
    BY <1>1, <2>3 DEF CreateConnection, Connected, sockVars
  <2>4. CASE \/ CheckOrder(x) \/ GetCounter(x) \/ increment_shm_counter(x) \/ Terminated(x)
             \/ ForkFirst(x) \/ ForkSecond(x)
    <3>1. peer' = peer
      BY <2>4 DEF CheckOrder, GetCounter, increment_shm_counter, Lock, Load, Store, Unlock,
                  Inner, Terminated, ForkFirst, ForkSecond, Fork, sockVars
    <3> QED  BY <3>1
  <2> QED  BY <2>2, <2>3, <2>4 DEF handle_client
<1>7. \A s \in Sock : sent'[s] =< MaxSent[s]
  BY <1>2 DEF StartInv, Limits
<1>8. \A y \in Conn : pc'[Handler(y)] = "none" /\ peer[y] = "away" => peer'[y] = "away"
  BY <1>6
<1>9. ASSUME NEW y \in Clone, idx'[y] \notin Index
      PROVE  \/ pc'[<<y, "R2">>] = "none"
             \/ UNCHANGED <<idx[y], got[y], outq[y]>> /\ pc'[<<y, "R2">>] # "send"
  <2>1. /\ y \in Conn /\ <<y, "R2">> \in Proc /\ <<y, "R2">> # Handler(x)
        /\ idx \in [Conn -> Nat]
    BY Procs, Socks DEF StartInv, IsolInv, ProcInv, CounterInv, CounterTypes
  <2>2. pc'[<<y, "R2">>] = pc[<<y, "R2">>] \/ pc'[<<y, "R2">>] = "recv"
    BY <1>1, <1>3, <2>1 DEF Goto
  <2>3. CASE GetCounter(x)
    <3>1. /\ idx' = [idx EXCEPT ![x] = shm[Kind(x)]] /\ pc[Handler(x)] = "get"
          /\ pc'[<<y, "R2">>] = pc[<<y, "R2">>]
      BY <1>1, <2>1, <2>3 DEF GetCounter, Inner, Goto
    <3>2. CASE y = x
      BY <3>1, <3>2 DEF StartInv, IsolInv, ProcInv, ForkInv, Unforked
    <3>3. CASE y # x
      BY <1>2, <1>9, <2>1, <3>1, <3>3 DEF StartInv, Untouched
    <3> QED  BY <3>2, <3>3
  <2>4. CASE \/ Accept(x) \/ CreateConnection(x) \/ CheckOrder(x) \/ increment_shm_counter(x)
             \/ Terminated(x) \/ ForkFirst(x) \/ ForkSecond(x)
    <3>1. idx' = idx
      BY <2>4 DEF Accept, CreateConnection, CheckOrder, increment_shm_counter, Lock, Load, Store,
                  Unlock, Terminated, ForkFirst, ForkSecond, Fork, aggVars
    <3>2. pc[<<y, "R2">>] # "send"
      BY <1>9, <3>1 DEF StartInv, Untouched
    <3> QED  BY <1>2, <2>2, <3>1, <3>2
  <2> QED  BY <2>3, <2>4 DEF handle_client
<1> QED  BY <1>2, <1>4, <1>5, <1>7, <1>8, <1>9, StartStep

\* The workers.
LEMMA WorkersStart ==
  ASSUME StartInv, IsolInv',
         \/ \E x \in Prod : W1(x) \/ W2(x)
         \/ \E x \in Clone : R1(x) \/ R2(x) \/ R3(x)
  PROVE  StartInv'
<1>1. PICK x \in Conn, r \in {"W1", "W2", "R1", "R2", "R3"} :
         \/ x \in Prod /\ r = "W1" /\ W1(x)
         \/ x \in Prod /\ r = "W2" /\ W2(x)
         \/ x \in Clone /\ r = "R1" /\ R1(x)
         \/ x \in Clone /\ r = "R2" /\ R2(x)
         \/ x \in Clone /\ r = "R3" /\ R3(x)
  BY Socks
<1> DEFINE q == <<x, r>>
<1>2. /\ SockTypeOK /\ pc \in [Proc -> Step] /\ q \in Proc
      /\ \A a \in Prod : Backend[a] \in Sock /\ Backend[a] \notin Clone
      /\ \A y \in Conn : y \in Sock
      /\ \A a \in Prod : a \notin Clone
  BY <1>1, Procs, Socks DEF StartInv, IsolInv, ProcInv, LoopInv
<1> DEFINE Takes == \E s \in Sock : ShutDown(s) \/ \E k \in 1 .. BufSize : Receive(s, k)
           Gives == \E u : \/ Transmit(x, u) /\ (x \in Clone => r = "R2")
                           \/ x \in Prod /\ Transmit(Backend[x], u)
<1>3. UNCHANGED sockVars \/ Takes \/ Gives
  <2>1. x \in Sock /\ (x \in Prod => Backend[x] \in Sock /\ x \notin Clone)
    BY <1>2
  <2>2. CASE W1(x) /\ x \in Prod
    <3>1. \/ Recv(<<x, "W1">>, x, "send", "shut1") \/ Send(<<x, "W1">>, "send", Backend[x], "recv")
          \/ Shut(<<x, "W1">>, "shut1", Backend[x], "shut2") \/ Shut(<<x, "W1">>, "shut2", x, "done")
      BY <2>2 DEF W1, forward_data, Shut2
    <3> QED  BY <2>1, <2>2, <3>1 DEF Recv, Send, Shut
  <2>3. CASE W2(x) /\ x \in Prod
    <3>1. \/ Recv(<<x, "W2">>, Backend[x], "send", "shut1") \/ Send(<<x, "W2">>, "send", x, "write")
          \/ Shut(<<x, "W2">>, "shut1", x, "shut2") \/ Shut(<<x, "W2">>, "shut2", Backend[x], "done")
          \/ UNCHANGED sockVars
      BY <2>3 DEF W2, forward_data_to_dest_and_pipe, Shut2, WritePipe, WriteAstray
    <3> QED  BY <2>1, <2>3, <3>1 DEF Recv, Send, Shut
  <2>4. CASE R1(x) \/ R3(x)
    BY <2>1, <2>4 DEF R1, R3, read_data_and_drop, read_pipe_nowhere, Drain, DrainEnd, Shut,
                      ReadPipe, ReadAstray
  <2>5. CASE R2(x) /\ r = "R2"
    BY <2>1, <2>5 DEF R2, read_pipe_dest, ReadPipe, ReadAstray, Send, Shut
  <2> QED  BY <1>1, <2>2, <2>3, <2>4, <2>5
<1>4. /\ UNCHANGED <<got, sent, peer>>
      /\ \A s \in Sock : shut[s] => shut'[s]
      /\ \A y \in Clone : outq'[y] = outq[y] \/ (y = x /\ r = "R2")
  <2>1. CASE UNCHANGED sockVars
    BY <2>1 DEF sockVars
  <2>2. CASE Takes
    BY <1>2, <2>2 DEF ShutDown, Receive, SockTypeOK
  <2>3. CASE Gives
    <3>1. UNCHANGED <<got, sent, shut, peer>>
      BY <2>3 DEF Transmit
    <3>2. \/ /\ x \in Clone => r = "R2"
             /\ \A s \in Sock : s # x => outq'[s] = outq[s]
          \/ /\ x \in Prod
             /\ \A s \in Sock : s # Backend[x] => outq'[s] = outq[s]
      BY <1>2, <2>3 DEF Transmit, SockTypeOK
    <3>3. ASSUME NEW y \in Clone PROVE outq'[y] = outq[y] \/ (y = x /\ r = "R2")
      <4>1. y \in Sock /\ (x \in Prod => y # Backend[x])
        BY <1>2, Socks
      <4> QED  BY <3>2, <4>1
    <3> QED  BY <3>1, <3>3
  <2> HIDE DEF Takes, Gives
  <2> QED  BY <1>3, <2>1, <2>2, <2>3
<1> HIDE DEF Takes, Gives
<1>5. /\ \/ UNCHANGED pc
         \/ \E next \in Step \ {"none"} : Goto(q, next) /\ (next = "fork" => r = "R1" /\ shut'[x])
         \/ /\ r = "R1" /\ pc[q] = "fork"
            /\ pc' = [pc EXCEPT ![q] = "done", ![<<x, "R3">>] = "recv"]
      /\ pc[q] # "none"
  <2> DEFINE Onward(next) == next \in {"recv", "send", "write", "shut1", "shut2", "done", "killed"}
  <2>1. CASE W1(x) /\ r = "W1"
    <3>1. /\ pc[q] # "none"
          /\ UNCHANGED pc \/ \E next : Onward(next) /\ Goto(q, next)
      BY <2>1 DEF W1, forward_data, Shut2, Recv, Send, Shut
    <3> QED  BY <2>1, <3>1 DEF Step, Over, LoopStep
  <2>2. CASE W2(x) /\ r = "W2"
    <3>1. \/ WritePipe(q, idx[x], "recv") \/ WriteAstray(q, "recv")
          \/ Recv(q, Backend[x], "send", "shut1")
          \/ Send(q, "send", x, "write")
          \/ Shut(q, "shut1", x, "shut2") \/ Shut(q, "shut2", Backend[x], "done")
      BY <2>2, Zenon DEF W2, forward_data_to_dest_and_pipe, Shut2
    <3>2. /\ pc[q] # "none"
          /\ UNCHANGED pc \/ \E next : Onward(next) /\ Goto(q, next)
      BY <3>1 DEF WritePipe, WriteAstray, Recv, Send, Shut
    <3> QED  BY <2>2, <3>2 DEF Step, Over, LoopStep
  <2>3. CASE R1(x) /\ r = "R1"
    <3>1. \/ Drain(q, x) \/ DrainEnd(q, x) \/ Shut(q, "shut1", x, "fork")
          \/ /\ pc[q] = "fork"
             /\ \/ pc' = [pc EXCEPT ![q] = "done", ![<<x, "R3">>] = "recv"]
                \/ Goto(q, "done")
      BY <2>3, Zenon DEF R1, read_data_and_drop
    <3>2. CASE Drain(q, x)
      BY <3>2 DEF Drain
    <3>3. CASE DrainEnd(q, x)
      BY <3>3 DEF DrainEnd, Step, LoopStep
    <3>4. CASE Shut(q, "shut1", x, "fork")
      <4>1. pc[q] # "none" /\ Goto(q, "fork") /\ "fork" \in Step \ {"none"} /\ shut'[x]
        BY <1>2, <3>4 DEF Shut, ShutDown, Step, SockTypeOK
      <4> QED  BY <2>3, <4>1
    <3>5. CASE pc[q] = "fork" /\ Goto(q, "done")
      BY <3>5 DEF Step, Over
    <3>6. CASE pc[q] = "fork" /\ pc' = [pc EXCEPT ![q] = "done", ![<<x, "R3">>] = "recv"]
      BY <2>3, <3>6
    <3> QED  BY <3>1, <3>2, <3>3, <3>4, <3>5, <3>6
  <2>4. CASE R2(x) /\ r = "R2"
    BY <2>4 DEF R2, read_pipe_dest, ReadPipe, ReadAstray, Send, Shut, Step, Over, LoopStep
  <2>5. CASE R3(x) /\ r = "R3"
    BY <2>5 DEF R3, read_pipe_nowhere, ReadPipe, ReadAstray, Step, Over, LoopStep
  <2> QED  BY <1>1, <2>1, <2>2, <2>3, <2>4, <2>5
<1>6. /\ \A p \in Proc : pc'[p] = "none" => pc[p] = "none"
      /\ \A y \in Clone : pc'[<<y, "R1">>] = "fork" \/ pc'[<<y, "R3">>] # "none" =>
            pc[<<y, "R1">>] = "fork" \/ pc[<<y, "R3">>] # "none" \/ shut'[y]
  <2>1. \A p \in Proc : pc'[p] = "none" => pc[p] = "none"
    BY <1>2, <1>5 DEF Goto
  <2>2. ASSUME NEW y \in Clone, pc'[<<y, "R1">>] = "fork" \/ pc'[<<y, "R3">>] # "none"
        PROVE  pc[<<y, "R1">>] = "fork" \/ pc[<<y, "R3">>] # "none" \/ shut'[y]
    <3>1. <<y, "R1">> \in Proc /\ <<y, "R3">> \in Proc
      BY Procs
    <3>2. CASE UNCHANGED pc
      BY <2>2, <3>2
    <3>3. ASSUME NEW next \in Step \ {"none"}, Goto(q, next), next = "fork" => r = "R1" /\ shut'[x]
          PROVE  pc[<<y, "R1">>] = "fork" \/ pc[<<y, "R3">>] # "none" \/ shut'[y]
      <4>1. CASE pc'[<<y, "R1">>] = "fork"
        BY <1>2, <3>1, <3>3, <4>1 DEF Goto
      <4>2. CASE pc'[<<y, "R3">>] # "none"
        BY <1>2, <1>5, <3>1, <3>3, <4>2 DEF Goto
      <4> QED  BY <2>2, <4>1, <4>2
    <3>4. CASE /\ r = "R1" /\ pc[q] = "fork"
               /\ pc' = [pc EXCEPT ![q] = "done", ![<<x, "R3">>] = "recv"]
      <4>1. CASE y = x
        BY <3>4, <4>1
      <4>2. CASE y # x
        BY <1>2, <2>2, <3>1, <3>4, <4>2
      <4> QED  BY <4>1, <4>2
    <3> QED  BY <1>5, <3>2, <3>3, <3>4
  <2> QED  BY <2>1, <2>2
<1>7. ASSUME NEW y \in Clone, pc[<<y, "R2">>] = "none" PROVE got'[y] = got[y] /\ outq'[y] = outq[y]
  <2>1. ~(y = x /\ r = "R2")
    BY <1>5, <1>7
  <2> QED  BY <1>4, <2>1
<1>8. \A s \in Sock : sent'[s] =< MaxSent[s]
  BY <1>4 DEF StartInv, Limits
<1>9. /\ \A a \in Prod : pc[<<a, "W2">>] = "none" => got'[a] = got[a]
      /\ \A y \in Conn : pc'[Handler(y)] = "none" /\ peer[y] = "away" => peer'[y] = "away"
  BY <1>4
<1>10. ASSUME NEW y \in Clone, idx'[y] \notin Index
       PROVE  UNCHANGED <<idx[y], got[y], outq[y]>> /\ pc'[<<y, "R2">>] # "send"
  <2>1. idx' = idx /\ <<y, "R2">> \in Proc
    BY <1>1, Procs DEF W1, W2, R1, R2, R3, aggVars
  <2>2. pc[<<y, "R2">>] # "send"
    BY <1>10, <2>1 DEF StartInv, Untouched
  <2>3. CASE y = x /\ r = "R2"
    <3>1. R2(x)
      BY <1>1, <2>3
    <3>2. ReadAstray(q, "shut1") \/ Shut(q, "shut1", x, "done")
      BY <1>10, <2>1, <2>2, <2>3, <3>1 DEF R2, read_pipe_dest, Send
    <3>3. outq' = outq /\ pc'[q] # "send"
      BY <1>2, <3>2 DEF ReadAstray, Shut, ShutDown, Goto, sockVars
    <3> QED  BY <1>4, <2>1, <2>3, <3>3
  <2>4. CASE ~(y = x /\ r = "R2")
    <3>1. <<y, "R2">> # q
      BY <2>4
    <3>2. pc'[<<y, "R2">>] = pc[<<y, "R2">>]
      BY <1>2, <1>5, <2>1, <3>1, Procs DEF Goto
    <3> QED  BY <1>4, <2>1, <2>2, <2>4, <3>2
  <2> QED  BY <2>3, <2>4
<1> QED  BY <1>4, <1>6, <1>7, <1>8, <1>9, <1>10, StartStep

\* The peers.
LEMMA PeersStart ==
  ASSUME StartInv, IsolInv', NEW s \in Sock, Reads(s) \/ Writes(s) \/ Quits(s) \/ Resets(s)
  PROVE  StartInv'
<1>1. /\ UNCHANGED pc /\ SockTypeOK /\ \A x \in Conn : x \in Sock
      /\ \A y \in Clone : y \in Sock
      /\ \A a \in Prod : a \in Sock
  BY Socks DEF Reads, Writes, Quits, Resets, procVars, StartInv, IsolInv, ProcInv, LoopInv
<1>2. \A x \in Sock : sent'[x] =< MaxSent[x]
  <2>1. CASE Writes(s)
    <3>1. /\ sent[s] < MaxSent[s] /\ sent[s] \in Nat /\ MaxSent[s] \in Nat
          /\ sent' = [sent EXCEPT ![s] = sent[s] + 1] /\ sent \in [Sock -> Nat]
      BY <1>1, <2>1, QueueAssumption DEF Writes, PeerWrite, SockTypeOK
    <3>2. \A x \in Sock : x # s => sent'[x] = sent[x]
      BY <3>1
    <3>3. sent'[s] =< MaxSent[s]
      BY <3>1
    <3> QED  BY <3>2, <3>3 DEF StartInv, Limits
  <2>2. CASE Reads(s) \/ Quits(s) \/ Resets(s)
    <3>1. sent' = sent
      BY <2>2 DEF Reads, Quits, Resets, PeerRead, PeerHalfClose, PeerClose, Reset
    <3> QED  BY <3>1 DEF StartInv, Limits
  <2> QED  BY <2>1, <2>2
<1>3. UNCHANGED shut
  BY DEF Reads, Writes, Quits, Resets, PeerRead, PeerWrite, PeerHalfClose, PeerClose, Reset
<1>4. \A x \in Conn : peer[x] = "away" => peer'[x] = "away"
  BY <1>1 DEF Reads, Writes, Quits, Resets, PeerRead, PeerWrite, PeerHalfClose, PeerClose, Reset,
              SockTypeOK
<1>5. \A x \in Sock : outq[x] = <<>> => got'[x] = got[x] /\ outq'[x] = outq[x]
  <2>1. Len(<<>>) = 0
    OBVIOUS
  <2>2. CASE Reads(s)
    BY <1>1, <2>2 DEF Reads, PeerRead, SockTypeOK
  <2>3. CASE Resets(s)
    <3>1. PICK k \in 0 .. Len(outq[s]) - 1 : outq' = [outq EXCEPT ![s] = SubSeq(@, 1, k)]
      BY <2>3 DEF Resets, Reset
    <3>2. outq[s] # <<>>
      BY <2>1, <3>1
    <3>3. got' = got /\ outq \in [Sock -> Seq(Nat)]
      BY <1>1, <2>3 DEF Resets, Reset, SockTypeOK
    <3> QED  BY <3>1, <3>2, <3>3
  <2>4. CASE Writes(s) \/ Quits(s)
    BY <2>4 DEF Writes, Quits, PeerWrite, PeerHalfClose, PeerClose
  <2> QED  BY <2>2, <2>3, <2>4
<1>6. ASSUME NEW a \in Prod, pc[<<a, "W2">>] = "none" PROVE got'[a] = got[a]
  <2>1. Joined(<<a, "W2">>, Backend[a], a)
    BY DEF StartInv, IsolInv, Streams, Stream
  <2>2. Len(outq[a]) = 0 /\ outq[a] \in Seq(Nat)
    BY <1>1, <1>6, <2>1 DEF Joined, SockTypeOK
  <2>3. outq[a] = <<>>
    BY <2>2, EmptySeq
  <2> QED  BY <1>1, <1>5, <2>3
<1>7. \A y \in Clone : pc[<<y, "R2">>] = "none" => got'[y] = got[y] /\ outq'[y] = outq[y]
  BY <1>1, <1>5 DEF StartInv, Untouched
<1>8. /\ \A p \in Proc : pc'[p] = "none" => pc[p] = "none"
      /\ \A x \in Sock : shut[x] => shut'[x]
      /\ \A x \in Conn : pc'[Handler(x)] = "none" /\ peer[x] = "away" => peer'[x] = "away"
      /\ \A y \in Clone : pc'[<<y, "R1">>] = "fork" \/ pc'[<<y, "R3">>] # "none" =>
            pc[<<y, "R1">>] = "fork" \/ pc[<<y, "R3">>] # "none" \/ shut'[y]
  BY <1>1, <1>3, <1>4
<1>9. \A y \in Clone : idx'[y] \notin Index =>
         UNCHANGED <<idx[y], got[y], outq[y]>> /\ pc'[<<y, "R2">>] # "send"
  <2>1. idx' = idx
    BY DEF Reads, Writes, Quits, Resets, procVars, aggVars
  <2> QED  BY <1>1, <1>5, <2>1 DEF StartInv, Untouched
<1> QED  BY <1>2, <1>6, <1>7, <1>8, <1>9, StartStep

----------------------------------------------------------------------------
(* The theorems.                                                           *)

\* At the start nobody reads or writes a pipe.
LEMMA InitReplay == Init => ReplayInv
<1> SUFFICES ASSUME Init PROVE ReplayInv
  OBVIOUS
<1>1. /\ \A p \in Proc : pc[p] = "none"
      /\ \A s \in Sock : got[s] = <<>> /\ outq[s] = <<>> /\ sent[s] = 0 /\ peer[s] = "away"
      /\ \A i \in Index : pipes[i] = <<>>
  BY DEF Init, SockInit
<1>2. /\ \A a \in Prod : a \in Sock /\ pc[<<a, "W2">>] = "none"
      /\ \A y \in Clone : /\ y \in Sock
                          /\ pc[<<y, "R1">>] = "none" /\ pc[<<y, "R2">>] = "none"
                          /\ pc[<<y, "R3">>] = "none"
  BY <1>1, Procs, Socks
<1>3. Limits
  <2>1. ASSUME NEW s \in Sock PROVE sent[s] =< MaxSent[s]
    <3>1. sent[s] = 0 /\ MaxSent[s] \in Nat
      BY <1>1, QueueAssumption
    <3> QED  BY <3>1
  <2> QED  BY <2>1 DEF Limits
<1>4. Untouched
  BY <1>1, <1>2, Socks DEF Untouched
<1>5. ASSUME NEW i \in Index PROVE Writers(i) = {} /\ Readers(i) = {} /\ Copies(i) = {}
  <2>1. Writers(i) = {} /\ Readers(i) = {}
    BY <1>2 DEF Writers, Readers
  <2>2. Units(<<>>) = {}
    BY DEF Units
  <2> QED  BY <1>1, <2>1, <2>2 DEF Copies
<1>6. Taken
  BY <1>2 DEF Taken, Took, Holding
<1>7. Sources /\ Followed
  BY <1>5 DEF Sources, Followed
<1>8. Replayed
  BY <1>5 DEF Replayed, Paired
<1> QED  BY <1>3, <1>4, <1>6, <1>7, <1>8, InitIsol DEF ReplayInv, StartInv, CopyInv

\* fork() of the handler's second worker.
LEMMA ForkSecondCopy ==
  ASSUME ReplayInv, NEW x \in Conn, ForkSecond(x)
  PROVE  CopyInv'
<1>1. CASE x \in Prod /\ pc' = [pc EXCEPT ![<<x, "W2">>] = "recv", ![Handler(x)] = "done"]
  BY <1>1, ForkWriterCopy
<1>2. CASE x \notin Prod /\ pc' = [pc EXCEPT ![<<x, "R2">>] = "recv", ![Handler(x)] = "done"]
  <2>1. /\ x \in Clone /\ Handler(x) \in Proc /\ <<x, "R2">> \in Proc
        /\ Handler(x)[1] = x /\ Handler(x)[2] \notin {"R2", "R3"} /\ Handler(x) # <<x, "R2">>
    <3>1. x \in Clone
      BY <1>2 DEF Conn
    <3>2. Handler(x)[1] = x /\ Handler(x)[2] = "H"
      BY DEF Handler
    <3> QED  BY <3>1, <3>2, Procs
  <2>2. /\ pc[Handler(x)] = "fork2"
        /\ pc' = [pc EXCEPT ![<<x, "R2">>] = "recv", ![Handler(x)] = "done"]
        /\ UNCHANGED <<sockVars, buf, off, aggVars, pipeVars>>
    BY <1>2 DEF ForkSecond, Fork
  <2>3. pc \in [Proc -> Step] /\ pc[<<x, "R2">>] = "none"
    BY <2>1, <2>2 DEF ReplayInv, StartInv, IsolInv, ProcInv, LoopInv, ForkInv
  <2>4. /\ pc'[<<x, "R2">>] = "recv"
        /\ \A p \in Proc : p # Handler(x) /\ p # <<x, "R2">> => pc'[p] = pc[p]
    BY <2>1, <2>2, <2>3
  <2> QED  BY <2>1, <2>2, <2>3, <2>4, ForkReaderCopy
<1>3. CASE Goto(Handler(x), "done")
  <2>1. pc[Handler(x)] = "fork2" /\ UNCHANGED <<sockVars, buf, off, aggVars, pipeVars>>
    BY DEF ForkSecond, Fork
  <2>2. /\ UNCHANGED <<buf, off, inq, outq, got, sent, shut, pipeVars>>
        /\ pc[Handler(x)] \notin Over /\ \A y \in Conn : peer'[y] = peer[y] /\ idx'[y] = idx[y]
    BY <2>1 DEF Over, sockVars, aggVars
  <2> QED  BY <1>3, <2>2, HandlerAside
<1> QED  BY <1>1, <1>2, <1>3 DEF ForkSecond, Fork

\* ReplayInv is inductive.
LEMMA NextReplay == ReplayInv /\ [Next]_vars => ReplayInv'
<1> SUFFICES ASSUME ReplayInv, [Next]_vars PROVE ReplayInv'
  OBVIOUS
<1>1. StartInv /\ IsolInv'
  BY NextIsol DEF ReplayInv, StartInv
<1>2. CASE UNCHANGED vars
  <2>1. UNCHANGED <<sockVars, pc, procVars>>
    BY <1>2 DEF vars, procVars
  <2>2. StartInv'
    BY <1>1, <2>1 DEF StartInv, Limits, Untouched, sockVars, procVars, aggVars
  <2>3. CopyInv'
    BY <2>1, PeerAside DEF sockVars
  <2> QED  BY <2>2, <2>3 DEF ReplayInv
<1>3. CASE \E x \in Conn : Accept(x) \/ handle_client(x) \/ Terminated(x)
  <2>1. PICK x \in Conn : Accept(x) \/ handle_client(x) \/ Terminated(x)
    BY <1>3
  <2>2. StartInv'
    BY <1>1, <2>1, HandlersStart
  <2>3. CopyInv'
    BY <2>1, HandlersCopy, ForkFirstCopy, ForkSecondCopy DEF handle_client
  <2> QED  BY <2>2, <2>3 DEF ReplayInv
<1>4. CASE \/ \E x \in Prod : W1(x) \/ W2(x)
           \/ \E x \in Clone : R1(x) \/ R2(x) \/ R3(x)
  <2>1. StartInv'
    BY <1>1, <1>4, WorkersStart
  <2>2. CopyInv'
    BY <1>4, W1Copy, W2Copy, CloneCopy
  <2> QED  BY <2>1, <2>2 DEF ReplayInv
<1>5. CASE \E s \in Sock : Reads(s) \/ Writes(s) \/ Quits(s) \/ Resets(s)
  <2>1. PICK s \in Sock : Reads(s) \/ Writes(s) \/ Quits(s) \/ Resets(s)
    BY <1>5
  <2>2. StartInv'
    BY <1>1, <2>1, PeersStart
  <2>3. CopyInv'
    BY <2>1, PeersCopy
  <2> QED  BY <2>2, <2>3 DEF ReplayInv
<1> QED  BY <1>2, <1>3, <1>4, <1>5 DEF Next

\* While a production connection stands, however many connections share its pipe, no
\* clone has been answered, and no pipe holds an answer, with a reply that production
\* has not been sent: W2 sends before it writes the pipe.
THEOREM AggNeverAhead == Spec => []CloneNeverAhead
<1>1. ReplayInv => CloneNeverAhead
  <2> SUFFICES ASSUME ReplayInv, NEW a \in Prod, Writable(a), ~Gone(a),
                      NEW n \in 1 .. sent[Backend[a]],
                      \/ ReplyUnit(a, n) \in UNION {Units(pipes[i]) : i \in Index}
                      \/ \E y \in Clone : ReplyUnit(a, n) \in Units(got[y]) \cup Units(outq[y])
               PROVE  n =< Passed(a)
    BY DEF CloneNeverAhead, Passed
  <2>1. n \in 1 .. MaxSent[Backend[a]]
    <3>1. /\ sent[Backend[a]] \in Nat /\ MaxSent[Backend[a]] \in Nat
          /\ sent[Backend[a]] =< MaxSent[Backend[a]]
      BY ProdCounts DEF ReplayInv, StartInv, Limits
    <3> QED  BY <3>1
  <2>2. \E i \in Index : ReplyUnit(a, n) \in Copies(i)
    <3>1. CASE ReplyUnit(a, n) \in UNION {Units(pipes[i]) : i \in Index}
      BY <3>1 DEF Copies
    <3>2. CASE \E y \in Clone : ReplyUnit(a, n) \in Units(got[y]) \cup Units(outq[y])
      <4>1. PICK y \in Clone : ReplyUnit(a, n) \in Units(got[y]) \cup Units(outq[y])
        BY <3>2
      <4>2. pc[<<y, "R2">>] # "none"
        <5>1. Units(<<>>) = {}
          BY DEF Units
        <5> QED  BY <4>1, <5>1 DEF ReplayInv, StartInv, Untouched
      <4>3. idx[y] \in Index
        <5>1. Units(<<>>) = {}
          BY DEF Units
        <5> QED  BY <4>1, <5>1 DEF ReplayInv, StartInv, Untouched
      <4>4. Played(y) \subseteq Copies(idx[y])
        BY <4>3, PlayedIn
      <4> QED  BY <4>1, <4>3, <4>4 DEF Played
    <3> QED  BY <3>1, <3>2
  <2>3. Standing(a)
    BY DEF Standing
  <2> QED  BY <2>1, <2>2, <2>3 DEF ReplayInv, CopyInv, Followed
<1> QED  BY <1>1, InitReplay, NextReplay, PTL DEF Spec

\* A clone that alone reads the pipe of one production connection is answered with its
\* replies, in order, and misses none but those that did not fit into the pipe.
THEOREM AggReplayFaithful == Spec => []ReplayFaithful
<1>1. ReplayInv => ReplayFaithful
  <2> SUFFICES ASSUME ReplayInv, NEW i \in Index, NEW a \in Prod, NEW y \in Clone,
                      Writers(i) = {a}, Readers(i) = {y}, NEW j \in 1 .. Len(got[y])
               PROVE  \E n \in 1 .. sent[Backend[a]] :
                         /\ got[y][j] = ReplyUnit(a, n)
                         /\ \A k \in 1 .. j - 1 : got[y][k] < got[y][j]
                         /\ \A m \in 1 .. n - 1 :
                               \/ ReplyUnit(a, m) \in dropped
                               \/ \E k \in 1 .. j - 1 : got[y][k] = ReplyUnit(a, m)
    BY DEF ReplayFaithful
  <2> DEFINE z == Base[Backend[a]]
             g == got[y]
  <2>1. g \in Seq(Nat) /\ outq[y] \in Seq(Nat) /\ Len(g) \in Nat /\ z \in Nat
        /\ Mark(a) \in Nat /\ sent[Backend[a]] \in Nat /\ Mark(a) =< sent[Backend[a]]
    BY CloneParts, ProdCounts, MarkCounts, LenProperties
  <2>2. Replays(z, g, dropped)
    <3>1. y \in Readers(i)
      OBVIOUS
    <3>2. Paired(i, a, y)
      BY <3>1 DEF Paired, Readers
    <3>3. Replays(z, g \o outq[y], dropped)
      BY <3>2 DEF ReplayInv, CopyInv, Replayed, Replay, Line
    <3> QED  BY <2>1, <3>3, ReplaysPrefix
  <2>3. PICK n \in 1 .. Mark(a) : g[j] = ReplyUnit(a, n)
    <3>1. g[j] \in Copies(i)
      BY DEF Copies, Played, Units
    <3> QED  BY <3>1 DEF ReplayInv, CopyInv, Sources
  <2> HIDE DEF g
  <2>4. n \in 1 .. sent[Backend[a]] /\ g[j] = z + n /\ n \in Nat /\ j \in 1 .. Len(g) /\ j \in Nat
    BY <2>1, <2>3 DEF ReplyUnit, g
  <2> HIDE DEF z
  <2>5. \A k \in 1 .. j - 1 : g[k] < g[j]
    <3>1. \A k \in 1 .. j - 1 : k \in 1 .. Len(g) /\ k < j
      BY <2>1, <2>4
    <3>2. \A h, l \in 1 .. Len(g) : h < l => g[h] < g[l]
      BY <2>2, Zenon DEF Replays
    <3> QED  BY <2>4, <3>1, <3>2
  <2>6. ASSUME NEW m \in 1 .. n - 1, z + m \notin dropped
        PROVE  \E k \in 1 .. j - 1 : g[k] = z + m
    <3>1. z + m \in z + 1 .. g[j] /\ z + m # g[j]
      BY <2>1, <2>4
    <3>2. PICK k \in 1 .. j : g[k] = z + m
      BY <2>2, <2>4, <2>6, <3>1 DEF Replays
    <3>3. k # j
      BY <3>1, <3>2
    <3>4. k \in 1 .. j - 1
      BY <2>4, <3>3
    <3> QED  BY <3>2, <3>4
  <2>7. \A m \in 1 .. n - 1 : \/ z + m \in dropped
                              \/ \E k \in 1 .. j - 1 : g[k] = z + m
    BY <2>6
  <2> QED  BY <2>3, <2>4, <2>5, <2>7 DEF ReplyUnit, g, z
<1> QED  BY <1>1, InitReplay, NextReplay, PTL DEF Spec
=============================================================================
