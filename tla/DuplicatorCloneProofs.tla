----------------------- MODULE DuplicatorCloneProofs ------------------------
(***************************************************************************)
(* Theorems about what the duplicator's clone gets, for every value of the *)
(* constants: the copy, its gaps and its lag, and that the connection is a *)
(* Mirror.                                                                 *)
(***************************************************************************)
EXTENDS DuplicatorProofs, FiniteSetTheorems

----------------------------------------------------------------------------
(* A copy with gaps.                                                       *)

\* q has units in order and skips only those of d.
Faithful(q, d) ==
    /\ Increasing(q)
    /\ \A i \in 1 .. Len(q) :
          /\ q[i] > 0 /\ q[i] \notin d
          /\ \A u \in 1 .. q[i] : u \in d \/ \E j \in 1 .. i : q[j] = u

\* The beginning of a faithful copy is faithful: an end that is lost is no gap.
LEMMA FaithfulPrefix ==
  ASSUME NEW q \in Seq(Nat), NEW r \in Seq(Nat), NEW d, Faithful(q \o r, d)
  PROVE  Faithful(q, d)
<1> DEFINE m == Len(q)
           s == q \o r
<1>1. m \in Nat /\ Len(s) \in Nat /\ m =< Len(s) /\ \A i \in 1 .. m : s[i] = q[i]
  BY Splice, LenProperties
<1>2. /\ \A i, j \in 1 .. Len(s) : i < j => s[i] < s[j]
      /\ \A i \in 1 .. Len(s) :
            /\ s[i] > 0 /\ s[i] \notin d
            /\ \A u \in 1 .. s[i] : u \in d \/ \E j \in 1 .. i : s[j] = u
  BY DEF Faithful, Increasing
<1> HIDE DEF m, s
<1>3. \A i \in 1 .. m : i \in 1 .. Len(s) /\ 1 .. i \subseteq 1 .. m
  BY <1>1
<1>4. \A i, j \in 1 .. m : i < j => q[i] < q[j]
  BY <1>1, <1>2, <1>3
<1>5. ASSUME NEW i \in 1 .. m
      PROVE  /\ q[i] > 0 /\ q[i] \notin d
             /\ \A u \in 1 .. q[i] : u \in d \/ \E j \in 1 .. i : q[j] = u
  <2>1. i \in 1 .. Len(s) /\ s[i] = q[i] /\ \A j \in 1 .. i : s[j] = q[j]
    BY <1>1, <1>3
  <2>2. /\ q[i] > 0 /\ q[i] \notin d
        /\ \A u \in 1 .. q[i] : u \in d \/ \E j \in 1 .. i : s[j] = u
    BY <1>2, <2>1, Zenon
  <2>3. \A u : (\E j \in 1 .. i : s[j] = u) => \E j \in 1 .. i : q[j] = u
    BY <2>1, Zenon
  <2> QED  BY <2>2, <2>3, Zenon
<1> QED  BY <1>4, <1>5 DEF Faithful, Increasing, m

\* What the reader of q gets next from r, after the last unit of q.
LEMMA FaithfulHead ==
  ASSUME NEW q \in Seq(Nat), NEW r \in Seq(Nat), NEW d, NEW last, r # <<>>,
         Faithful(q \o r, d), last = IF q = <<>> THEN 0 ELSE q[Len(q)]
  PROVE  /\ last \in Nat /\ Head(r) \in Units(r) /\ Head(r) \in Nat /\ Head(r) > last
         /\ Head(r) \notin d
         /\ last + 1 .. Head(r) - 1 \subseteq d
<1> DEFINE k == Len(q)
           n == Len(r)
           s == q \o r
           h == Head(r)
<1>1. /\ k \in Nat /\ n \in Nat /\ Len(s) = k + n /\ \A i \in 1 .. k : s[i] = q[i]
      /\ \A i \in 1 .. n : s[k + i] = r[i]
  BY Splice, LenProperties
<1>2. n > 0 /\ h = r[1] /\ h \in Nat
  BY <1>1, HeadTailProperties, ElementOfSeq
<1>3. h \in Units(r)
  BY <1>1, <1>2 DEF Units
<1>4. /\ \A i, j \in 1 .. k + n : i < j => s[i] < s[j]
      /\ \A i \in 1 .. k + n :
            /\ s[i] > 0 /\ s[i] \notin d
            /\ \A u \in 1 .. s[i] : u \in d \/ \E j \in 1 .. i : s[j] = u
  BY <1>1 DEF Faithful, Increasing
<1>5. \A i \in 1 .. k : q[i] \in Nat
  BY ElementOfSeq
<1>6. (q = <<>> <=> k = 0) /\ last = IF k = 0 THEN 0 ELSE q[k]
  <2>1. q = <<>> <=> k = 0
    BY EmptySeq
  <2> QED  BY <2>1
<1> HIDE DEF k, n, s, h
<1>7. k + 1 \in 1 .. k + n /\ s[k + 1] = h
  BY <1>1, <1>2
<1>8. last \in Nat /\ h > last /\ \A j \in 1 .. k : s[j] =< last
  <2>1. CASE k = 0
    BY <1>4, <1>6, <1>7, <2>1
  <2>2. CASE k # 0
    <3>1. k \in 1 .. k /\ k \in 1 .. k + n /\ k < k + 1 /\ last = s[k] /\ last \in Nat
      BY <1>1, <1>5, <1>6, <2>2
    <3>2. s[k] < s[k + 1]
      BY <1>4, <1>7, <3>1
    <3>3. ASSUME NEW j \in 1 .. k PROVE s[j] =< last
      <4>1. j \in 1 .. k + n /\ (j = k \/ j < k)
        BY <1>1
      <4>2. s[j] = q[j] /\ q[j] \in Nat
        BY <1>1, <1>5
      <4>3. j < k => s[j] < s[k]
        BY <1>4, <3>1, <4>1
      <4> QED  BY <3>1, <4>1, <4>2, <4>3
    <3> QED  BY <1>2, <1>7, <3>1, <3>2, <3>3
  <2> QED  BY <2>1, <2>2
<1>9. ASSUME NEW u \in last + 1 .. h - 1 PROVE u \in d
  <2>1. u \in 1 .. h /\ u # h /\ ~(u =< last)
    BY <1>2, <1>8
  <2>2. u \in d \/ \E j \in 1 .. k + 1 : s[j] = u
    BY <1>4, <1>7, <2>1
  <2>3. \A j \in 1 .. k + 1 : j = k + 1 \/ j \in 1 .. k
    BY <1>1
  <2> QED  BY <1>7, <1>8, <2>1, <2>2, <2>3
<1> QED  BY <1>2, <1>3, <1>4, <1>7, <1>8, <1>9 DEF h

\* Giving up units beyond a faithful copy leaves it faithful.
LEMMA FaithfulDrop ==
  ASSUME NEW q \in Seq(Nat), NEW d, NEW e \in SUBSET Nat, NEW m \in Nat, Faithful(q, d),
         \A u \in Units(q) : u =< m, \A u \in e : u > m
  PROVE  Faithful(q, d \cup e)
<1>1. \A i \in 1 .. Len(q) : q[i] \in Nat /\ q[i] =< m
  BY ElementOfSeq DEF Units
<1>2. \A i \in 1 .. Len(q) : q[i] \notin e
  BY <1>1
<1> QED  BY <1>2 DEF Faithful

\* A faithful copy of all of 1 .. m that is not given up goes on with m + 1.
LEMMA FaithfulExtend ==
  ASSUME NEW q \in Seq(Nat), NEW b \in Seq(Nat), NEW d, NEW m \in Nat, Faithful(q, d),
         \A u \in Units(q) \cup d : u \in Nat /\ u =< m,
         \A u \in 1 .. m : u \in d \cup Units(q),
         \A i \in 1 .. Len(b) : b[i] = m + i
  PROVE  /\ Faithful(q \o b, d)
         /\ \A u \in 1 .. m + Len(b) : u \in d \cup Units(q \o b)
<1> DEFINE s == q \o b
           k == Len(q)
           n == Len(b)
<1>1. /\ k \in Nat /\ n \in Nat /\ Len(s) = k + n
      /\ \A i \in 1 .. k : s[i] = q[i]
      /\ \A i \in 1 .. n : s[k + i] = m + i
      /\ Units(s) = Units(q) \cup Units(b)
  BY Splice, LenProperties
<1>2. \A i \in 1 .. k : q[i] \in Units(q) /\ q[i] \in Nat /\ q[i] =< m
  BY DEF Units
<1>3. /\ \A i, j \in 1 .. k : i < j => q[i] < q[j]
      /\ \A i \in 1 .. k :
            /\ q[i] > 0 /\ q[i] \notin d
            /\ \A u \in 1 .. q[i] : u \in d \/ \E j \in 1 .. i : q[j] = u
  BY DEF Faithful, Increasing
<1>4. \A u \in 1 .. m : u \in d \/ \E j \in 1 .. k : q[j] = u
  BY DEF Units
<1>5. \A i \in 1 .. n : m + i \in Units(b)
  BY DEF Units
<1> HIDE DEF s, k, n
<1>6. ASSUME NEW i \in 1 .. k + n
      PROVE  \/ i \in 1 .. k /\ s[i] = q[i]
             \/ i - k \in 1 .. n /\ s[i] = m + (i - k)
  <2>1. CASE i =< k
    BY <1>1, <2>1
  <2>2. CASE i > k
    <3>1. i - k \in 1 .. n /\ k + (i - k) = i
      BY <1>1, <2>2
    <3> QED  BY <1>1, <3>1
  <2> QED  BY <1>1, <2>1, <2>2
<1>7. ASSUME NEW i \in 1 .. k + n, NEW j \in 1 .. k + n, i < j PROVE s[i] < s[j]
  <2>1. CASE j \in 1 .. k
    <3>1. i \in 1 .. k
      BY <1>1, <1>7, <2>1
    <3> QED  BY <1>1, <1>3, <1>7, <2>1, <3>1
  <2>2. CASE j - k \in 1 .. n /\ s[j] = m + (j - k)
    <3>1. CASE i \in 1 .. k /\ s[i] = q[i]
      <4>1. s[i] \in Nat /\ s[i] =< m
        BY <1>2, <3>1
      <4>2. m < s[j] /\ s[j] \in Nat
        BY <1>1, <2>2
      <4> QED  BY <4>1, <4>2
    <3>2. CASE i - k \in 1 .. n /\ s[i] = m + (i - k)
      BY <1>1, <1>7, <2>2, <3>2
    <3> QED  BY <1>6, <3>1, <3>2
  <2> QED  BY <1>6, <2>1, <2>2
<1>8. ASSUME NEW i \in 1 .. k + n
      PROVE  /\ s[i] > 0 /\ s[i] \notin d
             /\ \A u \in 1 .. s[i] : u \in d \/ \E j \in 1 .. i : s[j] = u
  <2>1. CASE i \in 1 .. k /\ s[i] = q[i]
    <3>1. \A j \in 1 .. i : j \in 1 .. k /\ s[j] = q[j]
      BY <1>1, <2>1
    <3>2. \A u \in 1 .. s[i] : u \in d \/ \E j \in 1 .. i : q[j] = u
      BY <1>3, <2>1
    <3>3. \A u : (\E j \in 1 .. i : q[j] = u) => \E j \in 1 .. i : s[j] = u
      BY <3>1, Zenon
    <3> QED  BY <1>3, <2>1, <3>2, <3>3, Zenon
  <2>2. CASE i - k \in 1 .. n /\ s[i] = m + (i - k)
    <3>1. s[i] > 0 /\ s[i] \notin d
      BY <1>1, <2>2
    <3>2. ASSUME NEW u \in 1 .. s[i], u \notin d PROVE \E j \in 1 .. i : s[j] = u
      <4>1. CASE u =< m
        <5>1. PICK j \in 1 .. k : q[j] = u
          BY <1>4, <2>2, <3>2, <4>1
        <5>2. j \in 1 .. i /\ s[j] = u
          BY <1>1, <2>2, <5>1
        <5> QED  BY <5>2
      <4>2. CASE u > m
        <5>1. u - m \in 1 .. n /\ k + (u - m) \in 1 .. i /\ m + (u - m) = u
          BY <1>1, <2>2, <3>2, <4>2
        <5> QED  BY <1>1, <5>1
      <4> QED  BY <2>2, <4>1, <4>2
    <3> QED  BY <3>1, <3>2
  <2> QED  BY <1>6, <2>1, <2>2
<1>9. ASSUME NEW u \in 1 .. m + n PROVE u \in d \cup Units(s)
  <2>1. CASE u =< m
    BY <1>1, <2>1
  <2>2. CASE u > m
    <3>1. u - m \in 1 .. n /\ m + (u - m) = u
      BY <1>1, <2>2
    <3> QED  BY <1>1, <1>5, <3>1
  <2> QED  BY <1>1, <2>1, <2>2
<1> QED  BY <1>1, <1>7, <1>8, <1>9 DEF Faithful, Increasing, s, n

----------------------------------------------------------------------------
(* The invariant.                                                          *)

\* The copy: what the clone has read and has still to read, then what T3 has read
\* from the pipe and not yet sent, then the pipe.
Rest == IF pc["T3"] = "send" THEN SubSeq(buf["T3"], off["T3"] + 1, Len(buf["T3"])) ELSE <<>>
Line == got["dup"] \o outq["dup"]
Chain == Line \o (Rest \o pipe)
Copies == Units(got["dup"]) \cup Units(outq["dup"]) \cup Units(Rest) \cup Units(pipe)

\* T1 has a buffer; T1 may still add to the copy; what of the buffer it has still to
\* add; and the last unit that it has added or given up.
Holding == {"send", "sendDup", "write"}
Working == pc["T1"] \in {"none", "recv"} \cup Holding
Owed == IF pc["T1"] \in {"send", "write"} THEN Len(buf["T1"])
        ELSE IF pc["T1"] = "sendDup" THEN Len(buf["T1"]) - off["T1"] ELSE 0
Mark == IF Working THEN sent["client"] - Len(inq["client"]) - Owed ELSE sent["client"]

\* Nothing of the copy has been lost behind what the clone has still to read.
Copying == pc["T1"] = "none" \/ (Stands("dup") /\ pc["T3"] # "killed")

\* T1 is forked first, and each mode has its own way to the clone.
Control ==
    /\ pc["T1"] = "none" =>
          /\ pc["T2"] = "none" /\ pc["T3"] = "none" /\ pipe = <<>>
          /\ \A s \in {"prod", "dup"} : got[s] = <<>> /\ outq[s] = <<>>
    /\ pc["T3"] \in {"none", "sleep", "recv", "send", "done", "killed"}
    /\ Synch => pipe = <<>> /\ pc["T3"] \notin {"send", "killed"} /\ pc["T1"] # "write"
    /\ ~Synch => pc["T1"] # "sendDup"

\* T1's buffer comes right before what waits in the client's socket.
Taken ==
    pc["T1"] \in Holding =>
        /\ Len(inq["client"]) + Len(buf["T1"]) =< sent["client"]
        /\ \A i \in 1 .. Len(buf["T1"]) :
              buf["T1"][i] = sent["client"] - Len(inq["client"]) - Len(buf["T1"]) + i

Bounded == \A u \in Copies \cup dropped : u =< Mark
Chained ==
    /\ Faithful(Line, dropped)
    /\ Copying => Faithful(Chain, dropped)
    /\ Copying /\ Duplicating /\ Working => \A u \in 1 .. Mark : u \in dropped \cup Copies
Followed == Stands("prod") => \A u \in Copies : u =< Forwarded

\* With -s the clone lacks the part of T1's buffer that production has already.
Early == IF pc["T1"] = "send" THEN off["T1"]
         ELSE IF pc["T1"] = "sendDup" THEN Len(buf["T1"]) - off["T1"] ELSE 0
Lag == Synch /\ Stands("prod") /\ Stands("dup") => Forwarded = Passed("dup") + Early

CopyInv == Bounded /\ Chained /\ Followed /\ Lag
CloneInv == OrderInv /\ Control /\ Taken /\ CopyInv

\* The numbers and queues of the proofs below.
LEMMA Counts ==
  ASSUME CloneInv
  PROVE  /\ \A s \in {"client", "prod", "dup"} :
               /\ s \in Sock /\ inq[s] \in Seq(Nat) /\ outq[s] \in Seq(Nat)
               /\ got[s] \in Seq(Nat) /\ sent[s] \in Nat
               /\ Len(inq[s]) \in Nat /\ Len(outq[s]) \in Nat /\ Len(got[s]) \in Nat
         /\ \A p \in {"T1", "T3"} :
               /\ p \in Proc /\ buf[p] \in Seq(Nat) /\ off[p] \in Nat
               /\ Len(buf[p]) \in Nat /\ Len(buf[p]) =< BufSize
               /\ pc[p] \in {"send", "sendDup"} => off[p] < Len(buf[p])
               /\ pc[p] \notin {"send", "sendDup"} => off[p] = 0
         /\ pc \in [Proc -> Step] /\ buf \in [Proc -> Seq(Nat)] /\ off \in [Proc -> Nat]
         /\ pipe \in Seq(Nat) /\ Len(pipe) \in Nat /\ dropped \in SUBSET Nat
         /\ Forwarded \in Nat /\ Passed("dup") \in Nat /\ Owed \in Nat
<1>1. TypeInv /\ {"client", "prod", "dup"} \subseteq Sock /\ {"T1", "T3"} \subseteq Proc
  BY Loops DEF CloneInv, OrderInv
<1>2. ASSUME NEW s \in {"client", "prod", "dup"}
      PROVE  /\ s \in Sock /\ inq[s] \in Seq(Nat) /\ outq[s] \in Seq(Nat)
             /\ got[s] \in Seq(Nat) /\ sent[s] \in Nat
  BY <1>1 DEF TypeInv, TypeOK, SockTypeOK
<1>3. \A s \in {"client", "prod", "dup"} :
         Len(inq[s]) \in Nat /\ Len(outq[s]) \in Nat /\ Len(got[s]) \in Nat
  BY <1>2, LenProperties
<1>4. /\ pc \in [Proc -> Step] /\ buf \in [Proc -> Seq(Nat)] /\ off \in [Proc -> Nat]
      /\ pipe \in Seq(Nat) /\ dropped \in SUBSET Nat
  BY <1>1 DEF TypeInv, TypeOK
<1>5. ASSUME NEW p \in {"T1", "T3"}
      PROVE  /\ p \in Proc /\ buf[p] \in Seq(Nat) /\ off[p] \in Nat
             /\ Len(buf[p]) =< BufSize
             /\ pc[p] \in {"send", "sendDup"} => off[p] < Len(buf[p])
             /\ pc[p] \notin {"send", "sendDup"} => off[p] = 0
  BY <1>1, <1>4 DEF TypeInv, TypeOK, Ready
<1>6. Len(buf["T1"]) \in Nat /\ Len(buf["T3"]) \in Nat /\ Len(pipe) \in Nat
  BY <1>4, <1>5, LenProperties
<1>7. Forwarded \in Nat /\ Passed("dup") \in Nat
  <2>1. \A i, j \in Nat : i + j \in Nat
    OBVIOUS
  <2>2. /\ Len(got["prod"]) \in Nat /\ Len(outq["prod"]) \in Nat
        /\ Len(got["dup"]) \in Nat /\ Len(outq["dup"]) \in Nat
    BY <1>3
  <2> QED  BY <2>1, <2>2, Zenon DEF Forwarded, Passed
<1>8. Owed \in Nat
  BY <1>5, <1>6 DEF Owed
<1> QED  BY <1>2, <1>3, <1>4, <1>5, <1>6, <1>7, <1>8

\* Mark splits what the client has written.
LEMMA MarkCounts ==
  ASSUME CloneInv
  PROVE  /\ Mark \in Nat /\ Mark =< sent["client"]
         /\ Working => Mark + Owed + Len(inq["client"]) = sent["client"]
<1> DEFINE n == sent["client"]
           q == Len(inq["client"])
           o == Owed
<1>1. n \in Nat /\ q \in Nat /\ o \in Nat
  BY Counts
<1>2. Working => q + o =< n
  <2>1. q =< n
    BY DEF CloneInv, OrderInv, Order, Stream, Behind
  <2>2. pc["T1"] \notin Holding => o = 0
    BY DEF Owed, Holding
  <2>3. o =< Len(buf["T1"]) /\ Len(buf["T1"]) \in Nat
    BY Counts DEF Owed
  <2>4. pc["T1"] \in Holding => q + Len(buf["T1"]) =< n
    BY DEF CloneInv, Taken
  <2> HIDE DEF n, q, o
  <2> QED  BY <1>1, <2>1, <2>2, <2>3, <2>4
<1>3. Mark = IF Working THEN n - q - o ELSE n
  BY DEF Mark
<1> HIDE DEF n, q, o
<1>4. Mark \in Nat /\ Mark =< n /\ (Working => Mark + o + q = n)
  BY <1>1, <1>2, <1>3
<1> QED  BY <1>4 DEF n, q, o

\* The parts of the copy are queues, and the copy is made of them.
LEMMA CopyParts ==
  ASSUME CloneInv
  PROVE  /\ Rest \in Seq(Nat) /\ Line \in Seq(Nat) /\ Rest \o pipe \in Seq(Nat)
         /\ Chain \in Seq(Nat)
         /\ Units(Line) = Units(got["dup"]) \cup Units(outq["dup"])
         /\ Units(Chain) = Copies
         /\ Copies \subseteq Nat
<1>1. /\ got["dup"] \in Seq(Nat) /\ outq["dup"] \in Seq(Nat) /\ pipe \in Seq(Nat)
  BY Counts
<1>2. Rest \in Seq(Nat)
  <2>1. CASE pc["T3"] = "send"
    <3> DEFINE b == buf["T3"]
               k == off["T3"]
    <3>1. /\ b \in Seq(Nat) /\ k \in Nat /\ Len(b) \in Nat
          /\ \A i \in 1 .. Len(b) : b[i] \in Nat
      BY Counts, ElementOfSeq
    <3> HIDE DEF b, k
    <3>2. k + 1 \in Int /\ Len(b) \in Int /\ \A i \in k + 1 .. Len(b) : b[i] \in Nat
      BY <3>1
    <3>3. SubSeq(b, k + 1, Len(b)) \in Seq(Nat)
      BY <3>2, SubSeqProperties
    <3> QED  BY <2>1, <3>3 DEF Rest, b, k
  <2>2. CASE pc["T3"] # "send"
    BY <2>2 DEF Rest
  <2> QED  BY <2>1, <2>2
<1>3. Line \in Seq(Nat) /\ Units(Line) = Units(got["dup"]) \cup Units(outq["dup"])
  BY <1>1, Splice DEF Line
<1>4. Rest \o pipe \in Seq(Nat) /\ Units(Rest \o pipe) = Units(Rest) \cup Units(pipe)
  BY <1>1, <1>2, Splice
<1>5. Chain \in Seq(Nat) /\ Units(Chain) = Units(Line) \cup Units(Rest \o pipe)
  BY <1>3, <1>4, Splice DEF Chain
<1>6. Copies \subseteq Nat
  <2>1. ASSUME NEW q \in Seq(Nat) PROVE Units(q) \subseteq Nat
    BY ElementOfSeq DEF Units
  <2> QED  BY <1>1, <1>2, <2>1 DEF Copies
<1>7. Units(Chain) = Copies
  BY <1>3, <1>4, <1>5 DEF Copies
<1> QED  BY <1>2, <1>3, <1>4, <1>5, <1>6, <1>7

\* A process that is running keeps every socket open.
LEMMA Alive ==
  ASSUME NEW p \in Proc, pc[p] \notin Over
  PROVE  ~Gone
BY DEF Gone

\* A step that adds nothing to the copy, nor gives up any of it.
LEMMA Keep ==
  ASSUME CloneInv, dropped' = dropped, Copies' \subseteq Copies,
         Mark' \in Nat, Mark =< Mark', sent["client"]' \in Nat, sent["client"] =< sent["client"]',
         Faithful(Line', dropped),
         Copying' => Copying /\ Chain' = Chain /\ Copies' = Copies,
         Copying' /\ Duplicating' /\ Working' => Duplicating /\ Working /\ Mark' = Mark,
         Stands("prod")' =>
            Copies = {} \/ (Stands("prod") /\ Forwarded =< Forwarded' /\ Forwarded' \in Nat)
  PROVE  Bounded' /\ Chained' /\ Followed'
<1>1. /\ Mark \in Nat /\ Copies \subseteq Nat /\ dropped \subseteq Nat
      /\ Forwarded \in Nat /\ sent["client"] \in Nat
  BY Counts, MarkCounts, CopyParts
<1>2. Bounded'
  <2>1. ASSUME NEW u \in Copies' \cup dropped' PROVE u =< Mark'
    <3>1. u \in Nat /\ u =< Mark
      BY <1>1, <2>1 DEF CloneInv, CopyInv, Bounded
    <3> QED  BY <1>1, <3>1
  <2> QED  BY <2>1 DEF Bounded
<1>3. Chained'
  BY DEF CloneInv, CopyInv, Chained
<1>4. Followed'
  <2>1. ASSUME Stands("prod")', NEW u \in Copies' PROVE u =< Forwarded'
    <3>1. u \in Copies /\ u \in Nat /\ Stands("prod") /\ Forwarded =< Forwarded' /\ Forwarded' \in Nat
      BY <1>1, <2>1
    <3>2. u =< Forwarded
      BY <3>1 DEF CloneInv, CopyInv, Followed
    <3> QED  BY <1>1, <3>1, <3>2
  <2> QED  BY <2>1 DEF Followed
<1> QED  BY <1>2, <1>3, <1>4

----------------------------------------------------------------------------
(* The steps that neither add to the copy nor move it.                     *)

\* Before T1 is forked nothing has been forwarded and there is no copy.
LEMMA Blank ==
  ASSUME CloneInv, pc["T1"] = "none"
  PROVE  Copies = {} /\ Forwarded = 0 /\ Passed("dup") = 0 /\ Early = 0
<1>1. /\ pc["T3"] = "none" /\ pipe = <<>>
      /\ got["dup"] = <<>> /\ outq["dup"] = <<>> /\ got["prod"] = <<>> /\ outq["prod"] = <<>>
  BY DEF CloneInv, Control
<1>2. Len(<<>>) = 0 /\ 0 + 0 = 0 /\ Units(<<>>) = {}
  BY DEF Units
<1>3. Forwarded = 0 /\ Passed("dup") = 0
  BY <1>1, <1>2, Zenon DEF Forwarded, Passed
<1>4. Rest = <<>>
  BY <1>1 DEF Rest
<1> QED  BY <1>1, <1>2, <1>3, <1>4 DEF Copies, Early

\* A step that T1 does not feel, nor what it has handed to the clone.
LEMMA CopyQuiet ==
  ASSUME CloneInv,
         UNCHANGED <<got["dup"], outq["dup"], inq["client"], sent["client"], mode, pipe, dropped,
                     pc["T1"], buf["T1"], off["T1"], Rest>>,
         pc["T3"] = "killed" => pc'["T3"] = "killed",
         pc["T1"] = "none" \/ Stands("prod")' => Forwarded' = Forwarded,
         \/ pc["T1"] = "none"
         \/ (Stands("prod")' => Stands("prod")) /\ (Stands("dup")' => Stands("dup"))
  PROVE  Taken' /\ CopyInv'
<1>1. Line' = Line /\ Chain' = Chain /\ Copies' = Copies
  BY DEF Line, Chain, Copies
<1>2. Owed' = Owed /\ Early' = Early /\ Working' = Working /\ Duplicating' = Duplicating
  BY DEF Owed, Early, Working, Duplicating, Synch, Asynch
<1>3. Mark' = Mark
  BY <1>2 DEF Mark
<1>4. Copying' => Copying
  BY DEF Copying
<1>5. Faithful(Line', dropped)
  BY <1>1 DEF CloneInv, CopyInv, Chained
<1>6. /\ Mark \in Nat /\ Mark =< Mark' /\ sent["client"]' \in Nat
      /\ sent["client"] =< sent["client"]' /\ Forwarded \in Nat
  <2>1. \A i \in Nat : i =< i
    OBVIOUS
  <2> QED  BY <1>3, <2>1, Counts, MarkCounts
<1>7. Stands("prod")' =>
         Copies = {} \/ (Stands("prod") /\ Forwarded =< Forwarded' /\ Forwarded' \in Nat)
  BY <1>6, Blank
<1>8. Bounded' /\ Chained' /\ Followed'
  BY <1>1, <1>2, <1>3, <1>4, <1>5, <1>6, <1>7, Keep
<1>9. Taken'
  BY DEF CloneInv, Taken
<1>10. Lag'
  <2>1. Passed("dup")' = Passed("dup") /\ Synch' = Synch
    BY DEF Passed, Synch
  <2>2. CASE pc["T1"] = "none"
    BY <1>2, <2>1, <2>2, Blank DEF Lag
  <2>3. CASE pc["T1"] # "none"
    BY <1>2, <2>1, <2>3 DEF CloneInv, CopyInv, Lag
  <2> QED  BY <2>2, <2>3
<1> QED  BY <1>8, <1>9, <1>10 DEF CopyInv

\* A step of T1 that adds nothing to the copy: it reads, sends to production, fails
\* to send, or ends.
LEMMA CopyT1 ==
  ASSUME CloneInv, pc["T1"] \notin Over,
         UNCHANGED <<got, outq["dup"], sent, mode, pipe, dropped, pc["T3"], buf["T3"], off["T3"]>>,
         pc'["T1"] # "none",
         Writable("prod")' => Writable("prod"), Writable("dup")' => Writable("dup"),
         Mark' \in Nat, Mark =< Mark',
         Copying' /\ Duplicating /\ Working' => Working /\ Mark' = Mark,
         Forwarded' \in Nat, Forwarded =< Forwarded'
  PROVE  Bounded' /\ Chained' /\ Followed'
<1>1. ~Gone
  BY Alive, Counts
<1>2. (Stands("prod")' => Stands("prod")) /\ (Stands("dup")' => Stands("dup"))
  BY <1>1 DEF Stands
<1>3. Rest' = Rest
  BY DEF Rest
<1>4. Line' = Line /\ Chain' = Chain /\ Copies' = Copies
  BY <1>3 DEF Line, Chain, Copies
<1>5. Copying' => Copying
  BY <1>2 DEF Copying
<1>6. Duplicating' = Duplicating
  BY DEF Duplicating, Synch, Asynch
<1>7. Faithful(Line', dropped)
  BY <1>4 DEF CloneInv, CopyInv, Chained
<1>8. /\ sent["client"]' \in Nat /\ sent["client"] =< sent["client"]'
  <2>1. \A i \in Nat : i =< i
    OBVIOUS
  <2> QED  BY <2>1, Counts
<1> QED  BY <1>2, <1>4, <1>5, <1>6, <1>7, <1>8, Keep

\* T1 reads from the client: what it takes comes next.
LEMMA CopyRecv ==
  ASSUME CloneInv, Recv("T1", "client", "send", "shut1"), UNCHANGED <<mode, pipeVars>>
  PROVE  Taken' /\ CopyInv'
<1>1. /\ pc["T1"] = "recv" /\ off["T1"] = 0 /\ off' = off /\ "T1" \in Proc /\ "T3" \in Proc
      /\ pc \in [Proc -> Step] /\ buf \in [Proc -> Seq(Nat)]
      /\ inq \in [Sock -> Seq(Nat)] /\ "client" \in Sock
  BY Counts DEF Recv, CloneInv, OrderInv, TypeInv, TypeOK, SockTypeOK
<1>2. UNCHANGED <<got, outq, sent, shut, peer>>
  BY DEF Recv, Receive, sockVars
<1>3. Writable("prod")' = Writable("prod") /\ Writable("dup")' = Writable("dup")
  BY <1>2 DEF Writable
<1>4. Forwarded' = Forwarded /\ Passed("dup")' = Passed("dup") /\ Synch' = Synch
  BY <1>2 DEF Forwarded, Passed, Synch
<1>5. ~Gone
  BY <1>1, Alive DEF Over
<1>6. UNCHANGED <<pc["T3"], buf["T3"], off["T3"]>>
  BY <1>1 DEF Recv, Goto
<1>7. Early = 0
  BY <1>1 DEF Early
<1> DEFINE q == inq["client"]
           n == sent["client"]
<1>8. /\ n \in Nat /\ Len(q) \in Nat /\ q \in Seq(Nat) /\ Forwarded \in Nat
      /\ Mark \in Nat /\ Mark + Len(q) = n
  <2>1. Working /\ Owed = 0
    BY <1>1 DEF Working, Owed
  <2>2. Mark + 0 + Len(q) = n /\ Mark \in Nat
    BY <2>1, MarkCounts
  <2>3. n \in Nat /\ Len(q) \in Nat /\ q \in Seq(Nat) /\ Forwarded \in Nat
    BY Counts
  <2> HIDE DEF n, q
  <2> QED  BY <2>2, <2>3
<1>9. ASSUME Early' = 0 PROVE Lag'
  <2>1. (Stands("prod")' => Stands("prod")) /\ (Stands("dup")' => Stands("dup"))
    BY <1>3, <1>5 DEF Stands
  <2> QED  BY <1>4, <1>7, <1>9, <2>1 DEF Lag, CloneInv, CopyInv
<1>10. CASE /\ \E k \in 1 .. BufSize :
                  /\ k =< Len(inq["client"])
                  /\ buf' = [buf EXCEPT !["T1"] = SubSeq(inq["client"], 1, k)]
                  /\ Receive("client", k)
            /\ Goto("T1", "send")
  <2>1. PICK k \in 1 .. BufSize :
           /\ k =< Len(q)
           /\ buf' = [buf EXCEPT !["T1"] = SubSeq(q, 1, k)]
           /\ Receive("client", k)
    BY <1>10
  <2> DEFINE b == buf'["T1"]
             r == inq'["client"]
  <2>2. b = SubSeq(q, 1, k) /\ r = SubSeq(q, k + 1, Len(q)) /\ k \in 1 .. Len(q)
    BY <1>1, <1>8, <2>1, BufSizeAssumption DEF Receive
  <2>3. /\ Len(b) = k /\ \A i \in 1 .. k : b[i] = q[i]
        /\ Len(r) = Len(q) - k
    BY <1>8, <2>2, Cut, SMTT(30)
  <2>4. \A i \in 1 .. Len(q) : q[i] = 0 + n - Len(q) + i
    BY SockAssumption DEF CloneInv, OrderInv, Order, Stream, Behind
  <2>5. pc'["T1"] = "send" /\ sent'["client"] = n /\ off'["T1"] = 0
    BY <1>1, <1>2, <1>10 DEF Goto
  <2> HIDE DEF q, n, b, r
  <2>6. /\ Len(r) + Len(b) =< n /\ n - Len(r) - Len(b) = Mark /\ k \in Nat
        /\ \A i \in 1 .. k : q[i] = n - (Len(q) - k) - k + i
    <3>1. /\ k \in Nat /\ k =< Len(q) /\ (Len(q) - k) + k = Len(q) /\ n - Len(q) = Mark
          /\ n - (Len(q) - k) - k = n - Len(q) /\ Len(q) =< n /\ 0 + n - Len(q) = n - Len(q)
      BY <1>8, <2>2
    <3>2. \A i \in 1 .. k : i \in 1 .. Len(q)
      BY <1>8, <3>1
    <3> QED  BY <2>3, <2>4, <3>1, <3>2
  <2>7. Taken'
    <3>1. \A i \in 1 .. Len(b) : b[i] = n - Len(r) - Len(b) + i
      BY <2>3, <2>6
    <3> QED  BY <2>5, <2>6, <3>1 DEF Taken, b, r
  <2>8. Mark' = Mark /\ Working' /\ Working
    BY <1>1, <2>5, <2>6 DEF Mark, Owed, Working, Holding, b, r, n
  <2>9. Lag'
    BY <1>9, <2>5 DEF Early
  <2>10. Mark =< Mark' /\ Forwarded =< Forwarded' /\ pc'["T1"] # "none" /\ pc["T1"] \notin Over
    BY <1>1, <1>4, <1>8, <2>5, <2>8 DEF Over
  <2>11. Bounded' /\ Chained' /\ Followed'
    BY <1>2, <1>3, <1>4, <1>6, <1>8, <2>8, <2>10, CopyT1 DEF pipeVars
  <2> QED  BY <2>7, <2>9, <2>11 DEF CopyInv
<1>11. CASE AtEnd("client") /\ Goto("T1", "shut1") /\ UNCHANGED <<sockVars, buf>>
  <2>1. pc'["T1"] = "shut1" /\ sent'["client"] = n
    BY <1>1, <1>2, <1>11 DEF Goto
  <2>2. ~Working' /\ Taken' /\ Early' = 0
    BY <2>1 DEF Working, Holding, Taken, Early
  <2>3. Mark' = n
    BY <2>1, <2>2 DEF Mark
  <2> HIDE DEF n, q
  <2>4. /\ Mark' \in Nat /\ Mark =< Mark' /\ Forwarded =< Forwarded'
        /\ pc'["T1"] # "none" /\ pc["T1"] \notin Over
    BY <1>1, <1>4, <1>8, <2>1, <2>3 DEF Over
  <2>5. Bounded' /\ Chained' /\ Followed'
    BY <1>2, <1>3, <1>4, <1>6, <1>8, <2>2, <2>4, CopyT1 DEF pipeVars
  <2> QED  BY <1>9, <2>2, <2>5 DEF CopyInv
<1> QED  BY <1>10, <1>11 DEF Recv

\* What a send() of T1 does to T1 and to the sockets but the one it sends to.
LEMMA SendT1 ==
  ASSUME CloneInv, NEW at \in {"send", "sendDup"}, NEW s \in {"prod", "dup"},
         NEW next \in {"recv", "sendDup", "write"}, next # at, Send("T1", at, s, next)
  PROVE  /\ pc["T1"] = at /\ pc["T1"] \notin Over /\ ~Gone
         /\ UNCHANGED <<inq, got, sent, shut, peer, pc["T3"], buf["T3"], off["T3"]>>
         /\ \A x \in Sock : x # s => outq'[x] = outq[x]
         /\ Writable("prod")' = Writable("prod") /\ Writable("dup")' = Writable("dup")
         /\ \/ /\ pc'["T1"] = next /\ off'["T1"] = 0
               /\ next # "recv" => buf'["T1"] = buf["T1"]
               /\ ~Writable(s) \/ off["T1"] + 1 = Len(buf["T1"])
            \/ /\ pc'["T1"] = at /\ off'["T1"] = off["T1"] + 1 /\ buf'["T1"] = buf["T1"]
               /\ Writable(s) /\ off["T1"] + 1 # Len(buf["T1"])
            \/ pc'["T1"] = "killed" /\ ~Writable(s)
         /\ \/ ~Writable(s) /\ outq' = outq
            \/ Transmit(s, NextUnit("T1"))
<1>1. /\ "T1" \in Proc /\ "T3" \in Proc /\ {"client", "prod", "dup"} \subseteq Sock
      /\ pc \in [Proc -> Step] /\ buf \in [Proc -> Seq(Nat)] /\ off \in [Proc -> Nat]
      /\ outq \in [Sock -> Seq(Nat)]
  BY Counts DEF CloneInv, OrderInv, TypeInv, TypeOK, SockTypeOK
<1>2. pc["T1"] = at /\ pc["T1"] \notin Over
  BY DEF Send, Over
<1>3. UNCHANGED <<inq, got, sent, shut, peer>>
  BY DEF Send, Transmit, sockVars
<1>4. Writable("prod")' = Writable("prod") /\ Writable("dup")' = Writable("dup")
  BY <1>3 DEF Writable
<1>5. UNCHANGED <<pc["T3"], buf["T3"], off["T3"]>>
  BY <1>1 DEF Send, Goto, Drop
<1>6. ~Gone
  BY <1>1, <1>2, Alive
<1>7. CASE Transmit(s, NextUnit("T1")) /\ LastUnit("T1")
  <2>1. off' = [off EXCEPT !["T1"] = 0] /\ Goto("T1", next) /\ Drop("T1", next)
        /\ outq' = [outq EXCEPT ![s] = Append(@, NextUnit("T1"))]
    BY <1>2, <1>7 DEF Send, CutShort, Transmit, Broken, Writable
  <2> QED  BY <1>1, <1>2, <1>3, <1>4, <1>5, <1>6, <1>7, <2>1 DEF Goto, Drop, LastUnit
<1>8. CASE Transmit(s, NextUnit("T1")) /\ ~LastUnit("T1")
  <2>1. off' = [off EXCEPT !["T1"] = @ + 1] /\ UNCHANGED <<pc, buf>>
        /\ outq' = [outq EXCEPT ![s] = Append(@, NextUnit("T1"))] /\ Writable(s)
    BY <1>2, <1>8 DEF Send, CutShort, Transmit, Broken, Writable
  <2> QED  BY <1>1, <1>2, <1>3, <1>4, <1>5, <1>6, <1>8, <2>1 DEF LastUnit
<1>9. CASE UNCHANGED sockVars /\ ~Writable(s)
           /\ off' = [off EXCEPT !["T1"] = 0]
           /\ \/ Goto("T1", next) /\ Drop("T1", next)
              \/ Goto("T1", "killed") /\ Drop("T1", "killed")
  BY <1>1, <1>2, <1>3, <1>4, <1>5, <1>6, <1>9 DEF Goto, Drop, sockVars
<1> QED  BY <1>7, <1>8, <1>9 DEF Send, CutShort, Broken, Writable

\* A send() to production forwards a unit, or production is lost.
LEMMA Forwards ==
  ASSUME CloneInv, NEW next \in {"recv", "sendDup", "write"}, Send("T1", "send", "prod", next)
  PROVE  \/ ~Writable("prod") /\ Forwarded' = Forwarded
         \/ Writable("prod") /\ Forwarded' = Forwarded + 1
<1> DEFINE b == buf["T1"]
           k == off["T1"]
           m == Len(b)
<1>1. \/ ~Writable("prod") /\ outq' = outq
      \/ Transmit("prod", NextUnit("T1"))
  BY SendT1
<1>2. got' = got /\ pc["T1"] = "send"
  BY SendT1
<1>3. CASE ~Writable("prod") /\ outq' = outq
  BY <1>2, <1>3 DEF Forwarded
<1>4. CASE Transmit("prod", NextUnit("T1"))
  <2>1. outq'["prod"] = Append(outq["prod"], NextUnit("T1")) /\ Writable("prod")
    BY <1>4, Counts DEF Transmit, CloneInv, OrderInv, TypeInv, TypeOK, SockTypeOK
  <2>2. outq["prod"] \in Seq(Nat) /\ Len(outq["prod"]) \in Nat /\ Len(got["prod"]) \in Nat
    BY Counts
  <2>3. NextUnit("T1") \in Nat
    <3>1. b \in Seq(Nat)
      BY Counts
    <3>2. k \in Nat /\ m \in Nat /\ k < m
      BY <1>2, Counts
    <3>3. k + 1 \in 1 .. m
      <4> HIDE DEF k, m
      <4> QED  BY <3>2
    <3> QED  BY <3>1, <3>3, ElementOfSeq DEF NextUnit
  <2>4. Len(outq'["prod"]) = Len(outq["prod"]) + 1
    BY <2>1, <2>2, <2>3, AppendProperties
  <2>5. \A i, j \in Nat : i + (j + 1) = (i + j) + 1
    OBVIOUS
  <2>6. Forwarded' = Len(got["prod"]) + Len(outq'["prod"])
    BY <1>2 DEF Forwarded
  <2>7. Forwarded' = Forwarded + 1
    BY <2>2, <2>4, <2>5, <2>6, Zenon DEF Forwarded
  <2> QED  BY <2>1, <2>7
<1> QED  BY <1>1, <1>3, <1>4

\* T1 sends to production, which gets ahead of the clone.
LEMMA CopySend ==
  ASSUME CloneInv, NEW next \in {"recv", "sendDup", "write"},
         next = "recv" => ~Duplicating, Synch => next = "sendDup",
         Send("T1", "send", "prod", next), UNCHANGED <<mode, pipeVars>>
  PROVE  Taken' /\ CopyInv'
<1> DEFINE b == buf["T1"]
           k == off["T1"]
           m == Len(b)
           f == Forwarded
           n == sent["client"]
           q == Len(inq["client"])
<1>1. /\ pc["T1"] = "send" /\ pc["T1"] \notin Over /\ ~Gone
      /\ UNCHANGED <<inq, got, sent, shut, peer, pc["T3"], buf["T3"], off["T3"]>>
      /\ \A x \in Sock : x # "prod" => outq'[x] = outq[x]
      /\ Writable("prod")' = Writable("prod") /\ Writable("dup")' = Writable("dup")
      /\ \/ /\ pc'["T1"] = next /\ off'["T1"] = 0
            /\ next # "recv" => buf'["T1"] = b
            /\ ~Writable("prod") \/ k + 1 = m
         \/ /\ pc'["T1"] = "send" /\ off'["T1"] = k + 1 /\ buf'["T1"] = b
            /\ Writable("prod") /\ k + 1 # m
         \/ pc'["T1"] = "killed" /\ ~Writable("prod")
      /\ \/ ~Writable("prod") /\ outq' = outq
         \/ Transmit("prod", NextUnit("T1"))
  BY SendT1
<1>2. /\ k \in Nat /\ m \in Nat /\ k < m /\ f \in Nat /\ n \in Nat /\ q \in Nat
      /\ Mark \in Nat /\ Mark + m + q = n
  <2>1. Working /\ Owed = m
    BY <1>1 DEF Working, Owed, Holding
  <2>2. k \in Nat /\ m \in Nat /\ k < m /\ f \in Nat /\ n \in Nat /\ q \in Nat
    BY <1>1, Counts
  <2> QED  BY <2>1, <2>2, MarkCounts
<1>3. "dup" \in Sock /\ "dup" # "prod" /\ outq'["dup"] = outq["dup"]
  BY <1>1, Counts
<1>4. Passed("dup")' = Passed("dup") /\ Synch' = Synch
  BY <1>1, <1>3 DEF Passed, Synch
<1>5. \/ ~Writable("prod") /\ f' = f
      \/ f' = f + 1
  BY Forwards
<1>6. Taken'
  <2>1. pc'["T1"] \in Holding => buf'["T1"] = b
    BY <1>1 DEF Holding
  <2> QED  BY <1>1, <2>1 DEF CloneInv, Taken, Holding
<1>7. /\ Mark' \in Nat /\ Mark =< Mark'
      /\ Duplicating /\ Working' => Mark' = Mark
  <2>1. CASE ~Working'
    <3>1. Mark' = n
      BY <1>1, <2>1 DEF Mark
    <3> HIDE DEF n, m, q
    <3> QED  BY <1>2, <2>1, <3>1
  <2>2. CASE pc'["T1"] = "recv"
    <3>1. Working' /\ Owed' = 0 /\ ~Duplicating
      BY <1>1, <2>2 DEF Working, Owed
    <3>2. Mark' = n - q - 0
      BY <1>1, <3>1 DEF Mark
    <3> HIDE DEF n, m, q
    <3> QED  BY <1>2, <3>1, <3>2
  <2>3. CASE Working' /\ pc'["T1"] # "recv"
    <3>1. pc'["T1"] # "killed"
      BY <2>3 DEF Working, Holding
    <3>2. Owed' = m \/ Owed' = m - 0
      <4>1. CASE pc'["T1"] = "send" /\ buf'["T1"] = b
        BY <4>1 DEF Owed
      <4>2. CASE pc'["T1"] = next /\ off'["T1"] = 0 /\ (next # "recv" => buf'["T1"] = b)
        <5>1. CASE next = "sendDup"
          BY <4>2, <5>1 DEF Owed
        <5>2. CASE next = "write"
          BY <4>2, <5>2 DEF Owed
        <5> QED  BY <2>3, <4>2, <5>1, <5>2
      <4> QED  BY <1>1, <3>1, <4>1, <4>2
    <3>3. Mark' = n - q - Owed'
      BY <1>1, <2>3 DEF Mark
    <3> HIDE DEF n, m, q
    <3> QED  BY <1>2, <3>2, <3>3
  <2> QED  BY <2>1, <2>2, <2>3
<1>8. Lag'
  <2>1. CASE ~Writable("prod")
    BY <1>1, <2>1 DEF Lag, Stands
  <2>2. CASE Writable("prod") /\ Synch
    <3>1. Early = k /\ f' = f + 1
      BY <1>1, <1>5, <2>2 DEF Early
    <3>2. Early' = k + 1
      <4>1. CASE pc'["T1"] = "send" /\ off'["T1"] = k + 1
        BY <4>1 DEF Early
      <4>2. CASE pc'["T1"] = "sendDup" /\ off'["T1"] = 0 /\ buf'["T1"] = b /\ k + 1 = m
        <5>1. Early' = m - 0
          BY <4>2 DEF Early
        <5> HIDE DEF m, k, b
        <5> QED  BY <1>2, <4>2, <5>1
      <4> QED  BY <1>1, <2>2, <4>1, <4>2
    <3>3. Stands("prod")' /\ Stands("dup")' => f = Passed("dup") + k
      BY <1>1, <2>2, <3>1 DEF Stands, Lag, CloneInv, CopyInv
    <3>4. Passed("dup") \in Nat /\ \A i \in Nat : (i + k) + 1 = i + (k + 1)
      BY <1>2, Counts
    <3> HIDE DEF f, k
    <3> QED  BY <1>4, <3>1, <3>2, <3>3, <3>4 DEF Lag, f
  <2> QED  BY <1>4, <2>1, <2>2 DEF Lag
<1>9. f' \in Nat /\ f =< f'
  <2> HIDE DEF f
  <2> QED  BY <1>2, <1>5
<1>10. Working /\ pc'["T1"] # "none"
  BY <1>1 DEF Working, Holding
<1>11. Bounded' /\ Chained' /\ Followed'
  BY <1>1, <1>3, <1>7, <1>9, <1>10, CopyT1 DEF pipeVars
<1> QED  BY <1>6, <1>8, <1>11 DEF CopyInv

\* The end of a loop of T1: nothing more comes.
LEMMA CopyShut ==
  ASSUME CloneInv, NEW at \in {"shut1", "shut2", "shut3"},
         NEW next \in {"shut2", "shut3", "done"}, NEW s \in Sock,
         Shut("T1", at, s, next), UNCHANGED <<mode, pipeVars>>
  PROVE  Taken' /\ CopyInv'
<1>1. /\ "T1" \in Proc /\ "T3" \in Proc /\ {"client", "prod", "dup"} \subseteq Sock
      /\ pc \in [Proc -> Step] /\ shut \in [Sock -> BOOLEAN]
  BY Counts DEF CloneInv, OrderInv, TypeInv, TypeOK, SockTypeOK
<1>2. /\ pc["T1"] = at /\ pc'["T1"] = next /\ pc'["T3"] = pc["T3"]
      /\ UNCHANGED <<inq, outq, got, sent, peer, buf, off>>
      /\ shut' = [shut EXCEPT ![s] = TRUE]
  BY <1>1 DEF Shut, ShutDown, Goto
<1>3. (Writable("prod")' => Writable("prod")) /\ (Writable("dup")' => Writable("dup"))
  BY <1>1, <1>2 DEF Writable
<1>4. ~Working /\ ~Working' /\ Early = 0 /\ Early' = 0 /\ Taken' /\ pc["T1"] \notin Over
  BY <1>2 DEF Working, Holding, Early, Taken, Over
<1>5. ~Gone
  BY <1>1, <1>4, Alive
<1>6. Forwarded' = Forwarded /\ Passed("dup")' = Passed("dup") /\ Synch' = Synch
  BY <1>2 DEF Forwarded, Passed, Synch
<1>7. Lag'
  BY <1>3, <1>4, <1>5, <1>6 DEF Lag, Stands, CloneInv, CopyInv
<1>8. Mark' = Mark
  BY <1>2, <1>4 DEF Mark
<1>9. Mark \in Nat /\ Mark =< Mark /\ Forwarded \in Nat /\ Forwarded =< Forwarded
  <2>1. \A i \in Nat : i =< i
    OBVIOUS
  <2> QED  BY <2>1, Counts, MarkCounts
<1>10. Bounded' /\ Chained' /\ Followed'
  BY <1>2, <1>3, <1>4, <1>6, <1>8, <1>9, CopyT1 DEF pipeVars
<1> QED  BY <1>4, <1>7, <1>10 DEF CopyInv

----------------------------------------------------------------------------
(* The steps of T1 that add to the copy or give units up.                  *)

\* The numbers that follow Mark.
LEMMA After ==
  ASSUME NEW b \in Seq(Nat), NEW m \in Nat, \A i \in 1 .. Len(b) : b[i] = m + i
  PROVE  /\ \A u \in Units(b) : u \in Nat /\ u > m /\ u =< m + Len(b)
         /\ \A u \in 1 .. m + Len(b) : u =< m \/ u \in Units(b)
<1>1. Len(b) \in Nat
  BY LenProperties
<1>2. ASSUME NEW u \in Units(b) PROVE u \in Nat /\ u > m /\ u =< m + Len(b)
  <2>1. PICK i \in 1 .. Len(b) : u = b[i]
    BY <1>2 DEF Units
  <2> QED  BY <1>1, <2>1
<1>3. ASSUME NEW u \in 1 .. m + Len(b), u > m PROVE u \in Units(b)
  <2>1. u - m \in 1 .. Len(b) /\ m + (u - m) = u
    BY <1>1, <1>3
  <2>2. b[u - m] = u
    BY <2>1
  <2> QED  BY <2>1, <2>2 DEF Units
<1>4. \A u \in 1 .. m + Len(b) : u =< m \/ u > m
  BY <1>1
<1> QED  BY <1>2, <1>3, <1>4

\* The next units join the copy: at its end, or, when all of it is at the clone, there.
LEMMA CopyGrows ==
  ASSUME CloneInv, NEW b \in Seq(Nat), \A i \in 1 .. Len(b) : b[i] = Mark + i,
         Mark' = Mark + Len(b), UNCHANGED <<dropped, sent["client"]>>, Duplicating, Working,
         Chain' = Chain \o b, Copies' = Copies \cup Units(b),
         Line' = Line \/ (Copying /\ Line' = Chain \o b),
         Copying' => Copying, Forwarded' \in Nat, Stands("prod")' => Mark' =< Forwarded'
  PROVE  Bounded' /\ Chained' /\ Followed'
<1>1. /\ Mark \in Nat /\ Copies \subseteq Nat /\ dropped \subseteq Nat /\ Chain \in Seq(Nat)
      /\ Len(b) \in Nat /\ Mark' \in Nat
  <2>1. Len(b) \in Nat /\ \A i, j \in Nat : i + j \in Nat
    BY LenProperties
  <2>2. Mark \in Nat
    BY MarkCounts
  <2> QED  BY <2>1, <2>2, Counts, CopyParts
<1>2. /\ \A u \in Units(b) : u \in Nat /\ u > Mark /\ u =< Mark + Len(b)
      /\ \A u \in 1 .. Mark + Len(b) : u =< Mark \/ u \in Units(b)
  BY <1>1, After
<1>3. \A u \in Copies' \cup dropped' : u \in Nat /\ u =< Mark'
  <2>1. \A u \in Copies \cup dropped : u \in Nat /\ u =< Mark
    BY <1>1 DEF CloneInv, CopyInv, Bounded
  <2> QED  BY <1>1, <1>2, <2>1
<1>4. Bounded'
  BY <1>3 DEF Bounded
<1>5. Followed'
  <2>1. ASSUME Stands("prod")', NEW u \in Copies' PROVE u =< Forwarded'
    <3>1. u \in Nat /\ u =< Mark' /\ Mark' =< Forwarded'
      BY <1>3, <2>1
    <3> QED  BY <1>1, <3>1
  <2> QED  BY <2>1 DEF Followed
<1>7. ASSUME Copying
      PROVE  /\ Faithful(Chain \o b, dropped)
             /\ \A u \in 1 .. Mark + Len(b) : u \in dropped \cup Copies'
  <2>1. /\ Faithful(Chain, dropped) /\ \A u \in 1 .. Mark : u \in dropped \cup Copies
        /\ \A u \in Copies \cup dropped : u \in Nat /\ u =< Mark
    BY <1>1, <1>7 DEF CloneInv, CopyInv, Chained, Bounded
  <2>2. Units(Chain) = Copies
    BY CopyParts
  <2>3. Faithful(Chain \o b, dropped)
    BY <1>1, <2>1, <2>2, FaithfulExtend
  <2>4. ASSUME NEW u \in 1 .. Mark + Len(b) PROVE u \in dropped \cup Copies'
    <3>1. CASE u =< Mark
      <4>1. u \in 1 .. Mark
        BY <1>1, <2>4, <3>1
      <4> QED  BY <2>1, <4>1
    <3>2. CASE u \in Units(b)
      BY <3>2
    <3> QED  BY <1>2, <2>4, <3>1, <3>2
  <2> QED  BY <2>3, <2>4
<1>8. Chained'
  <2>1. Faithful(Line', dropped')
    BY <1>7 DEF CloneInv, CopyInv, Chained
  <2>2. Copying' => Faithful(Chain', dropped')
    BY <1>7
  <2>3. Copying' => \A u \in 1 .. Mark' : u \in dropped' \cup Copies'
    BY <1>7
  <2> QED  BY <2>1, <2>2, <2>3 DEF Chained
<1> QED  BY <1>4, <1>5, <1>8

\* The next units are given up.
LEMMA CopyGivesUp ==
  ASSUME CloneInv, NEW b \in Seq(Nat), \A i \in 1 .. Len(b) : b[i] = Mark + i,
         Mark' = Mark + Len(b), dropped' = dropped \cup Units(b),
         UNCHANGED <<sent["client"], pipe, Line, Chain, Copies>>, Copying' => Copying,
         Duplicating, Working,
         Forwarded' \in Nat, Stands("prod")' => Mark' =< Forwarded'
  PROVE  Bounded' /\ Chained' /\ Followed'
<1>1. /\ Mark \in Nat /\ Copies \subseteq Nat /\ dropped \subseteq Nat
      /\ Chain \in Seq(Nat) /\ Line \in Seq(Nat)
      /\ Len(b) \in Nat /\ Mark' \in Nat
  <2>1. Len(b) \in Nat /\ \A i, j \in Nat : i + j \in Nat
    BY LenProperties
  <2>2. Mark \in Nat
    BY MarkCounts
  <2> QED  BY <2>1, <2>2, Counts, CopyParts
<1>2. /\ \A u \in Units(b) : u \in Nat /\ u > Mark /\ u =< Mark + Len(b)
      /\ \A u \in 1 .. Mark + Len(b) : u =< Mark \/ u \in Units(b)
  BY <1>1, After
<1>3. \A u \in Copies \cup dropped : u \in Nat /\ u =< Mark
  BY <1>1 DEF CloneInv, CopyInv, Bounded
<1>4. \A u \in Copies' \cup dropped' : u \in Nat /\ u =< Mark'
  BY <1>1, <1>2, <1>3
<1>5. Bounded'
  BY <1>4 DEF Bounded
<1>6. Followed'
  <2>1. ASSUME Stands("prod")', NEW u \in Copies' PROVE u =< Forwarded'
    <3>1. u \in Nat /\ u =< Mark' /\ Mark' =< Forwarded'
      BY <1>4, <2>1
    <3> QED  BY <1>1, <3>1
  <2> QED  BY <2>1 DEF Followed
<1>8. ASSUME NEW q \in Seq(Nat), Units(q) \subseteq Copies, Faithful(q, dropped)
      PROVE  Faithful(q, dropped')
  <2>1. Units(b) \in SUBSET Nat /\ \A u \in Units(q) : u =< Mark
    BY <1>2, <1>3, <1>8
  <2>2. \A u \in Units(b) : u > Mark
    BY <1>2
  <2>3. Faithful(q, dropped \cup Units(b))
    BY <1>1, <1>8, <2>1, <2>2, FaithfulDrop
  <2> QED  BY <2>3
<1>9. Units(Line) \subseteq Copies /\ Units(Chain) \subseteq Copies
  BY CopyParts DEF Copies
<1>10. Chained'
  <2>1. Faithful(Line', dropped')
    BY <1>1, <1>8, <1>9 DEF CloneInv, CopyInv, Chained
  <2>2. Copying' => Faithful(Chain', dropped')
    BY <1>1, <1>8, <1>9 DEF CloneInv, CopyInv, Chained
  <2>3. ASSUME Copying, NEW u \in 1 .. Mark + Len(b) PROVE u \in dropped' \cup Copies
    <3>1. CASE u =< Mark
      <4>1. u \in 1 .. Mark
        BY <1>1, <2>3, <3>1
      <4> QED  BY <2>3, <4>1 DEF CloneInv, CopyInv, Chained
    <3>2. CASE u \in Units(b)
      BY <3>2
    <3> QED  BY <1>2, <2>3, <3>1, <3>2
  <2> QED  BY <2>1, <2>2, <2>3 DEF Chained
<1> QED  BY <1>5, <1>6, <1>10

\* T1 sends to the clone what production has got.
LEMMA CopySendDup ==
  ASSUME CloneInv, Synch, Send("T1", "sendDup", "dup", "recv"), UNCHANGED <<mode, pipeVars>>
  PROVE  Taken' /\ CopyInv'
<1> DEFINE b == buf["T1"]
           k == off["T1"]
           m == Len(b)
           f == Forwarded
           n == sent["client"]
           q == Len(inq["client"])
<1>1. /\ pc["T1"] = "sendDup" /\ pc["T1"] \notin Over /\ ~Gone
      /\ UNCHANGED <<inq, got, sent, shut, peer, pc["T3"], buf["T3"], off["T3"]>>
      /\ \A x \in Sock : x # "dup" => outq'[x] = outq[x]
      /\ Writable("prod")' = Writable("prod") /\ Writable("dup")' = Writable("dup")
      /\ \/ /\ pc'["T1"] = "recv" /\ off'["T1"] = 0
            /\ ~Writable("dup") \/ k + 1 = m
         \/ /\ pc'["T1"] = "sendDup" /\ off'["T1"] = k + 1 /\ buf'["T1"] = b
            /\ Writable("dup") /\ k + 1 # m
         \/ pc'["T1"] = "killed" /\ ~Writable("dup")
      /\ \/ ~Writable("dup") /\ outq' = outq
         \/ Transmit("dup", NextUnit("T1"))
  BY SendT1
<1>2. /\ k \in Nat /\ m \in Nat /\ k < m /\ f \in Nat /\ n \in Nat /\ q \in Nat
      /\ Mark \in Nat /\ Mark + (m - k) + q = n
  <2>1. Working /\ Owed = m - k
    BY <1>1 DEF Working, Owed, Holding
  <2>2. k \in Nat /\ m \in Nat /\ k < m /\ f \in Nat /\ n \in Nat /\ q \in Nat
    BY <1>1, Counts
  <2> QED  BY <2>1, <2>2, MarkCounts
<1>3. "prod" \in Sock /\ "dup" \in Sock /\ outq'["prod"] = outq["prod"] /\ Duplicating
  BY <1>1, Counts DEF Duplicating
<1>4. f' = f /\ Synch' = Synch
  BY <1>1, <1>3 DEF Forwarded, Synch
<1>5. Taken'
  <2>1. pc'["T1"] \in Holding => pc'["T1"] = "sendDup" /\ buf'["T1"] = b
    BY <1>1 DEF Holding
  <2> QED  BY <1>1, <2>1 DEF CloneInv, Taken, Holding
<1>6. CASE ~Writable("dup")
  <2>1. outq'["dup"] = outq["dup"]
    BY <1>1, <1>6 DEF Transmit
  <2>2. ~Copying' /\ ~Stands("dup")' /\ pc'["T1"] # "none"
    BY <1>1, <1>6 DEF Copying, Stands
  <2>3. Mark' = n - q \/ Mark' = n
    <3>1. CASE pc'["T1"] = "recv"
      <4>1. Working' /\ Owed' = 0
        BY <3>1 DEF Working, Owed
      <4>2. Mark' = n - q - 0
        BY <1>1, <4>1 DEF Mark
      <4> HIDE DEF n, q
      <4> QED  BY <1>2, <4>2
    <3>2. CASE pc'["T1"] = "killed"
      <4>1. ~Working'
        BY <3>2 DEF Working, Holding
      <4> QED  BY <1>1, <4>1 DEF Mark
    <3> QED  BY <1>1, <1>6, <3>1, <3>2
  <2>4. Mark' \in Nat /\ Mark =< Mark' /\ f' \in Nat /\ f =< f'
    <3> HIDE DEF k, m, f, n, q
    <3> QED  BY <1>2, <1>4, <2>3
  <2>5. Bounded' /\ Chained' /\ Followed'
    BY <1>1, <2>1, <2>2, <2>4, CopyT1 DEF pipeVars
  <2>6. Lag'
    BY <2>2 DEF Lag
  <2> QED  BY <1>5, <2>5, <2>6 DEF CopyInv
<1>7. CASE Writable("dup")
  <2> DEFINE u == NextUnit("T1")
  <2>1. k + 1 \in 1 .. m /\ Mark + 1 \in Nat /\ n - q - m + (k + 1) = Mark + 1
    <3> HIDE DEF k, m, f, n, q
    <3> QED  BY <1>2
  <2>2. u = Mark + 1 /\ u \in Nat
    <3>1. b[k + 1] = n - q - m + (k + 1)
      BY <1>1, <2>1 DEF CloneInv, Taken, Holding
    <3> QED  BY <2>1, <3>1 DEF NextUnit
  <2>3. outq'["dup"] = Append(outq["dup"], u) /\ outq["dup"] \in Seq(Nat) /\ got["dup"] \in Seq(Nat)
    BY <1>1, <1>3, <1>7, Counts DEF Transmit, CloneInv, OrderInv, TypeInv, TypeOK, SockTypeOK
  <2> HIDE DEF u
  <2>4. Line' = Line \o <<u>> /\ Units(outq["dup"])' = Units(outq["dup"]) \cup {u}
    <3> DEFINE e == <<u>>
               g == got["dup"]
               o == outq["dup"]
    <3>0. g \in Seq(Nat) /\ o \in Seq(Nat) /\ u \in Nat
      BY <2>2, <2>3
    <3> HIDE DEF g, o
    <3>1. g \o Append(o, u) = (g \o o) \o e /\ Units(Append(o, u)) = Units(o) \cup {u}
      BY <3>0, Snoc
    <3> HIDE DEF e
    <3> USE DEF g, o
    <3>2. Line' = Line \o e /\ Units(outq["dup"])' = Units(outq["dup"]) \cup {u}
      BY <1>1, <2>3, <3>1 DEF Line
    <3> QED  BY <3>2 DEF e
  <2>5. Passed("dup")' = Passed("dup") + 1
    <3>1. Len(outq'["dup"]) = Len(outq["dup"]) + 1
      BY <2>2, <2>3, Snoc
    <3>2. /\ Passed("dup") = Len(got["dup"]) + Len(outq["dup"])
          /\ Passed("dup")' = Len(got["dup"]) + Len(outq'["dup"])
      BY <1>1 DEF Passed
    <3>3. Len(got["dup"]) \in Nat /\ Len(outq["dup"]) \in Nat
          /\ \A i, j \in Nat : i + (j + 1) = (i + j) + 1
      BY Counts
    <3> QED  BY <3>1, <3>2, <3>3, Zenon
  <2>6. /\ pipe = <<>> /\ pipe' = <<>> /\ Rest = <<>> /\ Rest' = <<>> /\ pc["T3"] # "killed"
        /\ pc'["T3"] # "killed"
    BY <1>1 DEF CloneInv, Control, Rest, pipeVars
  <2>7. Chain = Line /\ Chain' = Line'
    <3>1. Line \in Seq(Nat) /\ <<u>> \in Seq(Nat) /\ Line \o <<u>> \in Seq(Nat)
      BY CopyParts, <2>2, Splice, Snoc
    <3>2. <<>> \o <<>> = <<>> /\ Line \o <<>> = Line /\ (Line \o <<u>>) \o <<>> = Line \o <<u>>
      BY <3>1, ConcatEmptySeq
    <3> QED  BY <2>4, <2>6, <3>2 DEF Chain
  <2>8. Copies' = Copies \cup {u} /\ Units(<<u>>) = {u} /\ <<u>> \in Seq(Nat)
        /\ Len(<<u>>) = 1 /\ <<u>>[1] = u
    <3>1. Units(<<u>>) = {u} /\ <<u>> \in Seq(Nat) /\ Len(<<u>>) = 1 /\ <<u>>[1] = u
      BY <2>2, <2>3, Snoc
    <3> QED  BY <1>1, <2>4, <2>6, <3>1 DEF Copies
  <2>9. Copying
    BY <1>1, <1>7, <2>6 DEF Copying, Stands
  <2>10. Mark' = Mark + 1
    <3>1. CASE pc'["T1"] = "recv" /\ k + 1 = m
      <4>1. Working' /\ Owed' = 0
        BY <3>1 DEF Working, Owed
      <4>2. Mark' = n - q - 0
        BY <1>1, <4>1 DEF Mark
      <4> HIDE DEF k, m, f, n, q
      <4> QED  BY <1>2, <3>1, <4>2
    <3>2. CASE pc'["T1"] = "sendDup" /\ off'["T1"] = k + 1 /\ buf'["T1"] = b
      <4>1. Working' /\ Owed' = m - (k + 1)
        BY <3>2 DEF Working, Owed, Holding
      <4>2. Mark' = n - q - (m - (k + 1))
        BY <1>1, <4>1 DEF Mark
      <4> HIDE DEF k, m, f, n, q
      <4> QED  BY <1>2, <3>2, <4>2
    <3> QED  BY <1>1, <1>7, <3>1, <3>2
  <2>11. Stands("prod")' => Mark + 1 =< f
    <3>1. Stands("prod")' => Passed("prod") + 0 + q = n
      BY <1>1 DEF CloneInv, OrderInv, Order, Stream, Joined, Held, Flow, Stands
    <3>2. Passed("prod") = f
      BY DEF Passed, Forwarded
    <3> HIDE DEF k, m, f, n, q
    <3> QED  BY <1>2, <3>1, <3>2
  <2>12. Bounded' /\ Chained' /\ Followed'
    <3>1. \A i \in 1 .. Len(<<u>>) : <<u>>[i] = Mark + i
      BY <2>2, <2>8
    <3>2. Working /\ Len(<<>>) = 0 /\ 0 =< Mark + 1
      BY <1>1, <2>1 DEF Working, Holding
    <3>3. /\ Mark' = Mark + Len(<<u>>) /\ Chain' = Chain \o <<u>> /\ Line' = Chain \o <<u>>
          /\ Copies' = Copies \cup Units(<<u>>)
      BY <2>4, <2>7, <2>8, <2>10
    <3>5. f' \in Nat /\ (Stands("prod")' => Mark' =< f')
      BY <1>2, <1>4, <2>10, <2>11
    <3> HIDE DEF k, m, f, n, q
    <3>6. UNCHANGED <<dropped, sent["client"]>>
      BY <1>1 DEF pipeVars
    <3> QED  BY <1>3, <2>8, <2>9, <3>1, <3>2, <3>3, <3>5, <3>6, CopyGrows DEF f
  <2>13. Lag'
    <3>1. Early = m - k
      BY <1>1 DEF Early
    <3>2. Early' = m - (k + 1)
      <4>1. CASE pc'["T1"] = "recv" /\ k + 1 = m
        <5>1. Early' = 0
          BY <4>1 DEF Early
        <5> HIDE DEF k, m
        <5> QED  BY <1>2, <4>1, <5>1
      <4>2. CASE pc'["T1"] = "sendDup" /\ off'["T1"] = k + 1 /\ buf'["T1"] = b
        BY <4>2 DEF Early
      <4> QED  BY <1>1, <1>7, <4>1, <4>2
    <3>3. Stands("prod")' /\ Stands("dup")' => f = Passed("dup") + (m - k)
      BY <1>1, <3>1 DEF Stands, Lag, CloneInv, CopyInv
    <3>4. Passed("dup") \in Nat
      BY Counts
    <3> HIDE DEF k, m, f, n, q
    <3>5. \A i \in Nat : i + (m - k) = (i + 1) + (m - (k + 1))
      BY <1>2
    <3> QED  BY <1>4, <2>5, <3>2, <3>3, <3>4, <3>5 DEF Lag, f
  <2> QED  BY <1>5, <2>12, <2>13 DEF CopyInv
<1> QED  BY <1>6, <1>7

\* T1 writes its buffer to the pipe, or gives it up.
LEMMA CopyWrite ==
  ASSUME CloneInv, Asynch, ~Synch, WritePipe("T1", "recv"), UNCHANGED mode
  PROVE  Taken' /\ CopyInv'
<1> DEFINE b == buf["T1"]
           m == Len(b)
           f == Forwarded
           n == sent["client"]
           q == Len(inq["client"])
<1>1. /\ pc["T1"] = "write" /\ pc'["T1"] = "recv" /\ pc'["T3"] = pc["T3"]
      /\ UNCHANGED <<inq, outq, got, sent, shut, peer, off, buf["T3"]>>
      /\ b \in Seq(Nat) /\ pc["T1"] \notin Over /\ pc'["T1"] \notin Over
      /\ "T1" \in Proc /\ "T3" \in Proc
  BY Counts DEF WritePipe, Goto, Drop, sockVars, Over
<1>2. ~Gone /\ Writable("prod")' = Writable("prod") /\ Writable("dup")' = Writable("dup")
  BY <1>1, Alive DEF Writable
<1>3. /\ m \in Nat /\ f \in Nat /\ n \in Nat /\ q \in Nat /\ Working
      /\ Mark \in Nat /\ Mark + m + q = n
  <2>1. Working /\ Owed = m
    BY <1>1 DEF Working, Owed, Holding
  <2>2. m \in Nat /\ f \in Nat /\ n \in Nat /\ q \in Nat
    BY <1>1, Counts
  <2> QED  BY <2>1, <2>2, MarkCounts
<1>4. Mark' = Mark + m
  <2>1. Working' /\ Owed' = 0
    BY <1>1 DEF Working, Owed
  <2>2. Mark' = n - q - 0
    BY <1>1, <2>1 DEF Mark
  <2> HIDE DEF m, f, n, q
  <2> QED  BY <1>3, <2>2
<1>5. \A i \in 1 .. m : b[i] = Mark + i
  <2>1. \A i \in 1 .. m : b[i] = n - q - m + i
    BY <1>1 DEF CloneInv, Taken, Holding
  <2>2. n - q - m = Mark
    <3> HIDE DEF m, f, n, q
    <3> QED  BY <1>3
  <2> QED  BY <2>1, <2>2
<1>6. f' \in Nat /\ (Stands("prod")' => Mark' =< f')
  <2>1. Stands("prod")' => Passed("prod") + 0 + q = n
    BY <1>1, <1>2 DEF CloneInv, OrderInv, Order, Stream, Joined, Held, Flow, Stands
  <2>2. Passed("prod") = f /\ f' = f
    BY <1>1 DEF Passed, Forwarded
  <2> HIDE DEF m, f, n, q
  <2> QED  BY <1>3, <1>4, <2>1, <2>2
<1>7. Rest' = Rest /\ Line' = Line /\ (Copying' => Copying) /\ Duplicating
  <2>1. Rest' = Rest /\ Line' = Line
    BY <1>1 DEF Rest, Line
  <2>2. Copying' => Copying
    BY <1>1, <1>2 DEF Copying, Stands
  <2> QED  BY <2>1, <2>2 DEF Duplicating
<1>8. Taken' /\ Lag' /\ UNCHANGED sent["client"]
  <2>1. Synch' = Synch
    BY DEF Synch
  <2> QED  BY <1>1, <2>1 DEF Taken, Holding, Lag
<1>9. pipe \in Seq(Nat)
  BY Counts
<1>10. CASE pipe' = pipe \o b /\ dropped' = dropped
  <2>1. pipe' = pipe \o b /\ dropped' = dropped
    BY <1>10
  <2>2. Units(pipe') = Units(pipe) \cup Units(b)
    BY <1>1, <1>9, <2>1, Splice
  <2>3. Copies' = Copies \cup Units(b)
    BY <1>1, <1>7, <2>2 DEF Copies
  <2>4. Chain' = Chain \o b
    <3>1. /\ Rest \in Seq(Nat) /\ Line \in Seq(Nat) /\ Rest \o pipe \in Seq(Nat)
          /\ pipe \in Seq(Nat) /\ b \in Seq(Nat)
      BY <1>1, <1>9, CopyParts
    <3> HIDE DEF b
    <3>2. Grouped(Rest, pipe, b) /\ Grouped(Line, Rest \o pipe, b)
      BY <3>1, Regroup
    <3>3. Rest \o (pipe \o b) = (Rest \o pipe) \o b
      BY <3>2, Zenon DEF Grouped
    <3>4. Line \o ((Rest \o pipe) \o b) = (Line \o (Rest \o pipe)) \o b
      BY <3>2, Zenon DEF Grouped
    <3>5. Line \o (Rest \o (pipe \o b)) = (Line \o (Rest \o pipe)) \o b
      BY <3>3, <3>4, Zenon
    <3> QED  BY <1>7, <2>1, <3>5 DEF Chain
  <2> HIDE DEF b, f, n, q
  <2>6. Bounded' /\ Chained' /\ Followed'
    BY <1>1, <1>3, <1>4, <1>5, <1>6, <1>7, <1>8, <2>1, <2>3, <2>4, CopyGrows DEF f
  <2> QED  BY <1>8, <2>6 DEF CopyInv
<1>11. CASE pipe' = pipe /\ dropped' = dropped \cup Units(b)
  <2>1. pipe' = pipe /\ dropped' = dropped \cup Units(b)
    BY <1>11
  <2>3. Chain' = Chain /\ Copies' = Copies
    BY <1>1, <1>7, <2>1 DEF Chain, Copies
  <2> HIDE DEF b, f, n, q
  <2>5. Bounded' /\ Chained' /\ Followed'
    BY <1>1, <1>3, <1>4, <1>5, <1>6, <1>7, <1>8, <2>1, <2>3, CopyGivesUp DEF f
  <2> QED  BY <1>8, <2>5 DEF CopyInv
<1> QED  BY <1>10, <1>11 DEF WritePipe

\* T1, in whichever of its three loops.
LEMMA CopyOfT1 ==
  ASSUME CloneInv, T1
  PROVE  Taken' /\ CopyInv'
<1>1. mode' = mode /\ "client" \in Sock /\ "prod" \in Sock /\ "dup" \in Sock
  BY Counts DEF T1
<1>2. CASE Recv("T1", "client", "send", "shut1") /\ UNCHANGED pipeVars
  BY <1>1, <1>2, CopyRecv
<1>3. CASE ~Duplicating /\ Send("T1", "send", "prod", "recv") /\ UNCHANGED pipeVars
  <2>1. ~Synch
    BY <1>3 DEF Duplicating
  <2> QED  BY <1>1, <1>3, <2>1, CopySend
<1>4. CASE Synch /\ Send("T1", "send", "prod", "sendDup") /\ UNCHANGED pipeVars
  BY <1>1, <1>4, CopySend
<1>5. CASE ~Synch /\ Send("T1", "send", "prod", "write") /\ UNCHANGED pipeVars
  BY <1>1, <1>5, CopySend
<1>6. CASE Synch /\ Send("T1", "sendDup", "dup", "recv") /\ UNCHANGED pipeVars
  BY <1>1, <1>6, CopySendDup
<1>7. CASE Asynch /\ ~Synch /\ WritePipe("T1", "recv")
  BY <1>1, <1>7, CopyWrite
<1>8. ASSUME NEW at \in {"shut1", "shut2", "shut3"}, NEW next \in {"shut2", "shut3", "done"},
             NEW s \in {"client", "prod", "dup"}, Shut("T1", at, s, next), UNCHANGED pipeVars
      PROVE  Taken' /\ CopyInv'
  BY <1>1, <1>8, CopyShut
<1>9. \/ Recv("T1", "client", "send", "shut1") /\ UNCHANGED pipeVars
      \/ ~Duplicating /\ Send("T1", "send", "prod", "recv") /\ UNCHANGED pipeVars
      \/ Synch /\ Send("T1", "send", "prod", "sendDup") /\ UNCHANGED pipeVars
      \/ ~Synch /\ Send("T1", "send", "prod", "write") /\ UNCHANGED pipeVars
      \/ Synch /\ Send("T1", "sendDup", "dup", "recv") /\ UNCHANGED pipeVars
      \/ Asynch /\ ~Synch /\ WritePipe("T1", "recv")
      \/ Shut3("T1", "prod", "dup", "client") /\ UNCHANGED pipeVars
      \/ Shut2("T1", "prod", "client") /\ UNCHANGED pipeVars
  BY DEF T1, forward_data, forward_data_synch, forward_data_asynch
<1>10. CASE Shut3("T1", "prod", "dup", "client") /\ UNCHANGED pipeVars
  BY <1>8, <1>10 DEF Shut3
<1>11. CASE Shut2("T1", "prod", "client") /\ UNCHANGED pipeVars
  BY <1>8, <1>11 DEF Shut2
<1> QED  BY <1>2, <1>3, <1>4, <1>5, <1>6, <1>7, <1>9, <1>10, <1>11

----------------------------------------------------------------------------
(* T3 moves the copy from the pipe to the clone.                           *)

\* A step of T3 that takes nothing out of the copy, unless the clone is lost.
LEMMA CopyMove ==
  ASSUME CloneInv, pc["T3"] \notin Over,
         UNCHANGED <<inq, got, outq["prod"], sent, shut, peer, mode, dropped,
                     pc["T1"], buf["T1"], off["T1"]>>,
         Copies' \subseteq Copies,
         Faithful(Line', dropped), Synch => outq'["dup"] = outq["dup"],
         Copying' => Copying /\ Chain' = Chain /\ Copies' = Copies
  PROVE  Taken' /\ CopyInv'
<1>1. ~Gone /\ Writable("prod")' = Writable("prod") /\ Writable("dup")' = Writable("dup")
  BY Counts, Alive DEF Writable
<1>2. (Stands("prod")' => Stands("prod")) /\ (Stands("dup")' => Stands("dup"))
  BY <1>1 DEF Stands
<1>3. /\ Owed' = Owed /\ Early' = Early /\ Working' = Working /\ Duplicating' = Duplicating
      /\ Synch' = Synch
  BY DEF Owed, Early, Working, Duplicating, Synch, Asynch
<1>4. Mark' = Mark
  BY <1>3 DEF Mark
<1>5. Forwarded' = Forwarded /\ (Synch => Passed("dup")' = Passed("dup"))
  BY DEF Forwarded, Passed
<1>6. Taken' /\ Lag'
  BY <1>2, <1>3, <1>5 DEF CloneInv, CopyInv, Taken, Lag
<1>7. /\ Mark \in Nat /\ Mark =< Mark' /\ sent["client"]' \in Nat
      /\ sent["client"] =< sent["client"]' /\ Forwarded \in Nat /\ Forwarded =< Forwarded'
  <2>1. \A i \in Nat : i =< i
    OBVIOUS
  <2> QED  BY <1>4, <1>5, <2>1, Counts, MarkCounts
<1>8. Bounded' /\ Chained' /\ Followed'
  BY <1>2, <1>3, <1>4, <1>5, <1>7, Keep
<1> QED  BY <1>6, <1>8 DEF CopyInv

\* T3 reads the front of the pipe.
LEMMA CopyReadPipe ==
  ASSUME CloneInv, ReadPipe("T3"), UNCHANGED mode
  PROVE  Taken' /\ CopyInv'
<1>1. /\ pc["T3"] = "recv" /\ pc'["T3"] = "send" /\ pc'["T1"] = pc["T1"]
      /\ UNCHANGED <<inq, outq, got, sent, shut, peer, off, dropped, buf["T1"]>>
      /\ off["T3"] = 0 /\ pipe \in Seq(Nat) /\ Len(pipe) \in Nat
      /\ pc["T3"] \notin Over /\ pc'["T3"] \notin Over /\ pc["T1"] # "none"
      /\ "T1" \in Proc /\ "T3" \in Proc
  BY Counts DEF ReadPipe, Goto, sockVars, Over, CloneInv, Control
<1>2. PICK k \in 1 .. BufSize :
         /\ k =< Len(pipe)
         /\ buf' = [buf EXCEPT !["T3"] = SubSeq(pipe, 1, k)]
         /\ pipe' = SubSeq(pipe, k + 1, Len(pipe))
  BY DEF ReadPipe
<1> DEFINE b == SubSeq(pipe, 1, k)
           r == SubSeq(pipe, k + 1, Len(pipe))
<1>3. k \in 1 .. Len(pipe) /\ buf'["T3"] = b
  BY <1>1, <1>2, Counts, BufSizeAssumption
<1>4. /\ b \in Seq(Nat) /\ r \in Seq(Nat) /\ Len(r) = Len(pipe) - k
  BY <1>1, <1>3, Cut
<1>5. b \o r = pipe
  <2>1. /\ 1 \in 1 .. Len(pipe) + 1 /\ k \in 1 - 1 .. Len(pipe) /\ Len(pipe) \in k .. Len(pipe)
    BY <1>1, <1>3
  <2>2. b \o r = SubSeq(pipe, 1, Len(pipe))
    BY <1>1, <2>1, ConcatAdjacentSubSeq
  <2> QED  BY <1>1, <2>2, SubSeqFull
<1>6. Rest = <<>> /\ Rest' = b
  <2>1. Rest' = SubSeq(b, 0 + 1, Len(b))
    BY <1>1, <1>3 DEF Rest
  <2> HIDE DEF b
  <2>2. SubSeq(b, 0 + 1, Len(b)) = b
    BY <1>4, SubSeqFull
  <2> QED  BY <1>1, <2>1, <2>2 DEF Rest
<1>7. Rest' \o pipe' = Rest \o pipe
  BY <1>1, <1>2, <1>5, <1>6, ConcatEmptySeq
<1>8. Line' = Line /\ Chain' = Chain
  BY <1>1, <1>7 DEF Line, Chain
<1>9. Copies' = Copies
  <2>1. Units(b \o r) = Units(b) \cup Units(r)
    <3> HIDE DEF b, r
    <3> QED  BY <1>4, Splice
  <2>2. Units(<<>>) = {}
    BY DEF Units
  <2>3. Units(Rest') \cup Units(pipe') = Units(Rest) \cup Units(pipe)
    BY <1>2, <1>5, <1>6, <2>1, <2>2
  <2> QED  BY <1>1, <2>3 DEF Copies
<1>11. Copying' => Copying
  <2>1. ~Gone /\ Writable("dup")' = Writable("dup")
    BY <1>1, Alive DEF Writable
  <2> QED  BY <1>1, <2>1 DEF Copying, Stands
<1>12. Faithful(Line', dropped)
  BY <1>8 DEF CloneInv, CopyInv, Chained
<1> HIDE DEF b, r
<1> QED  BY <1>1, <1>8, <1>9, <1>11, <1>12, CopyMove

\* T3 hands the next unit to the clone, or loses it and all that follows.
LEMMA CopyHand ==
  ASSUME CloneInv, Send("T3", "send", "dup", "recv"), UNCHANGED <<mode, pipeVars>>
  PROVE  Taken' /\ CopyInv'
<1> DEFINE b == buf["T3"]
           k == off["T3"]
           m == Len(b)
<1>1. /\ "T1" \in Proc /\ "T3" \in Proc /\ "dup" \in Sock /\ "prod" \in Sock
      /\ pc \in [Proc -> Step] /\ buf \in [Proc -> Seq(Nat)] /\ off \in [Proc -> Nat]
      /\ outq \in [Sock -> Seq(Nat)]
  BY Counts DEF CloneInv, OrderInv, TypeInv, TypeOK, SockTypeOK
<1>2. pc["T3"] = "send" /\ pc["T3"] \notin Over /\ pc["T1"] # "none" /\ ~Synch
  BY DEF Send, Over, CloneInv, Control
<1>3. /\ UNCHANGED <<inq, got, sent, shut, peer, outq["prod"]>>
      /\ UNCHANGED <<pc["T1"], buf["T1"], off["T1"]>>
  BY <1>1 DEF Send, Transmit, Goto, Drop, sockVars
<1>4. ~Gone /\ Writable("dup")' = Writable("dup")
  BY <1>1, <1>2, <1>3, Alive DEF Writable
<1>5. /\ b \in Seq(Nat) /\ k + 1 \in 1 .. m /\ m \in Nat /\ k \in Nat
      /\ k + 1 \in Int /\ (k + 1) + 1 \in Int
  <2>1. k \in Nat /\ m \in Nat /\ k < m /\ b \in Seq(Nat)
    BY <1>2, Counts
  <2> HIDE DEF k, m
  <2> QED  BY <2>1
<1>6. pipe' = pipe /\ dropped' = dropped
  BY DEF pipeVars
<1>7. CASE /\ UNCHANGED sockVars /\ ~Writable("dup")
           /\ pc'["T3"] \in {"recv", "killed"}
  <2>1. ~Copying'
    BY <1>2, <1>3, <1>4, <1>7 DEF Copying, Stands
  <2>2. Line' = Line
    BY <1>7 DEF Line, sockVars
  <2>3. Faithful(Line', dropped)
    BY <2>2 DEF CloneInv, CopyInv, Chained
  <2>4. outq' = outq /\ Rest' = <<>>
    BY <1>7 DEF Rest, sockVars
  <2>5. Copies' \subseteq Copies
    <3>1. Units(<<>>) = {}
      BY DEF Units
    <3> QED  BY <1>3, <1>6, <2>4, <3>1 DEF Copies
  <2> QED  BY <1>2, <1>3, <1>6, <2>1, <2>3, <2>4, <2>5, CopyMove
<1>8. CASE Transmit("dup", NextUnit("T3"))
           /\ IF LastUnit("T3")
              THEN pc'["T3"] = "recv"
              ELSE pc'["T3"] = "send" /\ off'["T3"] = k + 1 /\ buf'["T3"] = b
  <2> DEFINE u == NextUnit("T3")
             t == SubSeq(b, (k + 1) + 1, m)
  <2>1. u \in Nat /\ u = b[k + 1]
    BY <1>5, ElementOfSeq DEF NextUnit
  <2>2. Rest = <<u>> \o t
    <3>1. m \in k + 1 .. m
      BY <1>5
    <3>2. SubSeq(b, k + 1, m) = <<b[k + 1]>> \o t
      BY <1>5, <3>1, SubSeqRecursiveFirst
    <3> QED  BY <1>2, <2>1, <3>2 DEF Rest
  <2>3. Rest' = t
    <3>1. CASE LastUnit("T3")
      <4>1. m < (k + 1) + 1
        BY <1>5, <3>1 DEF LastUnit
      <4>2. t = <<>>
        BY <1>5, <4>1, SubSeqEmpty
      <4> QED  BY <1>8, <3>1, <4>2 DEF Rest
    <3>2. CASE ~LastUnit("T3")
      BY <1>8, <3>2 DEF Rest
    <3> QED  BY <3>1, <3>2
  <2>4. t \in Seq(Nat)
    <3>1. \A i \in (k + 1) + 1 .. m : b[i] \in Nat
      <4>1. \A i \in 1 .. m : b[i] \in Nat
        BY <1>5, ElementOfSeq
      <4>2. \A i \in (k + 1) + 1 .. m : i \in 1 .. m
        <5> HIDE DEF k, m
        <5> QED  BY <1>5
      <4> QED  BY <4>1, <4>2
    <3> QED  BY <1>5, <3>1, SubSeqProperties
  <2>5. /\ outq'["dup"] = Append(outq["dup"], u) /\ outq["dup"] \in Seq(Nat)
        /\ got["dup"] \in Seq(Nat) /\ pipe \in Seq(Nat) /\ Writable("dup")
    BY <1>1, <1>8, Counts DEF Transmit
  <2> HIDE DEF u, t, b, k, m
  <2> DEFINE e == <<u>>
             g == got["dup"]
             o == outq["dup"]
  <2>6. /\ g \in Seq(Nat) /\ o \in Seq(Nat) /\ u \in Nat /\ t \in Seq(Nat)
        /\ pipe \in Seq(Nat) /\ Line \in Seq(Nat) /\ g \o o = Line
    BY <2>1, <2>4, <2>5, CopyParts DEF Line
  <2>7. Line' = g \o Append(o, u)
    BY <1>3, <2>5 DEF Line
  <2>8. Copies = Units(g) \cup Units(o) \cup Units(Rest) \cup Units(pipe)
    BY DEF Copies
  <2>9. Copies' = Units(g) \cup Units(Append(o, u)) \cup Units(t) \cup Units(pipe)
    BY <1>3, <1>6, <2>3, <2>5 DEF Copies
  <2> HIDE DEF g, o
  <2>10. /\ g \o Append(o, u) = Line \o e /\ Units(Append(o, u)) = Units(o) \cup {u}
         /\ e \in Seq(Nat) /\ Units(e) = {u}
    <3>1. /\ g \o Append(o, u) = (g \o o) \o e /\ Units(Append(o, u)) = Units(o) \cup {u}
          /\ e \in Seq(Nat) /\ Units(e) = {u}
      <4>1. g \in Seq(Nat) /\ o \in Seq(Nat) /\ u \in Nat
        BY <2>6
      <4> HIDE DEF g, o, u
      <4> QED  BY <4>1, Snoc, SMTT(60)
    <3> HIDE DEF e
    <3> QED  BY <2>6, <3>1
  <2> HIDE DEF e
  <2>11. Rest = e \o t
    BY <2>2 DEF e
  <2>12. Copies' = Copies
    <3>1. Units(Rest) = Units(e) \cup Units(t)
      BY <2>6, <2>10, <2>11, Splice
    <3> QED  BY <2>8, <2>9, <2>10, <3>1
  <2>13. Chain' = Chain
    <3> DEFINE r == t \o pipe
    <3>1. r \in Seq(Nat)
      BY <2>6, Splice
    <3>2. (e \o t) \o pipe = e \o r
      <4>1. e \in Seq(Nat) /\ t \in Seq(Nat) /\ pipe \in Seq(Nat)
        BY <2>6, <2>10
      <4>2. Grouped(e, t, pipe)
        BY <4>1, Regroup
      <4> QED  BY <4>2, Zenon DEF Grouped
    <3>3. Chain' = Line' \o r
      BY <1>6, <2>3 DEF Chain
    <3> HIDE DEF r
    <3>4. (Line \o e) \o r = Line \o (e \o r)
      <4>1. e \in Seq(Nat) /\ Line \in Seq(Nat) /\ r \in Seq(Nat)
        BY <2>6, <2>10, <3>1
      <4>2. Grouped(Line, e, r)
        BY <4>1, Regroup
      <4> QED  BY <4>2, Zenon DEF Grouped
    <3> QED  BY <2>7, <2>10, <2>11, <3>2, <3>3, <3>4 DEF Chain
  <2>14. Copying
    BY <1>2, <1>4, <2>5 DEF Copying, Stands
  <2>15. Faithful(Line', dropped)
    <3>1. Faithful(Chain', dropped)
      BY <2>13, <2>14 DEF CloneInv, CopyInv, Chained
    <3>2. Line' \in Seq(Nat) /\ t \o pipe \in Seq(Nat)
      BY <2>6, <2>7, <2>10, Splice
    <3>3. Chain' = Line' \o (t \o pipe)
      BY <1>6, <2>3 DEF Chain
    <3> DEFINE l == Line'
               r == t \o pipe
    <3>4. l \in Seq(Nat) /\ r \in Seq(Nat) /\ Faithful(l \o r, dropped)
      BY <3>1, <3>2, <3>3
    <3> HIDE DEF l, r
    <3>5. Faithful(l, dropped)
      BY <3>4, FaithfulPrefix
    <3> QED  BY <3>5 DEF l
  <2> QED  BY <1>2, <1>3, <1>6, <2>12, <2>13, <2>14, <2>15, CopyMove
<1> QED
  <2>1. CASE Transmit("dup", NextUnit("T3")) /\ LastUnit("T3")
    BY <1>1, <1>2, <1>8, <2>1 DEF Send, CutShort, Goto, Transmit, Writable, Broken
  <2>2. CASE Transmit("dup", NextUnit("T3")) /\ ~LastUnit("T3")
    BY <1>1, <1>2, <1>8, <2>2 DEF Send, CutShort, Goto, Transmit, Writable, Broken
  <2>3. CASE UNCHANGED sockVars /\ ~Writable("dup") /\ (Goto("T3", "recv") \/ Goto("T3", "killed"))
    BY <1>1, <1>7, <2>3 DEF Goto
  <2> QED  BY <2>1, <2>2, <2>3, SendCases

\* T3's whole loop.
LEMMA CopyOfT3 ==
  ASSUME CloneInv, T3
  PROVE  Taken' /\ CopyInv'
<1>1. mode' = mode
  BY DEF T3
<1>2. CASE pc["T3"] = "sleep" /\ Goto("T3", "recv") /\ UNCHANGED <<sockVars, buf, off, pipeVars>>
  <2>1. /\ pc["T3"] = "sleep" /\ pc'["T3"] = "recv" /\ pc'["T1"] = pc["T1"]
        /\ "T3" \in Proc /\ pc["T3"] \notin Over
    BY <1>2, Counts DEF Goto, Over
  <2>2. ~Gone
    BY <2>1, Alive
  <2>3. /\ (Stands("prod")' => Stands("prod")) /\ (Stands("dup")' => Stands("dup"))
    BY <1>2, <2>2 DEF Stands, Writable, sockVars
  <2>4. Rest' = Rest /\ Forwarded' = Forwarded
    BY <1>2, <2>1 DEF Rest, Forwarded, sockVars
  <2>5. UNCHANGED <<got["dup"], outq["dup"], inq["client"], sent["client"], mode, pipe, dropped,
                    pc["T1"], buf["T1"], off["T1"], Rest>>
    BY <1>1, <1>2, <2>1, <2>4 DEF sockVars, pipeVars
  <2> QED  BY <2>1, <2>3, <2>4, <2>5, CopyQuiet
<1>3. CASE ReadPipe("T3")
  BY <1>1, <1>3, CopyReadPipe
<1>4. CASE Send("T3", "send", "dup", "recv") /\ UNCHANGED pipeVars
  BY <1>1, <1>4, CopyHand
<1> QED  BY <1>2, <1>3, <1>4 DEF T3, forward_data_pipe

----------------------------------------------------------------------------
(* What the others do.                                                     *)

\* A step of T2 or T4 leaves the copy alone.
LEMMA CopyOthers ==
  ASSUME CloneInv, T2 \/ T4
  PROVE  Taken' /\ CopyInv'
<1>1. /\ {"T1", "T2", "T3", "T4"} \subseteq Proc /\ {"client", "prod", "dup"} \subseteq Sock
      /\ pc \in [Proc -> Step] /\ buf \in [Proc -> Seq(Nat)] /\ off \in [Proc -> Nat]
      /\ outq \in [Sock -> Seq(Nat)] /\ inq \in [Sock -> Seq(Nat)]
      /\ shut \in [Sock -> BOOLEAN]
  BY Loops DEF CloneInv, OrderInv, TypeInv, TypeOK, SockTypeOK
<1>2. ASSUME NEW p \in {"T2", "T4"}, pc[p] \notin Over,
             UNCHANGED <<got, outq["dup"], outq["prod"], inq["client"], sent, peer,
                         mode, pipe, dropped>>,
             \A r \in {"T1", "T3"} : UNCHANGED <<pc[r], buf[r], off[r]>>,
             \A x \in {"prod", "dup"} : shut[x] => shut'[x]
      PROVE  Taken' /\ CopyInv'
  <2>1. ~Gone
    BY <1>1, <1>2, Alive
  <2>2. (Stands("prod")' => Stands("prod")) /\ (Stands("dup")' => Stands("dup"))
    BY <1>2, <2>1 DEF Stands, Writable
  <2>3. Rest' = Rest /\ Forwarded' = Forwarded
    BY <1>2 DEF Rest, Forwarded
  <2>4. UNCHANGED <<got["dup"], outq["dup"], inq["client"], sent["client"], mode, pipe, dropped,
                    pc["T1"], buf["T1"], off["T1"], Rest>>
    BY <1>2, <2>3
  <2>5. pc["T3"] = "killed" => pc'["T3"] = "killed"
    BY <1>2
  <2> QED  BY <2>2, <2>3, <2>4, <2>5, CopyQuiet
<1>3. ASSUME NEW p \in {"T2", "T4"}
      PROVE  /\ \A n : Goto(p, n) => \A r \in {"T1", "T3"} : pc'[r] = pc[r]
             /\ \A n : Drop(p, n) => \A r \in {"T1", "T3"} : buf'[r] = buf[r]
             /\ \A n : buf' = [buf EXCEPT ![p] = n] => \A r \in {"T1", "T3"} : buf'[r] = buf[r]
             /\ \A n : off' = [off EXCEPT ![p] = n] => \A r \in {"T1", "T3"} : off'[r] = off[r]
  BY <1>1, <1>3 DEF Goto, Drop
<1>4. ASSUME NEW x \in {"prod", "dup"}, NEW k, Receive(x, k)
      PROVE  UNCHANGED <<got, outq, sent, shut, peer, inq["client"]>>
  BY <1>1, <1>4 DEF Receive
<1>5. ASSUME NEW p \in {"T2", "T4"}, NEW at \in {"shut1", "shut2", "shut3"},
             NEW next, NEW s, Shut(p, at, s, next), UNCHANGED <<mode, pipeVars>>
      PROVE  Taken' /\ CopyInv'
  <2>1. \A x \in {"prod", "dup"} : shut[x] => shut'[x]
    BY <1>1, <1>5 DEF Shut, ShutDown
  <2>2. pc[p] \notin Over
    BY <1>5 DEF Shut, Over
  <2> QED  BY <1>2, <1>3, <1>5, <2>1, <2>2 DEF Shut, ShutDown, pipeVars
<1>6. CASE T2
  <2>1. CASE Recv("T2", "prod", "send", "shut1") /\ UNCHANGED <<mode, pipeVars>>
    <3>1. /\ UNCHANGED <<got, outq, sent, shut, peer, inq["client"]>>
          /\ \A r \in {"T1", "T3"} : UNCHANGED <<pc[r], buf[r], off[r]>>
      BY <1>3, <1>4, <2>1 DEF Recv, sockVars
    <3>2. pc["T2"] \notin Over
      BY <2>1 DEF Recv, Over
    <3> QED  BY <1>2, <2>1, <3>1, <3>2 DEF pipeVars
  <2>2. ASSUME NEW next, Send("T2", "send", "client", next), UNCHANGED <<mode, pipeVars>>
        PROVE  Taken' /\ CopyInv'
    <3>1. /\ UNCHANGED <<got, outq["dup"], outq["prod"], inq, sent, shut, peer>>
          /\ \A r \in {"T1", "T3"} : UNCHANGED <<pc[r], buf[r], off[r]>>
      BY <1>1, <1>3, <2>2 DEF Send, Transmit, sockVars
    <3>2. pc["T2"] \notin Over
      BY <2>2 DEF Send, Over
    <3> QED  BY <1>2, <2>2, <3>1, <3>2 DEF pipeVars
  <2>3. CASE RecvDup("T2") /\ UNCHANGED <<mode, pipeVars>>
    <3>1. /\ UNCHANGED <<got, outq, sent, shut, peer, inq["client"]>>
          /\ \A r \in {"T1", "T3"} : UNCHANGED <<pc[r], buf[r], off[r]>>
      BY <1>3, <1>4, <2>3 DEF RecvDup, sockVars
    <3>2. pc["T2"] \notin Over
      BY <2>3 DEF RecvDup, Over
    <3> QED  BY <1>2, <2>3, <3>1, <3>2 DEF pipeVars
  <2> QED  BY <1>5, <1>6, <2>1, <2>2, <2>3
           DEF T2, forward_data, receive_data_synch, Shut2, Shut3
<1>7. CASE T4
  <2>1. UNCHANGED <<mode, pipeVars>>
    BY <1>7 DEF T4, receive_data_asynch
  <2>2. CASE Drain("T4", "dup") \/ DrainEnd("T4", "dup")
    <3>1. /\ UNCHANGED <<got, outq, sent, shut, peer, inq["client"]>>
          /\ \A r \in {"T1", "T3"} : UNCHANGED <<pc[r], buf[r], off[r]>>
      BY <1>3, <1>4, <2>2 DEF Drain, DrainEnd, sockVars
    <3>2. pc["T4"] \notin Over
      BY <2>2 DEF Drain, DrainEnd, Over
    <3> QED  BY <1>2, <2>1, <3>1, <3>2 DEF pipeVars
  <2>3. CASE Shut("T4", "shut1", "dup", "done")
    BY <1>5, <2>1, <2>3
  <2> QED  BY <1>7, <2>2, <2>3 DEF T4, receive_data_asynch
<1> QED  BY <1>6, <1>7

\* H connects and forks: a copy begins when T1 is there to make it.
LEMMA CopyForks ==
  ASSUME CloneInv, handle_client
  PROVE  Taken' /\ CopyInv'
<1>1. /\ {"H", "T1", "T2", "T3", "T4"} \subseteq Proc /\ pc \in [Proc -> Step]
      /\ pc["H"] \in {"connectProd", "connectDup", "pipe"} => pc["T1"] = "none"
      /\ pc["T1"] = "none" => pc["T3"] = "none"
  BY Loops DEF CloneInv, OrderInv, Order, Before, Control, TypeInv, TypeOK
<1>2. /\ UNCHANGED <<inq, outq, got, sent, shut, mode, buf, off, pipe, dropped>>
      /\ pc["H"] \in {"connectProd", "connectDup", "pipe", "fork"}
  BY DEF handle_client, ConnectProd, ConnectDup, MakePipe, ForkT1, ForkT2, ForkT3,
         ForkT4, Forks, Connected, sockVars
<1>3. ~Gone
  <2>1. pc["H"] \notin Over
    BY <1>2 DEF Over
  <2> QED  BY <1>1, <2>1, Alive
<1>4. Forwarded' = Forwarded
  BY <1>2 DEF Forwarded
<1>5. CASE ConnectProd \/ ConnectDup \/ MakePipe
  <2>1. pc["T1"] = "none" /\ pc'["T1"] = "none" /\ pc'["T3"] = pc["T3"] /\ pc["T3"] = "none"
    BY <1>1, <1>5 DEF ConnectProd, ConnectDup, MakePipe, Goto
  <2>2. Rest' = Rest
    BY <2>1 DEF Rest
  <2>3. UNCHANGED <<got["dup"], outq["dup"], inq["client"], sent["client"], mode, pipe, dropped,
                    pc["T1"], buf["T1"], off["T1"], Rest>>
    BY <1>2, <2>1, <2>2
  <2> QED  BY <1>4, <2>1, <2>3, CopyQuiet
<1>6. ASSUME NEW p \in {"T2", "T3", "T4"}, NEW last, Forks(p, last)
      PROVE  Taken' /\ CopyInv'
  <2>1. /\ pc[p] = "none" /\ pc'[p] \in {"recv", "sleep", "done"}
        /\ \A r \in {"T1", "T3"} : r # p => pc'[r] = pc[r]
        /\ UNCHANGED peer
    BY <1>1, <1>6 DEF Forks, Entry, sockVars
  <2>2. Rest' = Rest
    BY <1>2, <2>1 DEF Rest
  <2>3. (Stands("prod")' => Stands("prod")) /\ (Stands("dup")' => Stands("dup"))
    BY <1>2, <1>3, <2>1 DEF Stands, Writable
  <2>4. pc["T3"] = "killed" => pc'["T3"] = "killed"
    BY <2>1
  <2>5. UNCHANGED <<got["dup"], outq["dup"], inq["client"], sent["client"], mode, pipe, dropped,
                    pc["T1"], buf["T1"], off["T1"], Rest>>
    BY <1>2, <2>1, <2>2
  <2> QED  BY <1>4, <2>3, <2>4, <2>5, CopyQuiet
<1>7. CASE ForkT1
  <2>1. pc["T1"] = "none" /\ pc'["T1"] \in {"recv", "done"} /\ pc'["T3"] = pc["T3"]
        /\ pc["T3"] = "none"
    BY <1>1, <1>7 DEF ForkT1, Forks, Entry
  <2>2. Copies = {} /\ Forwarded = 0 /\ Passed("dup") = 0
    BY <2>1, Blank
  <2>3. Line' = Line /\ Chain' = Chain /\ Copies' = Copies /\ Passed("dup")' = Passed("dup")
    BY <1>2, <2>1 DEF Line, Chain, Copies, Rest, Passed
  <2>4. Copying
    BY <2>1 DEF Copying
  <2>5. Taken' /\ Early' = 0 /\ Early'  \in Nat
    BY <2>1 DEF Taken, Holding, Early
  <2>6. Lag'
    <3>1. 0 + 0 = 0
      OBVIOUS
    <3> QED  BY <1>4, <2>2, <2>3, <2>5, <3>1, Zenon DEF Lag
  <2> DEFINE n == sent["client"]
             q == Len(inq["client"])
  <2>7. Working /\ Owed = 0 /\ n \in Nat /\ q \in Nat
    BY <2>1, Counts DEF Working, Owed
  <2>8. Mark \in Nat /\ Mark =< n /\ Mark + 0 + q = n
    BY <2>7, MarkCounts
  <2>9. Mark' = IF Working' THEN n - q - 0 ELSE n
    <3>1. pc'["T1"] = "recv" => Owed' = 0
      BY DEF Owed
    <3>2. Working' <=> pc'["T1"] = "recv"
      BY <2>1 DEF Working, Holding
    <3> QED  BY <1>2, <3>1, <3>2 DEF Mark
  <2>10. n' = n
    BY <1>2
  <2> HIDE DEF n, q
  <2>11. Mark' \in Nat /\ Mark =< Mark' /\ (Working' => Mark' = Mark)
    BY <2>7, <2>8, <2>9
  <2>12. n' \in Nat /\ n =< n'
    BY <2>7, <2>10
  <2> USE DEF n
  <2>13. Duplicating' = Duplicating
    BY <1>2 DEF Duplicating, Synch, Asynch
  <2>14. Faithful(Line', dropped) /\ dropped' = dropped
    BY <1>2, <2>3 DEF CloneInv, CopyInv, Chained
  <2>16. Bounded' /\ Chained' /\ Followed'
    BY <2>2, <2>3, <2>4, <2>7, <2>11, <2>12, <2>13, <2>14, Keep
  <2> QED  BY <2>5, <2>6, <2>16 DEF CopyInv
<1> QED  BY <1>5, <1>6, <1>7 DEF handle_client, ForkT2, ForkT3, ForkT4

\* The clone reads the next unit.
LEMMA CopyRead ==
  ASSUME CloneInv, PeerRead("dup"), UNCHANGED procVars
  PROVE  Taken' /\ CopyInv'
<1> DEFINE o == outq["dup"]
           g == got["dup"]
<1>1. /\ o \in Seq(Nat) /\ o # <<>> /\ g \in Seq(Nat)
      /\ outq'["dup"] = Tail(o) /\ got'["dup"] = Append(g, Head(o))
      /\ UNCHANGED <<inq, sent, shut, peer, got["prod"], outq["prod"]>>
  BY Loops DEF PeerRead, CloneInv, OrderInv, TypeInv, TypeOK, SockTypeOK
<1>2. UNCHANGED <<mode, pc, buf, off, pipe, dropped>>
  BY DEF procVars
<1> DEFINE h == Head(o)
           t == Tail(o)
           e == <<h>>
<1>3. /\ h \in Nat /\ t \in Seq(Nat) /\ Len(t) = Len(o) - 1 /\ Len(o) \in Nat /\ Len(g) \in Nat
      /\ Head(o) = o[1]
  BY <1>1, HeadTailProperties, LenProperties
<1>4. o = e \o t
  <2>1. 1 \in 1 .. Len(o) /\ Len(o) \in 1 .. Len(o) /\ 1 + 1 = 2
    <3>1. Len(o) \in Nat \ {0}
      BY <1>1, EmptySeq
    <3> QED  BY <3>1
  <2>2. SubSeq(o, 1, Len(o)) = <<o[1]>> \o SubSeq(o, 2, Len(o))
    BY <1>1, <2>1, SubSeqRecursiveFirst
  <2>3. SubSeq(o, 1, Len(o)) = o
    BY <1>1, SubSeqFull
  <2>4. Tail(o) = SubSeq(o, 2, Len(o))
    <3>1. /\ Head(SubSeq(o, 1, Len(o))) = o[1]
          /\ Tail(SubSeq(o, 1, Len(o))) = SubSeq(o, 1 + 1, Len(o))
      BY <1>1, <2>1, HeadTailOfSubSeq
    <3> QED  BY <2>1, <2>3, <3>1
  <2> QED  BY <1>3, <2>2, <2>3, <2>4
<1> HIDE DEF h, t
<1>5. e \in Seq(Nat) /\ Units(e) = {h} /\ Len(e) = 1 /\ Append(g, h) = g \o e
      /\ Units(Append(g, h)) = Units(g) \cup {h} /\ Len(Append(g, h)) = Len(g) + 1
  <2>1. g \in Seq(Nat) /\ h \in Nat
    BY <1>1, <1>3
  <2>2. Append(g, h) = g \o e
    BY <2>1, AppendIsConcat
  <2> HIDE DEF g
  <2> QED  BY <2>1, <2>2, Snoc
<1> HIDE DEF e
<1>6. Line' = Line
  <2>1. (g \o e) \o t = g \o (e \o t)
    <3>1. Grouped(g, e, t)
      BY <1>1, <1>3, <1>5, Regroup
    <3> QED  BY <3>1, Zenon DEF Grouped
  <2>2. Line' = Append(g, h) \o t
    BY <1>1 DEF Line, h, t
  <2> HIDE DEF g, o
  <2>3. Append(g, h) \o t = g \o o
    BY <1>4, <1>5, <2>1
  <2> QED  BY <2>2, <2>3 DEF Line, g, o
<1>7. Rest' = Rest
  BY <1>2 DEF Rest
<1>8. Copies' = Copies
  <2>1. Units(o) = Units(e) \cup Units(t)
    BY <1>3, <1>4, <1>5, Splice
  <2>2. Units(got["dup"])' = Units(g) \cup {h} /\ Units(outq["dup"])' = Units(t)
    BY <1>1, <1>5 DEF h, t
  <2>3. Units(got["dup"])' \cup Units(outq["dup"])' = Units(g) \cup Units(o)
    BY <1>5, <2>1, <2>2
  <2> QED  BY <1>2, <1>7, <2>3 DEF Copies
<1>9. Passed("dup")' = Passed("dup")
  <2> DEFINE k == Len(g)
             m == Len(o)
  <2>1. k \in Nat /\ m \in Nat /\ Len(t) = m - 1 /\ Len(Append(g, h)) = k + 1
    BY <1>1, <1>3, <1>5
  <2>2. Passed("dup") = k + m /\ Passed("dup")' = Len(Append(g, h)) + Len(t)
    BY <1>1 DEF Passed, h, t
  <2> HIDE DEF k, m
  <2>3. (k + 1) + (m - 1) = k + m
    BY <2>1
  <2> QED  BY <2>1, <2>2, <2>3
<1>10. /\ Chain' = Chain /\ Writable("prod")' = Writable("prod")
       /\ Writable("dup")' = Writable("dup") /\ Gone' = Gone
  BY <1>1, <1>2, <1>6, <1>7 DEF Chain, Writable, Gone
<1>11. /\ Owed' = Owed /\ Early' = Early /\ Working' = Working /\ Duplicating' = Duplicating
       /\ Synch' = Synch
  BY <1>2 DEF Owed, Early, Working, Duplicating, Synch, Asynch
<1>12. Mark' = Mark /\ Forwarded' = Forwarded
  BY <1>1, <1>11 DEF Mark, Forwarded
<1>13. Stands("prod")' = Stands("prod") /\ Stands("dup")' = Stands("dup")
  BY <1>10 DEF Stands
<1>14. Copying' = Copying
  BY <1>2, <1>13 DEF Copying
<1>15. Taken' /\ Lag'
  BY <1>1, <1>2, <1>9, <1>11, <1>12, <1>13
     DEF CloneInv, CopyInv, Taken, Lag
<1>16. Bounded' /\ Chained' /\ Followed'
  BY <1>2, <1>6, <1>8, <1>10, <1>11, <1>12, <1>13, <1>14
     DEF CloneInv, CopyInv, Bounded, Chained, Followed
<1> QED  BY <1>15, <1>16 DEF CopyInv

\* A reset loses the end of what the clone has still to read, and the clone.
LEMMA CopyReset ==
  ASSUME CloneInv, Reset("dup", Gone), UNCHANGED procVars
  PROVE  Taken' /\ CopyInv'
<1> DEFINE o == outq["dup"]
           g == got["dup"]
<1>1. /\ "dup" \in Sock /\ "prod" \in Sock /\ outq \in [Sock -> Seq(Nat)]
      /\ o \in Seq(Nat) /\ g \in Seq(Nat) /\ Len(o) \in Nat
  BY Counts DEF CloneInv, OrderInv, TypeInv, TypeOK, SockTypeOK
<1>2. PICK k \in 0 .. Len(o) - 1 : outq' = [outq EXCEPT !["dup"] = SubSeq(@, 1, k)]
  BY DEF Reset
<1>3. /\ UNCHANGED <<inq, got, sent, shut, peer, mode, pc, buf, off, pipe, dropped>>
      /\ outq'["prod"] = outq["prod"] /\ (shut["dup"] \/ Gone)
      /\ outq'["dup"] = SubSeq(o, 1, k)
  BY <1>1, <1>2 DEF Reset, procVars
<1>4. k \in 0 .. Len(o) /\ k \in 1 - 1 .. Len(o) /\ Len(o) \in k .. Len(o) /\ Len(o) # 0
      /\ 1 \in 1 .. Len(o) + 1
  BY <1>1, <1>2
<1> DEFINE a == SubSeq(o, 1, k)
           z == SubSeq(o, k + 1, Len(o))
<1>5. a \in Seq(Nat)
  BY <1>1, <1>4, Prefix
<1>6. z \in Seq(Nat)
  <2>1. \A i \in k + 1 .. Len(o) : o[i] \in Nat
    <3>1. \A i \in 1 .. Len(o) : o[i] \in Nat
      BY <1>1, ElementOfSeq
    <3>2. \A i \in k + 1 .. Len(o) : i \in 1 .. Len(o)
      BY <1>1, <1>2
    <3> QED  BY <3>1, <3>2
  <2>2. k + 1 \in Int /\ Len(o) \in Int
    BY <1>1, <1>2
  <2> QED  BY <2>1, <2>2, SubSeqProperties
<1>7. a \o z = o
  <2>1. a \o z = SubSeq(o, 1, Len(o))
    BY <1>1, <1>4, ConcatAdjacentSubSeq
  <2> QED  BY <1>1, <2>1, SubSeqFull
<1>8. Line' = g \o a /\ Line = g \o (a \o z)
  BY <1>3, <1>7 DEF Line
<1> HIDE DEF a, z, o
<1>9. Faithful(Line', dropped) /\ Units(a) \subseteq Units(o)
  <2>1. (g \o a) \o z = g \o (a \o z) /\ g \o a \in Seq(Nat)
    <3> HIDE DEF g
    <3>1. g \in Seq(Nat)
      BY <1>1
    <3>2. (g \o a) \o z = g \o (a \o z)
      <4>1. Grouped(g, a, z)
        BY <1>5, <1>6, <3>1, Regroup
      <4> QED  BY <4>1, Zenon DEF Grouped
    <3>3. g \o a \in Seq(Nat)
      BY <1>5, <3>1, Splice
    <3> QED  BY <3>2, <3>3
  <2>2. Faithful((g \o a) \o z, dropped)
    BY <1>8, <2>1 DEF CloneInv, CopyInv, Chained
  <2> DEFINE l == g \o a
  <2>3. l \in Seq(Nat) /\ Faithful(l \o z, dropped)
    BY <2>1, <2>2
  <2> HIDE DEF l
  <2>4. Faithful(l, dropped)
    BY <1>6, <2>3, FaithfulPrefix
  <2>5. Units(a \o z) = Units(a) \cup Units(z)
    BY <1>5, <1>6, Splice
  <2> QED  BY <1>7, <1>8, <2>4, <2>5 DEF l
<1>10. Rest' = Rest /\ Copies' \subseteq Copies
  <2>1. Rest' = Rest
    BY <1>3 DEF Rest
  <2> QED  BY <1>3, <1>9, <2>1 DEF Copies, a, o
<1>11. pc["T1"] # "none"
  <2>1. Len(<<>>) = 0
    OBVIOUS
  <2> QED  BY <1>4, <2>1 DEF CloneInv, Control, o
<1>12. Gone' = Gone /\ ~Stands("dup")' /\ ~Copying' /\ Stands("prod")' = Stands("prod")
  BY <1>3, <1>11 DEF Gone, Stands, Writable, Copying
<1>13. Owed' = Owed /\ Working' = Working /\ Taken' /\ Lag'
  BY <1>3, <1>12 DEF Owed, Working, Taken, Lag, CloneInv
<1>14. Mark' = Mark /\ Forwarded' = Forwarded
  BY <1>3, <1>13 DEF Mark, Forwarded
<1>15. /\ Mark' \in Nat /\ Mark =< Mark' /\ sent["client"]' \in Nat
       /\ sent["client"] =< sent["client"]' /\ Forwarded' \in Nat /\ Forwarded =< Forwarded'
  <2>1. \A i \in Nat : i =< i
    OBVIOUS
  <2> QED  BY <1>3, <1>14, <2>1, Counts, MarkCounts
<1>16. dropped' = dropped
  BY <1>3
<1>17. Bounded' /\ Chained' /\ Followed'
  BY <1>9, <1>10, <1>12, <1>14, <1>15, <1>16, Keep
<1> QED  BY <1>13, <1>17 DEF CopyInv

\* The client writes: what is on its way is as far from the end as before.
LEMMA CopyWritten ==
  ASSUME CloneInv, PeerWrite("client", Gone), UNCHANGED procVars
  PROVE  Taken' /\ CopyInv'
<1> DEFINE n == sent["client"]
           q == Len(inq["client"])
           o == Owed
<1>1. /\ UNCHANGED <<outq, got, shut, peer, mode, pc, buf, off, pipe, dropped>>
      /\ sent'["client"] = n + 1 /\ Len(inq'["client"]) = q + 1
  <2>1. /\ "client" \in Sock /\ inq["client"] \in Seq(Nat) /\ n \in Nat /\ Base["client"] \in Nat
        /\ inq \in [Sock -> Seq(Nat)] /\ sent \in [Sock -> Nat]
    BY Counts, BaseAssumption DEF CloneInv, OrderInv, TypeInv, TypeOK, SockTypeOK
  <2>2. Base["client"] + n + 1 \in Nat
    BY <2>1
  <2>3. /\ UNCHANGED <<outq, got, shut, peer, mode, pc, buf, off, pipe, dropped>>
        /\ sent'["client"] = n + 1
        /\ inq'["client"] = Append(inq["client"], Base["client"] + n + 1)
    BY <2>1 DEF PeerWrite, procVars
  <2> QED  BY <2>1, <2>2, <2>3, AppendProperties
<1>2. /\ Line' = Line /\ Chain' = Chain /\ Copies' = Copies /\ Copying' = Copying
      /\ Owed' = Owed /\ Early' = Early /\ Working' = Working /\ Duplicating' = Duplicating
      /\ Synch' = Synch /\ Forwarded' = Forwarded /\ Passed("dup")' = Passed("dup")
      /\ Stands("prod")' = Stands("prod") /\ Stands("dup")' = Stands("dup")
  <2>1. /\ Rest' = Rest /\ Line' = Line /\ Gone' = Gone /\ Writable("prod")' = Writable("prod")
        /\ Writable("dup")' = Writable("dup") /\ Synch' = Synch /\ Asynch' = Asynch
    BY <1>1 DEF Rest, Line, Gone, Writable, Synch, Asynch
  <2>2. Stands("prod")' = Stands("prod") /\ Stands("dup")' = Stands("dup")
    BY <2>1 DEF Stands
  <2>3. /\ Chain' = Chain /\ Copies' = Copies /\ Copying' = Copying
        /\ Duplicating' = Duplicating
    BY <1>1, <2>1, <2>2 DEF Chain, Copies, Copying, Duplicating
  <2>4. /\ Owed' = Owed /\ Early' = Early /\ Working' = Working
        /\ Forwarded' = Forwarded /\ Passed("dup")' = Passed("dup")
    BY <1>1 DEF Owed, Early, Working, Forwarded, Passed
  <2> QED  BY <2>1, <2>2, <2>3, <2>4
<1>3. Lag'
  BY <1>2 DEF CloneInv, CopyInv, Lag
<1>4. n \in Nat /\ q \in Nat /\ o \in Nat
  BY Counts
<1>5. Mark = (IF Working THEN n - q - o ELSE n)
      /\ Mark' = (IF Working THEN (n + 1) - (q + 1) - o ELSE n + 1)
  BY <1>1, <1>2 DEF Mark
<1>6. Mark \in Nat
  BY MarkCounts
<1>7. Taken'
  <2> DEFINE b == buf["T1"]
             m == Len(b)
  <2>1. m \in Nat
    BY Counts
  <2>2. pc["T1"] \in Holding => q + m =< n /\ \A i \in 1 .. m : b[i] = n - q - m + i
    BY DEF CloneInv, Taken
  <2> HIDE DEF m, n, q
  <2>3. pc["T1"] \in Holding =>
           (q + 1) + m =< n + 1 /\ \A i \in 1 .. m : b[i] = (n + 1) - (q + 1) - m + i
    <3>1. (n + 1) - (q + 1) - m = n - q - m /\ (q + m =< n => (q + 1) + m =< n + 1)
      BY <1>4, <2>1
    <3> QED  BY <2>2, <3>1
  <2> QED  BY <1>1, <2>3 DEF Taken, m
<1> HIDE DEF n, q, o
<1>8. Mark' \in Nat /\ Mark =< Mark' /\ (Working' => Mark' = Mark)
  BY <1>2, <1>4, <1>5, <1>6
<1>9. n + 1 \in Nat /\ n =< n + 1
  BY <1>4
<1>10. sent["client"]' \in Nat /\ sent["client"] =< sent["client"]'
  BY <1>1, <1>9 DEF n
<1>11. Forwarded' \in Nat /\ Forwarded =< Forwarded'
  <2>1. \A i \in Nat : i =< i
    OBVIOUS
  <2> QED  BY <1>1, <1>2, <2>1, Counts
<1>12. Faithful(Line', dropped) /\ dropped' = dropped
  BY <1>1, <1>2 DEF CloneInv, CopyInv, Chained
<1>13. Bounded' /\ Chained' /\ Followed'
  BY <1>2, <1>8, <1>10, <1>11, <1>12, Keep
<1> QED  BY <1>3, <1>7, <1>13 DEF CopyInv

\* Peers read, write, leave and have connections reset.
LEMMA CopyPeers ==
  ASSUME CloneInv, Peers
  PROVE  Taken' /\ CopyInv'
<1>1. PICK x \in Sock : Reads(x) \/ Writes(x) \/ Quits(x) \/ Resets(x)
  BY DEF Peers
<1>2. /\ UNCHANGED procVars /\ x \in {"client", "prod", "dup"}
      /\ \/ PeerRead(x) \/ PeerWrite(x, Gone) \/ PeerHalfClose(x) \/ PeerClose(x)
         \/ Reset(x, Gone)
  BY <1>1, SockAssumption DEF Reads, Writes, ClientWrite, ServerWrite, Quits, Resets
<1>3. /\ outq \in [Sock -> Seq(Nat)] /\ inq \in [Sock -> Seq(Nat)] /\ got \in [Sock -> Seq(Nat)]
      /\ sent \in [Sock -> Nat] /\ peer \in [Sock -> PeerState] /\ SockTypeOK
      /\ {"client", "prod", "dup"} \subseteq Sock
  BY Loops DEF CloneInv, OrderInv, TypeInv, TypeOK, SockTypeOK
<1>4. UNCHANGED <<mode, pc, buf, off, pipe, dropped>>
  BY <1>2 DEF procVars
<1>5. Gone' = Gone /\ Rest' = Rest
  BY <1>4 DEF Gone, Rest
<1>6. ASSUME UNCHANGED <<got["dup"], outq["dup"], inq["client"], sent["client"]>>,
             (pc["T1"] = "none" \/ Stands("prod")') => Forwarded' = Forwarded,
             shut' = shut, \A s \in {"prod", "dup"} : peer'[s] \in {"open", "half"} =>
                                                       peer[s] \in {"open", "half"}
      PROVE  Taken' /\ CopyInv'
  <2>1. (Stands("prod")' => Stands("prod")) /\ (Stands("dup")' => Stands("dup"))
    BY <1>5, <1>6 DEF Stands, Writable
  <2>2. UNCHANGED <<got["dup"], outq["dup"], inq["client"], sent["client"], mode, pipe, dropped,
                    pc["T1"], buf["T1"], off["T1"], Rest>>
    BY <1>4, <1>5, <1>6
  <2>3. pc["T3"] = "killed" => pc'["T3"] = "killed"
    BY <1>4
  <2> QED  BY <1>6, <2>1, <2>2, <2>3, CopyQuiet
<1>7. CASE PeerRead(x)
  <2>1. CASE x = "dup"
    BY <1>2, <1>7, <2>1, CopyRead
  <2>2. CASE x # "dup"
    <3>1. UNCHANGED <<got["dup"], outq["dup"], inq, sent, shut, peer>>
      BY <1>3, <1>7, <2>2 DEF PeerRead
    <3>2. Forwarded' = Forwarded
      <4>1. CASE x = "prod"
        <5>1. Ahead("client", "prod")
          BY DEF CloneInv, OrderInv, Order, Stream
        <5>2. Passed("prod")' = Passed("prod")
          BY <1>3, <1>7, <4>1, <5>1, AheadRead
        <5> QED  BY <5>2 DEF Passed, Forwarded
      <4>2. CASE x = "client"
        BY <1>3, <1>7, <4>2 DEF PeerRead, Forwarded
      <4> QED  BY <1>2, <2>2, <4>1, <4>2
    <3> QED  BY <1>6, <3>1, <3>2
  <2> QED  BY <2>1, <2>2
<1>8. CASE PeerWrite(x, Gone)
  <2>1. CASE x = "client"
    BY <1>2, <1>8, <2>1, CopyWritten
  <2>2. CASE x # "client"
    <3>1. UNCHANGED <<got, outq, inq["client"], sent["client"], shut, peer>>
      BY <1>3, <1>8, <2>2 DEF PeerWrite
    <3> QED  BY <1>6, <3>1 DEF Forwarded
  <2> QED  BY <2>1, <2>2
<1>9. CASE PeerHalfClose(x) \/ PeerClose(x)
  <2>1. /\ UNCHANGED <<got, outq, inq, sent, shut>>
        /\ \A s \in {"prod", "dup"} : peer'[s] \in {"open", "half"} =>
                                       peer[s] \in {"open", "half"}
    BY <1>3, <1>9 DEF PeerHalfClose, PeerClose
  <2> QED  BY <1>6, <2>1 DEF Forwarded
<1>10. CASE Reset(x, Gone)
  <2>1. CASE x = "dup"
    BY <1>2, <1>10, <2>1, CopyReset
  <2>2. CASE x # "dup"
    <3>1. UNCHANGED <<got, outq["dup"], inq, sent, shut, peer>>
      BY <1>3, <1>10, <2>2 DEF Reset
    <3>2. CASE x = "prod"
      <4>1. Len(outq["prod"]) # 0 /\ (shut["prod"] \/ Gone)
        <5>1. Ahead("client", "prod")
          BY DEF CloneInv, OrderInv, Order, Stream
        <5> QED  BY <1>3, <1>10, <3>2, <5>1, AheadReset
      <4>2. pc["T1"] # "none"
        <5>1. Len(<<>>) = 0
          OBVIOUS
        <5> QED  BY <4>1, <5>1 DEF CloneInv, Control
      <4>3. ~Stands("prod")'
        BY <1>5, <3>1, <4>1 DEF Stands, Writable
      <4> QED  BY <1>6, <3>1, <4>2, <4>3
    <3>3. CASE x = "client"
      <4>1. outq'["prod"] = outq["prod"]
        BY <1>3, <1>10, <3>3 DEF Reset
      <4> QED  BY <1>6, <3>1, <4>1 DEF Forwarded
    <3> QED  BY <1>2, <2>2, <3>2, <3>3
  <2> QED  BY <2>1, <2>2
<1> QED  BY <1>2, <1>7, <1>8, <1>9, <1>10

----------------------------------------------------------------------------
(* The invariant holds.                                                    *)

\* A step of a worker keeps each mode to its own way to the clone.
LEMMA WorkersControl ==
  ASSUME CloneInv, T1 \/ T2 \/ T3 \/ T4
  PROVE  Control'
<1>1. /\ {"T1", "T2", "T3", "T4"} \subseteq Proc /\ {"client", "prod", "dup"} \subseteq Sock
      /\ pc \in [Proc -> Step] /\ outq \in [Sock -> Seq(Nat)] /\ Control
      /\ pipe \in Seq(Nat) /\ Len(pipe) \in Nat
  BY Loops, Counts DEF CloneInv, OrderInv, TypeInv, TypeOK, SockTypeOK
<1>2. mode' = mode /\ Synch' = Synch
  BY DEF T1, T2, T3, T4, Synch
<1>3. CASE T1
  <2>1. /\ pc["T1"] # "none" /\ pc'["T1"] # "none" /\ pc'["T3"] = pc["T3"]
        /\ (Synch => pc'["T1"] # "write" /\ pipe' = pipe) /\ (~Synch => pc'["T1"] # "sendDup")
    <3>1. CASE Recv("T1", "client", "send", "shut1") /\ UNCHANGED pipeVars
      BY <1>1, <3>1 DEF Recv, Goto, pipeVars
    <3>2. ASSUME NEW at \in {"send", "sendDup"}, NEW s, NEW next, Send("T1", at, s, next),
                 UNCHANGED pipeVars, next # "none", Synch => next # "write",
                 ~Synch => next # "sendDup"
          PROVE  /\ pc["T1"] # "none" /\ pc'["T1"] # "none" /\ pc'["T3"] = pc["T3"]
                 /\ Synch => pc'["T1"] # "write" /\ pipe' = pipe
                 /\ ~Synch => pc'["T1"] # "sendDup"
      <4>1. pc["T1"] = at /\ pipe' = pipe
            /\ (Goto("T1", next) \/ Goto("T1", "killed") \/ pc' = pc)
        BY <3>2 DEF Send, pipeVars
      <4>2. pc'["T1"] \in {next, "killed", pc["T1"]} /\ pc'["T3"] = pc["T3"]
        BY <1>1, <4>1 DEF Goto
      <4> QED  BY <1>1, <3>2, <4>1, <4>2 DEF Control
    <3>3. CASE WritePipe("T1", "recv") /\ ~Synch
      BY <1>1, <3>3 DEF WritePipe, Goto
    <3>4. ASSUME NEW at \in {"shut1", "shut2", "shut3"}, NEW s,
                 NEW next \in {"shut2", "shut3", "done"}, Shut("T1", at, s, next),
                 UNCHANGED pipeVars
          PROVE  /\ pc["T1"] # "none" /\ pc'["T1"] # "none" /\ pc'["T3"] = pc["T3"]
                 /\ Synch => pc'["T1"] # "write" /\ pipe' = pipe
                 /\ ~Synch => pc'["T1"] # "sendDup"
      <4>1. pc["T1"] = at /\ pc'["T1"] = next /\ pc'["T3"] = pc["T3"]
        BY <1>1, <3>4 DEF Shut, Goto
      <4> QED  BY <3>4, <4>1 DEF pipeVars
    <3>5. \/ Recv("T1", "client", "send", "shut1") /\ UNCHANGED pipeVars
          \/ Send("T1", "send", "prod", "recv") /\ UNCHANGED pipeVars
          \/ Synch /\ Send("T1", "send", "prod", "sendDup") /\ UNCHANGED pipeVars
          \/ ~Synch /\ Send("T1", "send", "prod", "write") /\ UNCHANGED pipeVars
          \/ Send("T1", "sendDup", "dup", "recv") /\ UNCHANGED pipeVars
          \/ WritePipe("T1", "recv") /\ ~Synch
          \/ \E at \in {"shut1", "shut2", "shut3"}, s \in Sock,
                next \in {"shut2", "shut3", "done"} :
                Shut("T1", at, s, next) /\ UNCHANGED pipeVars
      BY <1>1, <1>3 DEF T1, forward_data, forward_data_synch, forward_data_asynch, Shut2, Shut3
    <3> QED  BY <3>1, <3>2, <3>3, <3>4, <3>5
  <2> QED  BY <1>1, <1>2, <2>1 DEF Control
<1>4. CASE T2
  <2>1. pc["T2"] # "none" /\ (UNCHANGED pc \/ \E next : Goto("T2", next)) /\ pipe' = pipe
    BY <1>4 DEF T2, forward_data, receive_data_synch, Recv, Send, Shut, Shut2, Shut3,
                RecvDup, pipeVars
  <2>2. pc["T1"] # "none" /\ UNCHANGED <<pc["T1"], pc["T3"]>>
    BY <1>1, <2>1 DEF Goto, Control
  <2> QED  BY <1>1, <1>2, <2>1, <2>2 DEF Control
<1>5. CASE T3
  <2>1. pc["T3"] # "none"
    BY <1>5 DEF T3, forward_data_pipe, ReadPipe, Send
  <2>2. pc["T1"] # "none"
    BY <1>1, <2>1 DEF Control
  <2>3. CASE pc["T3"] = "sleep" /\ Goto("T3", "recv") /\ UNCHANGED pipeVars
    BY <1>1, <1>2, <2>2, <2>3 DEF Control, Goto, pipeVars
  <2>4. CASE ReadPipe("T3")
    <3>1. ~Synch
      <4>1. Len(<<>>) = 0 /\ \A k \in 1 .. BufSize : ~(k =< 0)
        BY BufSizeAssumption
      <4> QED  BY <1>1, <2>4, <4>1 DEF ReadPipe, Control
    <3> QED  BY <1>1, <1>2, <2>2, <2>4, <3>1 DEF Control, ReadPipe, Goto
  <2>5. CASE Send("T3", "send", "dup", "recv")
    <3>1. /\ pc["T3"] = "send"
          /\ Goto("T3", "recv") \/ Goto("T3", "killed") \/ pc' = pc
      BY <2>5 DEF Send
    <3>2. ~Synch /\ pc'["T3"] \in {"recv", "killed", "send"} /\ pc'["T1"] = pc["T1"]
      BY <1>1, <3>1 DEF Control, Goto
    <3> QED  BY <1>1, <1>2, <2>2, <3>2 DEF Control
  <2> QED  BY <1>5, <2>3, <2>4, <2>5 DEF T3, forward_data_pipe
<1>6. CASE T4
  <2>1. /\ UNCHANGED pc \/ \E next : Goto("T4", next)
        /\ UNCHANGED <<outq, got, pipe>>
    BY <1>6 DEF T4, receive_data_asynch, Drain, DrainEnd, Shut, ShutDown, Receive, sockVars,
                pipeVars
  <2>2. UNCHANGED <<pc["T1"], pc["T2"], pc["T3"]>>
    BY <1>1, <2>1 DEF Goto
  <2> QED  BY <1>1, <1>2, <2>1, <2>2 DEF Control
<1> QED  BY <1>3, <1>4, <1>5, <1>6

\* So do a step of H and one of the peers.
LEMMA NextControl ==
  ASSUME CloneInv, Next
  PROVE  Control'
<1>1. /\ {"H", "T1", "T2", "T3", "T4"} \subseteq Proc /\ {"client", "prod", "dup"} \subseteq Sock
      /\ pc \in [Proc -> Step] /\ outq \in [Sock -> Seq(Nat)] /\ got \in [Sock -> Seq(Nat)]
      /\ Control
  BY Loops DEF CloneInv, OrderInv, TypeInv, TypeOK, SockTypeOK
<1>2. CASE handle_client
  <2>1. /\ UNCHANGED <<outq, got, mode, pipe>> /\ Synch' = Synch
    BY <1>2 DEF handle_client, ConnectProd, ConnectDup, MakePipe, ForkT1, ForkT2, ForkT3,
                ForkT4, Forks, Connected, sockVars, Synch
  <2>2. CASE ConnectProd \/ ConnectDup \/ MakePipe
    <3>1. UNCHANGED <<pc["T1"], pc["T2"], pc["T3"]>>
      BY <1>1, <2>2 DEF ConnectProd, ConnectDup, MakePipe, Goto
    <3> QED  BY <1>1, <2>1, <3>1 DEF Control
  <2>3. ASSUME NEW p \in {"T1", "T2", "T3", "T4"}, NEW last, Forks(p, last),
               p # "T1" => pc["T1"] # "none"
        PROVE  Control'
    <3>1. /\ pc'[p] \in {"recv", "sleep", "done"} /\ (p # "T3" => pc'[p] \in {"recv", "done"})
          /\ \A r \in {"T1", "T2", "T3"} : r # p => pc'[r] = pc[r]
      BY <1>1, <2>3 DEF Forks, Entry
    <3>2. pc'["T1"] # "none"
      BY <2>3, <3>1
    <3> QED  BY <1>1, <2>1, <2>3, <3>1, <3>2 DEF Control
  <2>4. CASE ForkT1
    BY <2>3, <2>4 DEF ForkT1
  <2>5. CASE ForkT2
    BY <2>3, <2>5 DEF ForkT2
  <2>6. CASE ForkT3
    BY <1>1, <2>3, <2>6 DEF ForkT3, Control
  <2>7. CASE ForkT4
    BY <1>1, <2>3, <2>7 DEF ForkT4, Control
  <2> QED  BY <1>2, <2>2, <2>4, <2>5, <2>6, <2>7 DEF handle_client
<1>3. CASE Peers
  <2>1. PICK x \in Sock : \/ PeerRead(x) \/ PeerWrite(x, Gone) \/ PeerHalfClose(x)
                          \/ PeerClose(x) \/ Reset(x, Gone)
    BY <1>3 DEF Peers, Reads, Writes, ClientWrite, ServerWrite, Quits, Resets
  <2>2. UNCHANGED <<pc, mode, pipe>> /\ Synch' = Synch
    BY <1>3 DEF Peers, Reads, Writes, Quits, Resets, procVars, Synch
  <2>3. ASSUME NEW s \in {"prod", "dup"}, got[s] = <<>>, outq[s] = <<>>
        PROVE  got'[s] = <<>> /\ outq'[s] = <<>>
    <3>1. CASE PeerRead(x)
      BY <1>1, <2>3, <3>1 DEF PeerRead
    <3>2. CASE Reset(x, Gone)
      <4>1. Len(<<>>) = 0 /\ 0 .. 0 - 1 = {}
        OBVIOUS
      <4>2. Len(outq[x]) # 0
        BY <3>2, <4>1 DEF Reset
      <4> QED  BY <1>1, <2>3, <3>2, <4>1, <4>2 DEF Reset
    <3>3. CASE PeerWrite(x, Gone) \/ PeerHalfClose(x) \/ PeerClose(x)
      BY <2>3, <3>3 DEF PeerWrite, PeerHalfClose, PeerClose
    <3> QED  BY <2>1, <3>1, <3>2, <3>3
  <2> QED  BY <1>1, <2>2, <2>3 DEF Control
<1> QED  BY <1>2, <1>3, WorkersControl DEF Next

\* At the start there is no copy.
LEMMA InitCloneInv == Init => CloneInv
<1> SUFFICES ASSUME Init PROVE CloneInv
  OBVIOUS
<1>1. /\ {"client", "prod", "dup"} \subseteq Sock
      /\ \A p \in {"T1", "T2", "T3"} : pc[p] = "none"
      /\ pipe = <<>> /\ dropped = {}
  BY SockAssumption DEF Init, Proc, Worker
<1>2. \A s \in {"client", "prod", "dup"} :
         got[s] = <<>> /\ outq[s] = <<>> /\ inq[s] = <<>> /\ sent[s] = 0
  BY <1>1 DEF Init, SockInit
<1>3. OrderInv
  BY InitTypeInv, InitOrder DEF OrderInv
<1>4. Control /\ Taken
  BY <1>1, <1>2 DEF Control, Taken, Holding
<1>5. Len(<<>>) = 0 /\ 0 + 0 = 0 /\ 0 - 0 = 0 /\ Units(<<>>) = {} /\ <<>> \o <<>> = <<>>
  <2>1. <<>> \in Seq(Nat)
    OBVIOUS
  <2>2. <<>> \o <<>> = <<>>
    BY <2>1, ConcatEmptySeq
  <2> QED  BY <2>2 DEF Units
<1>6. Rest = <<>>
  BY <1>1 DEF Rest
<1>7. Line = <<>> /\ Chain = <<>> /\ Copies = {}
  BY <1>1, <1>2, <1>5, <1>6 DEF Line, Chain, Copies
<1>8. Mark = 0
  <2>1. Working /\ Owed = 0
    BY <1>1 DEF Working, Owed
  <2>2. sent["client"] = 0 /\ Len(inq["client"]) = 0
    BY <1>2, <1>5
  <2>3. Mark = sent["client"] - Len(inq["client"]) - Owed
    BY <2>1 DEF Mark
  <2>4. (0 - 0) - 0 = 0
    OBVIOUS
  <2> QED  BY <2>1, <2>2, <2>3, <2>4, Zenon
<1>9. Forwarded = 0 /\ Passed("dup") = 0 /\ Early = 0
  BY <1>1, <1>2, <1>5, Zenon DEF Forwarded, Passed, Early
<1>10. Faithful(<<>>, {}) /\ 1 .. 0 = {} /\ 0 =< 0
  BY <1>5 DEF Faithful, Increasing
<1>11. Bounded /\ Followed
  BY <1>1, <1>5, <1>7, <1>8, <1>10 DEF Bounded, Followed
<1>12. Chained
  BY <1>1, <1>7, <1>8, <1>10 DEF Chained
<1>13. Lag
  BY <1>5, <1>9, Zenon DEF Lag
<1> QED  BY <1>3, <1>4, <1>11, <1>12, <1>13 DEF CloneInv, CopyInv

\* CloneInv is inductive.
LEMMA NextCloneInv == CloneInv /\ [Next]_vars => CloneInv'
<1> SUFFICES ASSUME CloneInv, [Next]_vars PROVE CloneInv'
  OBVIOUS
<1>1. OrderInv'
  BY NextOrder DEF CloneInv
<1>2. CASE UNCHANGED vars
  <2>1. /\ UNCHANGED <<got, outq, inq, sent, shut, peer, mode, pipe, dropped, pc, buf, off>>
    BY <1>2 DEF vars, sockVars
  <2>2. Rest' = Rest /\ Gone' = Gone /\ Forwarded' = Forwarded /\ Synch' = Synch
    BY <2>1 DEF Rest, Gone, Forwarded, Synch
  <2>3. Writable("prod")' = Writable("prod") /\ Writable("dup")' = Writable("dup")
    BY <2>1 DEF Writable
  <2>4. Stands("prod")' = Stands("prod") /\ Stands("dup")' = Stands("dup")
    BY <2>2, <2>3 DEF Stands
  <2>5. Control'
    BY <2>1, <2>2 DEF CloneInv, Control
  <2>6. UNCHANGED <<got["dup"], outq["dup"], inq["client"], sent["client"], mode, pipe, dropped,
                    pc["T1"], buf["T1"], off["T1"], Rest>>
    BY <2>1, <2>2
  <2>7. pc["T3"] = "killed" => pc'["T3"] = "killed"
    BY <2>1
  <2>8. Taken' /\ CopyInv'
    BY <2>2, <2>4, <2>6, <2>7, CopyQuiet
  <2> QED  BY <1>1, <2>5, <2>8 DEF CloneInv
<1>3. CASE Next
  <2>1. Control'
    BY <1>3, NextControl
  <2>2. Taken' /\ CopyInv'
    BY <1>3, CopyForks, CopyOfT1, CopyOfT3, CopyOthers, CopyPeers DEF Next
  <2> QED  BY <1>1, <2>1, <2>2 DEF CloneInv
<1> QED  BY <1>2, <1>3

----------------------------------------------------------------------------
(* What the clone gets.                                                    *)

\* The clone reads the client's units in order and misses none but those of the
\* buffers whose overflow T1 has reported, whatever the sizes, the resets and the
\* order of the workers' steps: T3's partial reads and sends make no gap.
THEOREM CopyFaithful == Spec => []CloneFaithful
<1>1. CloneInv => CloneFaithful
  <2> SUFFICES ASSUME CloneInv PROVE CloneFaithful
    OBVIOUS
  <2> DEFINE g == got["dup"]
             o == outq["dup"]
  <2>1. g \in Seq(Nat) /\ o \in Seq(Nat) /\ Faithful(g \o o, dropped)
    BY Counts DEF CloneInv, CopyInv, Chained, Line
  <2> HIDE DEF g, o
  <2>2. Faithful(g, dropped)
    BY <2>1, FaithfulPrefix
  <2> QED  BY <2>2 DEF CloneFaithful, Faithful, g
<1> QED  BY <1>1, InitCloneInv, NextCloneInv, PTL DEF Spec

\* While production is connected nothing is in the pipe or at the clone that send()
\* has not taken for production, in either mode.
THEOREM CopyFollows == Spec => []CloneNeverAhead
<1>1. CloneInv => CloneNeverAhead
  BY DEF CloneInv, CopyInv, Followed, Copies, CloneNeverAhead
<1> QED  BY <1>1, InitCloneInv, NextCloneInv, PTL DEF Spec

\* With -s the clone lags by no more than a buffer while both servers are connected.
THEOREM SynchLags == Spec => []SynchLag
<1>1. CloneInv => SynchLag
  <2> SUFFICES ASSUME CloneInv, Synch, Stands("prod"), Stands("dup")
               PROVE  Forwarded - (Len(got["dup"]) + Len(outq["dup"])) =< BufSize
    BY DEF SynchLag
  <2> DEFINE f == Forwarded
             c == Passed("dup")
             e == Early
             k == off["T1"]
             m == Len(buf["T1"])
  <2>1. f = c + e
    BY DEF CloneInv, CopyInv, Lag
  <2>2. /\ f \in Nat /\ c \in Nat /\ k \in Nat /\ m \in Nat /\ m =< BufSize /\ BufSize \in Nat
        /\ pc["T1"] \in {"send", "sendDup"} => k < m
    BY Counts, BufSizeAssumption
  <2>3. e = 0 \/ (k < m /\ (e = k \/ e = m - k))
    BY <2>2 DEF Early
  <2>4. f - c =< BufSize
    <3> HIDE DEF f, c, e, k, m
    <3> QED  BY <2>1, <2>2, <2>3
  <2> QED  BY <2>4 DEF Passed
<1> QED  BY <1>1, InitCloneInv, NextCloneInv, PTL DEF Spec

----------------------------------------------------------------------------
(* The debug window.                                                       *)

\* Units in order between two bounds are no more than there is room for.
LEMMA Room ==
  ASSUME NEW q \in Seq(Nat), NEW l \in Nat, NEW m \in Nat, l =< m,
         Increasing(q), \A u \in Units(q) : l < u /\ u =< m
  PROVE  l + Len(q) =< m
<1> DEFINE k == Len(q)
           f == [i \in 1 .. k |-> q[i]]
<1>1. k \in Nat /\ \A i \in 1 .. k : q[i] \in l + 1 .. m
  <2>1. k \in Nat /\ \A i \in 1 .. k : q[i] \in Nat /\ q[i] \in Units(q)
    BY LenProperties, ElementOfSeq DEF Units
  <2> QED  BY <2>1
<1>2. \A i, j \in 1 .. k : i # j => q[i] # q[j]
  <2>1. \A i, j \in 1 .. k : i # j => i < j \/ j < i
    BY <1>1
  <2>2. \A i, j \in 1 .. k : i < j => q[i] < q[j]
    BY DEF Increasing
  <2> QED  BY <1>1, <2>1, <2>2
<1>3. f \in Injection(1 .. k, l + 1 .. m)
  BY <1>1, <1>2 DEF Injection, IsInjective
<1>4. /\ IsFiniteSet(l + 1 .. m)
      /\ Cardinality(1 .. k) = k
      /\ Cardinality(l + 1 .. m) = m - l
  <2>1. 1 \in Int /\ k \in Int /\ l + 1 \in Int /\ m \in Int
    BY <1>1
  <2>2. Cardinality(1 .. k) = IF 1 > k THEN 0 ELSE k - 1 + 1
    BY <2>1, FS_Interval
  <2>3. /\ IsFiniteSet(l + 1 .. m)
        /\ Cardinality(l + 1 .. m) = IF l + 1 > m THEN 0 ELSE m - (l + 1) + 1
    BY <2>1, FS_Interval
  <2> QED  BY <1>1, <2>2, <2>3
<1>5. Cardinality(1 .. k) =< Cardinality(l + 1 .. m)
  <2> HIDE DEF k, f
  <2> QED  BY <1>3, <1>4, FS_Injection
<1> HIDE DEF k, f
<1>6. l + k =< m
  BY <1>1, <1>4, <1>5
<1> QED  BY <1>6 DEF k

\* What the pipe holds lies between what the clone has read and T1's buffer.
LEMMA PipeAhead ==
  ASSUME CloneInv, Copying
  PROVE  LastRead \in Nat /\ LastRead + Len(pipe) =< Mark
<1> DEFINE g == got["dup"]
           l == Len(g)
           h == Line \o Rest
           k == Len(h)
<1>1. /\ g \in Seq(Nat) /\ outq["dup"] \in Seq(Nat) /\ pipe \in Seq(Nat) /\ Rest \in Seq(Nat)
      /\ Line \in Seq(Nat) /\ Mark \in Nat /\ Copies \subseteq Nat
      /\ l \in Nat /\ Len(pipe) \in Nat
  BY Counts, CopyParts, MarkCounts
<1>2. h \in Seq(Nat) /\ k \in Nat /\ l =< k /\ \A i \in 1 .. l : h[i] = g[i]
  <2>1. /\ Len(Line) = l + Len(outq["dup"]) /\ Len(outq["dup"]) \in Nat
        /\ \A i \in 1 .. l : Line[i] = g[i]
    BY <1>1, Splice, LenProperties DEF Line
  <2>2. /\ h \in Seq(Nat) /\ Len(h) = Len(Line) + Len(Rest) /\ Len(Rest) \in Nat
        /\ \A i \in 1 .. Len(Line) : h[i] = Line[i]
    BY <1>1, Splice, LenProperties
  <2> HIDE DEF g, l, h
  <2> QED  BY <1>1, <2>1, <2>2
<1>3. Chain = h \o pipe
  <2>1. Grouped(Line, Rest, pipe)
    BY <1>1, Regroup
  <2> QED  BY <2>1 DEF Grouped, Chain
<1> DEFINE s == h \o pipe
<1>4. /\ Len(s) = k + Len(pipe)
      /\ \A i \in 1 .. k : s[i] = h[i]
      /\ \A i \in 1 .. Len(pipe) : s[k + i] = pipe[i]
  BY <1>1, <1>2, Splice
<1>5. \A i, j \in 1 .. k + Len(pipe) : i < j => s[i] < s[j]
  BY <1>3, <1>4 DEF CloneInv, CopyInv, Chained, Faithful, Increasing
<1>6. Increasing(pipe)
  <2> DEFINE n == Len(pipe)
  <2>1. \A i, j \in 1 .. n : i < j => pipe[i] < pipe[j]
    <3> HIDE DEF s, k, h
    <3>1. \A i \in 1 .. n : k + i \in 1 .. k + n /\ s[k + i] = pipe[i]
      BY <1>1, <1>2, <1>4
    <3>2. \A i, j \in 1 .. n : i < j => k + i < k + j
      BY <1>1, <1>2
    <3> QED  BY <1>5, <3>1, <3>2
  <2> QED  BY <2>1 DEF Increasing
<1>7. \A u \in Copies : u \in Nat /\ u =< Mark
  BY <1>1 DEF CloneInv, CopyInv, Bounded
<1>8. /\ LastRead \in Nat /\ LastRead =< Mark
      /\ \A u \in Units(pipe) : LastRead < u /\ u =< Mark
  <2>1. \A i \in 1 .. Len(pipe) : pipe[i] \in Copies
    BY DEF Copies, Units
  <2>2. CASE g = <<>>
    <3>1. LastRead = 0
      BY <2>2 DEF LastRead
    <3>2. \A i \in 1 .. Len(Chain) : Chain[i] > 0
      BY DEF CloneInv, CopyInv, Chained, Faithful
    <3>3. \A i \in 1 .. Len(pipe) : k + i \in 1 .. Len(s) /\ pipe[i] = s[k + i]
      <4> HIDE DEF s, k, h
      <4> QED  BY <1>1, <1>2, <1>4
    <3>4. \A i \in 1 .. Len(pipe) : pipe[i] > 0
      BY <1>3, <3>2, <3>3
    <3> QED  BY <1>1, <1>7, <2>1, <3>1, <3>4 DEF Units
  <2>3. CASE g # <<>>
    <3>1. LastRead = g[l] /\ l \in 1 .. l
      BY <1>1, <2>3, EmptySeq DEF LastRead
    <3>2. LastRead \in Copies
      BY <3>1 DEF Copies, Units
    <3>3. \A i \in 1 .. Len(pipe) : g[l] < pipe[i]
      <4> HIDE DEF s, k, h, l
      <4>1. \A i \in 1 .. Len(pipe) :
               /\ l \in 1 .. k + Len(pipe) /\ k + i \in 1 .. k + Len(pipe) /\ l < k + i
               /\ s[l] = g[l] /\ s[k + i] = pipe[i]
        BY <1>1, <1>2, <1>4, <3>1
      <4> QED  BY <1>5, <4>1
    <3> QED  BY <1>7, <2>1, <3>1, <3>2, <3>3 DEF Units
  <2> QED  BY <2>2, <2>3
<1> QED  BY <1>1, <1>6, <1>8, Room

\* The steps of the proxy change neither what has been written nor what has been read;
\* T1 alone sends to production, and gives units up.
LEMMA InsideSteps ==
  ASSUME CloneInv, handle_client \/ T1 \/ T2 \/ T3 \/ T4
  PROVE  /\ UNCHANGED <<sent, got>>
         /\ \/ outq'["prod"] = outq["prod"]
            \/ \E next \in {"recv", "sendDup", "write"} : Send("T1", "send", "prod", next)
         /\ dropped' = dropped \/ (Asynch /\ ~Synch /\ WritePipe("T1", "recv") /\ mode' = mode)
<1>1. outq \in [Sock -> Seq(Nat)] /\ {"client", "prod", "dup"} \subseteq Sock
  BY Loops DEF CloneInv, OrderInv, TypeInv, TypeOK, SockTypeOK
<1>2. ASSUME NEW p, NEW s, NEW more, NEW end, Recv(p, s, more, end)
      PROVE  UNCHANGED <<sent, got, outq>>
  BY <1>2 DEF Recv, Receive, sockVars
<1>3. ASSUME NEW p, NEW at, NEW s, NEW next, Send(p, at, s, next)
      PROVE  UNCHANGED <<sent, got>> /\ (s # "prod" => outq'["prod"] = outq["prod"])
  BY <1>1, <1>3 DEF Send, Transmit, sockVars
<1>4. ASSUME NEW p, NEW at, NEW s, NEW next, Shut(p, at, s, next)
      PROVE  UNCHANGED <<sent, got, outq>>
  BY <1>4 DEF Shut, ShutDown
<1>5. CASE handle_client
  BY <1>5 DEF handle_client, ConnectProd, ConnectDup, MakePipe, ForkT1, ForkT2, ForkT3,
              ForkT4, Forks, Connected, sockVars
<1>6. CASE T1
  <2>1. CASE Recv("T1", "client", "send", "shut1") /\ UNCHANGED pipeVars
    BY <1>2, <2>1 DEF pipeVars
  <2>2. ASSUME NEW next \in {"recv", "sendDup", "write"}, Send("T1", "send", "prod", next),
               UNCHANGED pipeVars
        PROVE  UNCHANGED <<sent, got, dropped>>
    BY <1>3, <2>2 DEF pipeVars
  <2>3. CASE Send("T1", "sendDup", "dup", "recv") /\ UNCHANGED pipeVars
    BY <1>3, <2>3 DEF pipeVars
  <2>4. CASE Asynch /\ ~Synch /\ WritePipe("T1", "recv") /\ mode' = mode
    BY <2>4 DEF WritePipe, sockVars
  <2>5. CASE \/ Shut3("T1", "prod", "dup", "client") /\ UNCHANGED pipeVars
             \/ Shut2("T1", "prod", "client") /\ UNCHANGED pipeVars
    BY <1>4, <2>5 DEF Shut2, Shut3, pipeVars
  <2>6. \/ Recv("T1", "client", "send", "shut1") /\ UNCHANGED pipeVars
        \/ \E next \in {"recv", "sendDup", "write"} :
              Send("T1", "send", "prod", next) /\ UNCHANGED pipeVars
        \/ Send("T1", "sendDup", "dup", "recv") /\ UNCHANGED pipeVars
        \/ Asynch /\ ~Synch /\ WritePipe("T1", "recv") /\ mode' = mode
        \/ Shut3("T1", "prod", "dup", "client") /\ UNCHANGED pipeVars
        \/ Shut2("T1", "prod", "client") /\ UNCHANGED pipeVars
    BY <1>6 DEF T1, forward_data, forward_data_synch, forward_data_asynch
  <2> QED  BY <2>1, <2>2, <2>3, <2>4, <2>5, <2>6
<1>7. CASE T2
  <2>1. dropped' = dropped
    BY <1>7 DEF T2, receive_data_synch, pipeVars
  <2>2. UNCHANGED <<sent, got>> /\ outq'["prod"] = outq["prod"]
    <3>1. CASE RecvDup("T2")
      BY <3>1 DEF RecvDup, Receive, sockVars
    <3>2. CASE \/ Recv("T2", "prod", "send", "shut1")
               \/ Send("T2", "send", "client", "recv") \/ Send("T2", "send", "client", "recvDup")
               \/ Shut2("T2", "client", "prod") \/ Shut3("T2", "client", "dup", "prod")
      BY <1>2, <1>3, <1>4, <3>2 DEF Shut2, Shut3
    <3> QED  BY <1>7, <3>1, <3>2 DEF T2, forward_data, receive_data_synch
  <2> QED  BY <2>1, <2>2
<1>8. CASE T3
  <2>1. CASE Send("T3", "send", "dup", "recv") /\ UNCHANGED pipeVars
    BY <1>3, <2>1 DEF pipeVars
  <2> QED  BY <1>8, <2>1 DEF T3, forward_data_pipe, ReadPipe, sockVars, pipeVars
<1>9. CASE T4
  BY <1>4, <1>9 DEF T4, receive_data_asynch, Drain, DrainEnd, Receive, sockVars, pipeVars
<1> QED  BY <1>5, <1>6, <1>7, <1>8, <1>9

\* The debug window, for every size of pipe and of buffer, and however the pipe fills
\* between PipeMin and PipeCap: while the clone is connected and T3 runs, what is given
\* up ends more than PipeMin units beyond what the clone has read.
THEOREM DebugWindow == Spec => WindowHolds
<1>1. CloneInv /\ [Next]_vars =>
        [(Stands("dup") /\ pc["T3"] # "killed" /\ dropped' # dropped) =>
            \E u \in dropped' : u > LastRead + PipeMin]_vars
  <2> SUFFICES ASSUME CloneInv, Next, Stands("dup"), pc["T3"] # "killed", dropped' # dropped
               PROVE  \E u \in dropped' : u > LastRead + PipeMin
    BY DEF vars
  <2> DEFINE b == buf["T1"]
             m == Len(b)
             n == sent["client"]
             q == Len(inq["client"])
             k == Len(pipe)
  <2>1. WritePipe("T1", "recv")
    <3>1. ~Peers
      BY DEF Peers, Reads, Writes, Quits, Resets, procVars
    <3> QED  BY <3>1, InsideSteps DEF Next
  <2>2. dropped' = dropped \cup Units(b) /\ k + m > PipeMin /\ pc["T1"] = "write"
    BY <2>1 DEF WritePipe, Overflows
  <2>3. /\ m \in Nat /\ n \in Nat /\ q \in Nat /\ k \in Nat /\ PipeMin \in Nat
        /\ Mark \in Nat /\ Mark + m + q = n
    <3>1. Working /\ Owed = m
      BY <2>2 DEF Working, Owed, Holding
    <3>2. PipeMin \in Nat
      BY SizeAssumption
    <3> QED  BY <3>1, <3>2, Counts, MarkCounts
  <2>4. Copying
    BY DEF Copying
  <2>5. LastRead \in Nat /\ LastRead + k =< Mark
    BY <2>4, PipeAhead
  <2>6. m # 0
    BY <2>2 DEF Units
  <2>7. b[m] = Mark + m /\ b[m] \in Units(b)
    <3>1. m \in 1 .. m
      BY <2>3, <2>6
    <3>2. b[m] = n - q - m + m
      BY <2>2, <3>1 DEF CloneInv, Taken, Holding
    <3>3. b[m] \in Units(b)
      BY <3>1 DEF Units
    <3> HIDE DEF b, m, n, q, k
    <3>4. n - q - m + m = Mark + m
      BY <2>3
    <3> QED  BY <3>2, <3>3, <3>4
  <2> DEFINE l == LastRead
  <2>8. Mark + m > l + PipeMin
    <3> HIDE DEF b, m, n, q, k, l
    <3>1. l \in Nat /\ l + k =< Mark
      BY <2>5 DEF l
    <3> QED  BY <2>2, <2>3, <3>1
  <2> QED  BY <2>2, <2>7, <2>8
<1> QED  BY <1>1, InitCloneInv, NextCloneInv, PTL DEF Spec, WindowHolds

----------------------------------------------------------------------------
(* The connection is a Mirror.                                             *)

\* No more is forwarded than the client has written.
Served == Forwarded =< sent["client"]

\* Only what has been written is forwarded.
LEMMA NextServed ==
  ASSUME CloneInv, Served, [Next]_vars
  PROVE  Served'
<1> DEFINE f == Forwarded
           n == sent["client"]
<1>1. f \in Nat /\ n \in Nat /\ f =< n
  BY Counts DEF Served
<1>2. ASSUME UNCHANGED <<sent, got>>, outq'["prod"] = outq["prod"] PROVE Served'
  BY <1>2 DEF Served, Forwarded
<1>3. ASSUME NEW next \in {"recv", "sendDup", "write"}, Send("T1", "send", "prod", next)
      PROVE  Served'
  <2>1. sent' = sent /\ pc["T1"] = "send"
    BY <1>3, SendT1
  <2>2. \/ ~Writable("prod") /\ f' = f
        \/ Writable("prod") /\ f' = f + 1
    BY <1>3, Forwards
  <2>3. CASE f' = f
    BY <2>1, <2>3 DEF Served
  <2>4. CASE Writable("prod") /\ f' = f + 1
    <3> DEFINE k == off["T1"]
               m == Len(buf["T1"])
               q == Len(inq["client"])
    <3>1. Passed("prod") + (m - k) + q = n
      BY <2>1, <2>4 DEF CloneInv, OrderInv, Order, Stream, Joined, Held, Flow
    <3>2. Passed("prod") = f /\ k \in Nat /\ m \in Nat /\ k < m /\ q \in Nat
      BY <2>1, Counts DEF Passed, Forwarded
    <3> HIDE DEF f, n, k, m, q
    <3>3. f + 1 =< n
      BY <1>1, <3>1, <3>2
    <3> QED  BY <2>1, <2>4, <3>3 DEF Served, f, n
  <2> QED  BY <2>2, <2>3, <2>4
<1>4. CASE UNCHANGED vars
  BY <1>2, <1>4 DEF vars, sockVars
<1>5. CASE handle_client \/ T1 \/ T2 \/ T3 \/ T4
  BY <1>2, <1>3, <1>5, InsideSteps
<1>6. CASE Peers
  <2>1. PICK x \in Sock : \/ PeerRead(x) \/ PeerWrite(x, Gone) \/ PeerHalfClose(x)
                          \/ PeerClose(x) \/ Reset(x, Gone)
    BY <1>6 DEF Peers, Reads, Writes, ClientWrite, ServerWrite, Quits, Resets
  <2>2. /\ outq \in [Sock -> Seq(Nat)] /\ got \in [Sock -> Seq(Nat)] /\ sent \in [Sock -> Nat]
        /\ SockTypeOK /\ Sock = {"client", "prod", "dup"} /\ Ahead("client", "prod")
    BY SockAssumption
       DEF CloneInv, OrderInv, Order, Stream, TypeInv, TypeOK, SockTypeOK
  <2>3. CASE PeerHalfClose(x) \/ PeerClose(x)
    BY <1>2, <2>3 DEF PeerHalfClose, PeerClose
  <2>4. CASE PeerWrite(x, Gone)
    <3>1. CASE x = "client"
      <4>1. sent'["client"] = n + 1 /\ f' = f
        BY <2>2, <2>4, <3>1 DEF PeerWrite, Forwarded
      <4> HIDE DEF f, n
      <4>2. f =< n + 1
        BY <1>1
      <4> QED  BY <4>1, <4>2 DEF Served, f
    <3>2. CASE x # "client"
      BY <2>2, <2>4, <3>2 DEF PeerWrite, Served, Forwarded
    <3> QED  BY <3>1, <3>2
  <2>5. CASE PeerRead(x)
    <3>1. CASE x = "prod"
      <4>1. Passed("prod")' = Passed("prod") /\ sent' = sent
        BY <2>2, <2>5, <3>1, AheadRead
      <4> QED  BY <4>1 DEF Served, Passed, Forwarded
    <3>2. CASE x # "prod"
      BY <2>2, <2>5, <3>2 DEF PeerRead, Served, Forwarded
    <3> QED  BY <3>1, <3>2
  <2>6. CASE Reset(x, Gone)
    <3>1. CASE x = "prod"
      <4> DEFINE g == Passed("prod")'
      <4>1. g =< f /\ sent' = sent
        BY <2>2, <2>6, <3>1, AheadReset DEF Passed, Forwarded
      <4>2. g \in Nat
        <5>1. TypeInv'
          BY NextTypeInv DEF CloneInv, OrderInv
        <5>2. /\ outq'["prod"] \in Seq(Nat) /\ got'["prod"] \in Seq(Nat)
          BY <2>2, <5>1 DEF TypeInv, TypeOK, SockTypeOK
        <5>3. Len(outq'["prod"]) \in Nat /\ Len(got'["prod"]) \in Nat
              /\ \A i, j \in Nat : i + j \in Nat
          BY <5>2, LenProperties
        <5> QED  BY <5>3, Zenon DEF Passed
      <4>3. f' = g
        BY DEF Passed, Forwarded
      <4> HIDE DEF f, g, n
      <4>4. g =< n
        BY <1>1, <4>1, <4>2
      <4> QED  BY <4>1, <4>3, <4>4 DEF Served, f, n
    <3>2. CASE x # "prod"
      BY <2>2, <2>6, <3>2 DEF Reset, Served, Forwarded
    <3> QED  BY <3>1, <3>2
  <2> QED  BY <2>1, <2>3, <2>4, <2>5, <2>6
<1> QED  BY <1>4, <1>5, <1>6 DEF Next

\* What the production server reads is the next unit.
LEMMA NextDeliver ==
  ASSUME CloneInv, Served, PeerRead("prod")
  PROVE  /\ got'["prod"] = Append(got["prod"], Len(got["prod"]) + 1)
         /\ Len(got["prod"]) < sent["client"]
         /\ got'["dup"] = got["dup"] /\ sent' = sent
<1> DEFINE g == Len(got["prod"])
           o == Len(outq["prod"])
           n == sent["client"]
<1>1. /\ g \in Nat /\ o \in Nat /\ n \in Nat /\ outq["prod"] \in Seq(Nat)
      /\ {"prod", "dup"} \subseteq Sock /\ got \in [Sock -> Seq(Nat)]
  BY Counts, Loops DEF CloneInv, OrderInv, TypeInv, TypeOK, SockTypeOK
<1>2. /\ outq["prod"] # <<>> /\ sent' = sent
      /\ got' = [got EXCEPT !["prod"] = Append(@, Head(outq["prod"]))]
  BY DEF PeerRead
<1>3. o > 0 /\ Head(outq["prod"]) = outq["prod"][1]
  BY <1>1, <1>2, HeadTailProperties, EmptySeq
<1>4. \A i \in 1 .. o : outq["prod"][i] = 0 + g + i
  BY SockAssumption DEF CloneInv, OrderInv, Order, Stream, Ahead
<1>5. g + o =< n
  BY DEF Served, Forwarded
<1> HIDE DEF g, o, n
<1>6. Head(outq["prod"]) = g + 1 /\ g < n
  BY <1>1, <1>3, <1>4, <1>5
<1> QED  BY <1>1, <1>2, <1>6 DEF g, n

\* What the clone reads is the next unit that has not been given up.
LEMMA NextCopy ==
  ASSUME CloneInv, PeerRead("dup"), dropped' = dropped
  PROVE  Promise!Copy
<1> DEFINE o == outq["dup"]
           h == Head(o)
           n == sent["client"]
           l == Promise!Last
<1>1. /\ o \in Seq(Nat) /\ o # <<>> /\ got["dup"] \in Seq(Nat) /\ n \in Nat
      /\ got'["dup"] = Append(got["dup"], h) /\ got'["prod"] = got["prod"] /\ sent' = sent
  BY Loops DEF PeerRead, CloneInv, OrderInv, TypeInv, TypeOK, SockTypeOK
<1>2. Faithful(got["dup"] \o o, dropped)
  BY DEF CloneInv, CopyInv, Chained, Line
<1>3. l = IF got["dup"] = <<>> THEN 0 ELSE got["dup"][Len(got["dup"])]
  BY DEF Promise!Last
<1>4. /\ l \in Nat /\ h \in Units(o) /\ h \in Nat /\ h > l /\ h \notin dropped
      /\ l + 1 .. h - 1 \subseteq dropped
  <2> DEFINE g == got["dup"]
  <2>1. /\ g \in Seq(Nat) /\ o \in Seq(Nat) /\ o # <<>> /\ Faithful(g \o o, dropped)
        /\ l = IF g = <<>> THEN 0 ELSE g[Len(g)]
    BY <1>1, <1>2, <1>3
  <2> HIDE DEF o, l, g
  <2> QED  BY <2>1, FaithfulHead, SMTT(60)
<1>5. Mark \in Nat /\ h =< Mark /\ Mark =< n
  BY <1>4, MarkCounts DEF CloneInv, CopyInv, Bounded, Copies
<1>6. h \in l + 1 .. n
  <2> HIDE DEF h, l, n
  <2> QED  BY <1>1, <1>4, <1>5
<1> HIDE DEF h, l
<1>7. \E u \in l + 1 .. n :
         /\ u \notin dropped
         /\ l + 1 .. u - 1 \subseteq dropped
         /\ got'["dup"] = Append(got["dup"], u)
  BY <1>1, <1>4, <1>6
<1> QED  BY <1>1, <1>7 DEF Promise!Copy, l

\* What T1 gives up is the buffer behind all that the clone has.
LEMMA NextOverflow ==
  ASSUME CloneInv, WritePipe("T1", "recv")
  PROVE  [Promise!Next]_(Promise!vars)
<1> USE DEF Promise!vars
<1> DEFINE b == buf["T1"]
           m == Len(b)
           n == sent["client"]
           q == Len(inq["client"])
           l == Promise!Last
<1>1. /\ pc["T1"] = "write" /\ UNCHANGED <<got, sent>>
      /\ b \in Seq(Nat) /\ got["dup"] \in Seq(Nat) /\ dropped \in SUBSET Nat
      /\ \/ dropped' = dropped
         \/ dropped' = dropped \cup Units(b)
  BY Counts DEF WritePipe, sockVars
<1>2. m \in Nat /\ n \in Nat /\ q \in Nat /\ Mark \in Nat /\ Mark + m + q = n
  <2>1. Working /\ Owed = m
    BY <1>1 DEF Working, Owed, Holding
  <2> QED  BY <1>1, <2>1, Counts, MarkCounts
<1>3. \A i \in 1 .. m : b[i] = Mark + i
  <2>1. \A i \in 1 .. m : b[i] = n - q - m + i
    BY <1>1 DEF CloneInv, Taken, Holding
  <2>2. n - q - m = Mark
    <3> HIDE DEF m, n, q
    <3> QED  BY <1>2
  <2> QED  BY <2>1, <2>2
<1>4. Units(b) = Mark + 1 .. Mark + m
  <2>1. /\ \A u \in Units(b) : u \in Nat /\ u > Mark /\ u =< Mark + m
        /\ \A u \in 1 .. Mark + m : u =< Mark \/ u \in Units(b)
    BY <1>1, <1>2, <1>3, After
  <2> HIDE DEF b, m
  <2>2. \A u \in Units(b) : u \in Mark + 1 .. Mark + m
    BY <1>2, <2>1
  <2>3. \A u \in Mark + 1 .. Mark + m : u \in 1 .. Mark + m /\ ~(u =< Mark)
    BY <1>2
  <2> QED  BY <2>1, <2>2, <2>3
<1>5. (\A u \in dropped : u =< Mark) /\ l \in Nat /\ l =< Mark
  <2>1. \A u \in Copies \cup dropped : u =< Mark
    BY DEF CloneInv, CopyInv, Bounded
  <2>2. CASE got["dup"] = <<>>
    BY <1>2, <2>1, <2>2 DEF Promise!Last
  <2>3. CASE got["dup"] # <<>>
    <3> DEFINE g == got["dup"]
               k == Len(g)
    <3>1. k \in 1 .. k /\ g[k] \in Nat
      BY <1>1, <2>3, LenProperties, EmptySeq, ElementOfSeq
    <3>2. l = g[k]
      BY <2>3 DEF Promise!Last
    <3>3. g[k] \in Copies
      BY <3>1 DEF Copies, Units
    <3> HIDE DEF g, k, l
    <3> QED  BY <2>1, <3>1, <3>2, <3>3
  <2> QED  BY <2>2, <2>3
<1> HIDE DEF b, m, n, q, l
<1>6. CASE dropped' = dropped
  BY <1>1, <1>6
<1>7. CASE m = 0 /\ dropped' = dropped \cup Units(b)
  <2>1. Units(b) = {}
    BY <1>2, <1>4, <1>7
  <2> QED  BY <1>1, <1>7, <2>1
<1>8. CASE m # 0 /\ dropped' = dropped \cup Units(b)
  <2>1. /\ Mark + 1 \in l + 1 .. n /\ Mark + m \in l + 1 .. n /\ Mark + 1 =< Mark + m
        /\ (Mark + 1 .. Mark + m) \cap dropped = {}
    BY <1>1, <1>2, <1>5, <1>8
  <2>2. \E first, last \in l + 1 .. n :
           /\ first =< last
           /\ (first .. last) \cap dropped = {}
           /\ dropped' = dropped \cup (first .. last)
    BY <1>4, <1>8, <2>1
  <2> QED  BY <1>1, <2>2 DEF Promise!Next, Promise!Overflow, l, n
<1> QED  BY <1>1, <1>6, <1>7, <1>8

\* Every step is one of the Mirror's, or changes nothing that it shows.
LEMMA StepMirrors ==
  ASSUME CloneInv, Served, [Next]_vars
  PROVE  [Promise!Next]_(Promise!vars)
<1> USE DEF Promise!vars
<1>1. CASE UNCHANGED vars
  BY <1>1 DEF vars, sockVars
<1>2. CASE handle_client \/ T1 \/ T2 \/ T3 \/ T4
  <2>1. UNCHANGED <<sent, got>>
    BY <1>2, InsideSteps
  <2>2. CASE dropped' = dropped
    BY <2>1, <2>2
  <2>3. CASE WritePipe("T1", "recv")
    BY <2>3, NextOverflow
  <2> QED  BY <1>2, <2>2, <2>3, InsideSteps
<1>3. CASE Peers
  <2>1. PICK x \in Sock : \/ PeerRead(x) \/ PeerWrite(x, Gone) \/ PeerHalfClose(x)
                          \/ PeerClose(x) \/ Reset(x, Gone)
    BY <1>3 DEF Peers, Reads, Writes, ClientWrite, ServerWrite, Quits, Resets
  <2>2. dropped' = dropped
    BY <1>3 DEF Peers, Reads, Writes, Quits, Resets, procVars
  <2>3. /\ {"client", "prod", "dup"} = Sock
        /\ got \in [Sock -> Seq(Nat)] /\ sent \in [Sock -> Nat]
    BY SockAssumption DEF CloneInv, OrderInv, TypeInv, TypeOK, SockTypeOK
  <2>4. CASE PeerHalfClose(x) \/ PeerClose(x) \/ Reset(x, Gone)
    BY <2>2, <2>4 DEF PeerHalfClose, PeerClose, Reset
  <2>5. CASE PeerWrite(x, Gone)
    <3>1. CASE x = "client"
      BY <2>2, <2>3, <2>5, <3>1 DEF PeerWrite, Promise!Next, Promise!Request
    <3>2. CASE x # "client"
      BY <2>2, <2>3, <2>5, <3>2 DEF PeerWrite
    <3> QED  BY <3>1, <3>2
  <2>6. CASE PeerRead(x) /\ x = "client"
    BY <2>2, <2>3, <2>6 DEF PeerRead
  <2>7. CASE PeerRead(x) /\ x = "prod"
    <3>1. /\ got'["prod"] = Append(got["prod"], Len(got["prod"]) + 1)
          /\ Len(got["prod"]) < sent["client"]
          /\ got'["dup"] = got["dup"] /\ sent' = sent
      BY <2>7, NextDeliver
    <3> QED  BY <2>2, <3>1 DEF Promise!Next, Promise!Deliver
  <2>8. CASE PeerRead(x) /\ x = "dup"
    BY <2>2, <2>8, NextCopy DEF Promise!Next
  <2> QED  BY <2>1, <2>3, <2>4, <2>5, <2>6, <2>7, <2>8
<1> QED  BY <1>1, <1>2, <1>3 DEF Next

\* The duplicator implements the Mirror in all its modes: production reads the client's
\* stream, and the clone a copy of it that skips only the buffers given up as overflow,
\* each of them before anything behind it is copied; for every size of the sockets, the
\* pipe and the buffers, and whoever leaves, is reset or is missing a worker.
THEOREM DuplicatorMirrors == Spec => MirrorsTraffic
<1>1. Init => Promise!Init /\ Served
  <2> SUFFICES ASSUME Init PROVE Promise!Init /\ Served
    OBVIOUS
  <2>1. /\ sent["client"] = 0 /\ dropped = {}
        /\ \A s \in {"prod", "dup"} : got[s] = <<>> /\ outq[s] = <<>>
    BY SockAssumption DEF Init, SockInit
  <2>2. Len(<<>>) = 0 /\ 0 + 0 = 0 /\ 0 =< 0
    OBVIOUS
  <2>3. Served
    BY <2>1, <2>2, Zenon DEF Served, Forwarded
  <2> QED  BY <2>1, <2>3 DEF Promise!Init
<1> QED  BY <1>1, InitCloneInv, NextCloneInv, NextServed, StepMirrors, PTL
         DEF Spec, MirrorsTraffic, Promise!Spec
=============================================================================
