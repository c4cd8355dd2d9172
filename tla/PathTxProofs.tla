---------------------------- MODULE PathTxProofs ----------------------------
(***************************************************************************)
(* Proofs about PathTx, for any messages, frames, limits and threads.      *)
(***************************************************************************)
EXTENDS PathTx, FiniteSetTheorems, TLAPS

\* No element occurs twice.
Distinct(s) == \A i, j \in Indices(s) : s[i] = s[j] => i = j

\* A packet is queued exactly when it is in the queue of its class, once.
QueuesOK ==
  /\ Distinct(ctlq) /\ Distinct(dataq)
  /\ \A p \in Packet : pst[p] = "queued" <=> p \in InSeq(ctlq) \cup InSeq(dataq)
  /\ \A p \in InSeq(ctlq) : IsControl(p)
  /\ \A p \in InSeq(dataq) : ~IsControl(p)

\* The NHI has a packet exactly when a descriptor of the ring is its own.
RingOK ==
  /\ Distinct(ring)
  /\ \A p \in Packet : pst[p] = "hw" <=> p \in InSeq(ring)

\* One thread is in the loop, and the packet in its hands, if any, is sched.p.
InHand == [take |-> "hand", ring |-> "attached", errdec |-> "failing", errrel |-> "failing"]
SchedOK ==
  /\ scheduling <=> sched.pc # "idle"
  /\ sched.pc \in DOMAIN InHand => sched.p \in Packet /\ pst[sched.p] = InHand[sched.pc]
  /\ \A p \in Packet : pst[p] \in {"hand", "attached", "failing"} =>
       sched.pc \in DOMAIN InHand /\ p = sched.p

\* The frames a poster has reserved and not enqueued are idle.
HoldsOK ==
  \A m \in Msg :
    /\ holds[m] <= Len(Shape[m]) /\ (Mode[m] = "reserved" => holds[m] \in {0, Len(Shape[m])})
    /\ \A i \in Indices(Shape[m]) : i > Len(Shape[m]) - holds[m] => pst[<<m, i>>] = "idle"

\* The queue bound, with the frame a refused submission would put back.
RoomOK ==
  Len(dataq) + reserved
    + (IF RingRefuses /\ sched.pc \in {"take", "ring"} /\ ~IsControl(sched.p) THEN 1 ELSE 0)
  <= QueueLimit + (IF RingRefuses THEN 1 ELSE 0)

\* The ghost order lists the data packets that are not idle, once each.
OrderOK ==
  /\ Distinct(order)
  /\ \A p \in Packet : p \in InSeq(order) <=> ~IsControl(p) /\ pst[p] # "idle"

\* x comes before y.
Before(s, x, y) == \E i, j \in Indices(s) : i < j /\ s[i] = x /\ s[j] = y
\* The data packets of the path, from the wire back: ring, hand, queue.
OnPath == {"hw", "hand", "attached", "queued"}
Ahead(x, y) ==
  \/ Before(ring, x, y) \/ Before(dataq, x, y)
  \/ pst[x] = "hw" /\ pst[y] \in {"hand", "attached", "queued"}
  \/ pst[x] \in {"hand", "attached"} /\ pst[y] = "queued"
\* What is ahead on the path was accepted before.
InOrder ==
  \A x, y \in Packet :
    ~IsControl(x) /\ ~IsControl(y) /\ Ahead(x, y) => Before(order, x, y)

Inv == /\ TypeOK /\ QueuesOK /\ RingOK /\ SchedOK /\ HoldsOK /\ OrderOK /\ InOrder
       /\ InflightAccounting /\ StagingConservation /\ RoomOK /\ CreditConservation

\* An Apple rail's ring takes every frame while it runs: a frame refused and
\* put back after the cancel would survive the quiesce.
NoLateRequeue == \A r \in Rails : r.quiesces => ~r.refuses

\* From the cancel on nothing is queued, and a quarantined path is empty.
QuiesceOK ==
  /\ q # "open" => closed /\ Quiesces
  /\ q \in {"drain", "stopping", "failed", "quarantined"} => ctlq = <<>> /\ dataq = <<>>
  /\ QuarantinedIsQuiet

-----------------------------------------------------------------------------
(* Sequences without repetition.                                           *)

\* A sequence is appended to one it has no element in common with.
LEMMA ConcatFacts ==
  ASSUME NEW S, NEW s \in Seq(S), NEW t \in Seq(S)
  PROVE  /\ s \o t \in Seq(S) /\ Len(s \o t) = Len(s) + Len(t)
         /\ InSeq(s \o t) = InSeq(s) \cup InSeq(t)
         /\ Distinct(s) /\ Distinct(t) /\ InSeq(s) \cap InSeq(t) = {} => Distinct(s \o t)
<1>1. /\ s \o t \in Seq(S) /\ Len(s \o t) = Len(s) + Len(t) /\ Len(s) \in Nat /\ Len(t) \in Nat
      /\ \A i \in 1..(Len(s) + Len(t)) :
           (s \o t)[i] = IF i <= Len(s) THEN s[i] ELSE t[i - Len(s)]
  OBVIOUS
<1>2. InSeq(s \o t) = InSeq(s) \cup InSeq(t)
  <2>1. ASSUME NEW x \in InSeq(s \o t)
        PROVE  x \in InSeq(s) \cup InSeq(t)
    <3> PICK i \in 1..(Len(s) + Len(t)) : x = (s \o t)[i]
      BY <1>1 DEF InSeq, Indices
    <3> QED
      BY <1>1 DEF InSeq, Indices
  <2>2. ASSUME NEW x \in InSeq(s)
        PROVE  x \in InSeq(s \o t)
    BY <1>1 DEF InSeq, Indices
  <2>3. ASSUME NEW x \in InSeq(t)
        PROVE  x \in InSeq(s \o t)
    <3> PICK i \in 1..Len(t) : x = t[i]
      BY DEF InSeq, Indices
    <3> /\ i + Len(s) \in 1..(Len(s) + Len(t)) /\ ~(i + Len(s) <= Len(s))
        /\ (i + Len(s)) - Len(s) = i
      BY <1>1
    <3> QED
      BY <1>1 DEF InSeq, Indices
  <2> QED
    BY <2>1, <2>2, <2>3
<1>3. ASSUME Distinct(s), Distinct(t), InSeq(s) \cap InSeq(t) = {}
      PROVE  Distinct(s \o t)
  <2> SUFFICES ASSUME NEW i \in 1..(Len(s) + Len(t)), NEW j \in 1..(Len(s) + Len(t)),
                      (s \o t)[i] = (s \o t)[j]
               PROVE  i = j
    BY <1>1 DEF Distinct, Indices
  <2>1. \A k \in 1..(Len(s) + Len(t)) :
          (k <= Len(s) => (s \o t)[k] \in InSeq(s)) /\ (~(k <= Len(s)) => (s \o t)[k] \in InSeq(t))
    BY <1>1 DEF InSeq, Indices
  <2>2. CASE i <= Len(s) /\ j <= Len(s)
    BY <2>2, <1>1, <1>3 DEF Distinct, Indices
  <2>3. CASE ~(i <= Len(s)) /\ ~(j <= Len(s))
    <3>1. i - Len(s) \in 1..Len(t) /\ j - Len(s) \in 1..Len(t)
      BY <2>3, <1>1
    <3>2. t[i - Len(s)] = t[j - Len(s)]
      BY <2>3, <1>1
    <3>3. i - Len(s) = j - Len(s)
      BY <3>1, <3>2, <1>3 DEF Distinct, Indices
    <3> QED
      BY <3>3, <1>1
  <2> QED
    BY <2>1, <2>2, <2>3, <1>3
<1> QED
  BY <1>1, <1>2, <1>3

\* A sequence of one element, and the empty one.
LEMMA SmallFacts ==
  /\ \A x : InSeq(<<x>>) = {x} /\ Distinct(<<x>>) /\ Len(<<x>>) = 1 /\ <<x>>[1] = x
  /\ \A S, x : x \in S => <<x>> \in Seq(S)
  /\ InSeq(<<>>) = {} /\ Distinct(<<>>) /\ \A S : <<>> \in Seq(S)
  /\ \A S : \A s \in Seq(S) : (InSeq(s) = {} => s = <<>>) /\ InSeq(s) \subseteq S
<1>1. \A x : InSeq(<<x>>) = {x} /\ Distinct(<<x>>) /\ Len(<<x>>) = 1 /\ <<x>>[1] = x
  BY DEF InSeq, Distinct, Indices
<1>2. InSeq(<<>>) = {} /\ Distinct(<<>>) /\ \A S : <<>> \in Seq(S)
  BY DEF InSeq, Distinct, Indices
<1>3. ASSUME NEW S, NEW s \in Seq(S)
      PROVE  (InSeq(s) = {} => s = <<>>) /\ InSeq(s) \subseteq S
  <2>1. Len(s) \in Nat /\ (Len(s) = 0 => s = <<>>) /\ \A i \in 1..Len(s) : s[i] \in S
    OBVIOUS
  <2>2. Len(s) # 0 => s[1] \in InSeq(s)
    BY <2>1 DEF InSeq, Indices
  <2> QED
    BY <2>1, <2>2 DEF InSeq, Indices
<1> QED
  BY <1>1, <1>2, <1>3

\* One element is appended, or put back at the head.
AtTail(s, x, a) ==
  Len(a) = Len(s) + 1 /\ a[Len(s) + 1] = x /\ \A i \in 1..Len(s) : a[i] = s[i]
AtHead(s, x, a) ==
  Len(a) = Len(s) + 1 /\ a[1] = x /\ \A i \in 1..Len(s) : a[i + 1] = s[i]

\* What appending one element does.
LEMMA AppendFacts ==
  ASSUME NEW S, NEW s \in Seq(S), NEW a \in Seq(S), NEW x, AtTail(s, x, a)
  PROVE  /\ InSeq(a) = InSeq(s) \cup {x}
         /\ Distinct(s) /\ x \notin InSeq(s) => Distinct(a)
         /\ \A y, z : Before(a, y, z) => Before(s, y, z) \/ (y \in InSeq(s) /\ z = x)
<1> DEFINE n == Len(s)
<1>1. /\ Len(a) = n + 1 /\ n \in Nat /\ a[n + 1] = x
      /\ \A i \in 1..n : a[i] = s[i]
  BY DEF AtTail
<1> HIDE DEF n
<1>2. InSeq(a) = InSeq(s) \cup {x}
  BY <1>1 DEF InSeq, Indices, n
<1>3. Distinct(s) /\ x \notin InSeq(s) => Distinct(a)
  BY <1>1 DEF Distinct, InSeq, Indices, n
<1>4. ASSUME NEW y, NEW z, Before(a, y, z)
      PROVE  Before(s, y, z) \/ (y \in InSeq(s) /\ z = x)
  <2> PICK i \in 1..(n + 1), j \in 1..(n + 1) : i < j /\ a[i] = y /\ a[j] = z
    BY <1>1, <1>4 DEF Before, Indices
  <2>1. i \in 1..n /\ (j \in 1..n \/ j = n + 1)
    BY <1>1
  <2> QED
    BY <1>1, <2>1 DEF Before, InSeq, Indices, n
<1> QED
  BY <1>1, <1>2, <1>3, <1>4 DEF n

\* What putting one element back at the head does.
LEMMA PrependFacts ==
  ASSUME NEW S, NEW s \in Seq(S), NEW a \in Seq(S), NEW x, AtHead(s, x, a)
  PROVE  /\ InSeq(a) = InSeq(s) \cup {x}
         /\ Distinct(s) /\ x \notin InSeq(s) => Distinct(a)
         /\ \A y, z : Before(a, y, z) => Before(s, y, z) \/ (y = x /\ z \in InSeq(s))
<1> DEFINE n == Len(s)
<1>1. /\ Len(a) = n + 1 /\ n \in Nat /\ a[1] = x
      /\ \A i \in 1..n : a[i + 1] = s[i]
  BY DEF AtHead
<1>2. \A i \in 1..(n + 1) : i = 1 \/ (i - 1 \in 1..n /\ a[i] = s[i - 1])
  <2> HIDE DEF n
  <2> TAKE i \in 1..(n + 1)
  <2>1. i = 1 \/ (i - 1 \in 1..n /\ (i - 1) + 1 = i)
    BY <1>1
  <2> QED
    BY <1>1, <2>1
<1> HIDE DEF n
<1>3. InSeq(a) = InSeq(s) \cup {x}
  <2>1. \A y \in InSeq(a) : y \in InSeq(s) \cup {x}
    BY <1>1, <1>2 DEF InSeq, Indices, n
  <2>2. x \in InSeq(a)
    BY <1>1 DEF InSeq, Indices
  <2>3. ASSUME NEW y \in InSeq(s)
        PROVE  y \in InSeq(a)
    <3> PICK i \in 1..n : y = s[i]
      BY DEF InSeq, Indices, n
    <3> i + 1 \in 1..(n + 1)
      BY <1>1
    <3> QED
      BY <1>1 DEF InSeq, Indices
  <2> QED
    BY <2>1, <2>2, <2>3
<1>4. ASSUME Distinct(s), x \notin InSeq(s)
      PROVE  Distinct(a)
  <2> SUFFICES ASSUME NEW i \in 1..(n + 1), NEW j \in 1..(n + 1), a[i] = a[j]
               PROVE  i = j
    BY <1>1 DEF Distinct, Indices
  <2>1. \A k \in 1..n : s[k] # x
    BY <1>4 DEF InSeq, Indices, n
  <2>2. \A k, l \in 1..n : s[k] = s[l] => k = l
    BY <1>4 DEF Distinct, Indices, n
  <2>3. /\ i = 1 \/ (i - 1 \in 1..n /\ a[i] = s[i - 1])
        /\ j = 1 \/ (j - 1 \in 1..n /\ a[j] = s[j - 1])
    BY <1>2
  <2>4. CASE i = 1 \/ j = 1
    BY <1>1, <2>1, <2>3, <2>4
  <2>5. CASE i # 1 /\ j # 1
    <3>1. i - 1 = j - 1
      BY <2>2, <2>3, <2>5
    <3> QED
      BY <3>1, <1>1
  <2> QED
    BY <2>4, <2>5
<1>5. ASSUME NEW y, NEW z, Before(a, y, z)
      PROVE  Before(s, y, z) \/ (y = x /\ z \in InSeq(s))
  <2> PICK i \in 1..(n + 1), j \in 1..(n + 1) : i < j /\ a[i] = y /\ a[j] = z
    BY <1>1, <1>5 DEF Before, Indices
  <2>1. j - 1 \in 1..n /\ z = s[j - 1]
    <3> j # 1
      BY <1>1
    <3> QED
      BY <1>2
  <2>2. CASE i = 1
    BY <1>1, <2>1, <2>2 DEF InSeq, Indices, n
  <2>3. CASE i # 1
    <3>1. i - 1 \in 1..n /\ y = s[i - 1] /\ i - 1 < j - 1
      BY <1>1, <1>2, <2>3
    <3> QED
      BY <2>1, <3>1 DEF Before, Indices, n
  <2> QED
    BY <2>2, <2>3
<1> QED
  BY <1>1, <1>3, <1>4, <1>5 DEF n

\* The first element leaves a sequence.
LEMMA TailFacts ==
  ASSUME NEW S, NEW s \in Seq(S), NEW a \in Seq(S), NEW x, AtHead(s, x, a), Distinct(a)
  PROVE  /\ InSeq(s) = InSeq(a) \ {x} /\ Distinct(s) /\ x \in InSeq(a)
         /\ \A y, z : Before(s, y, z) => Before(a, y, z)
         /\ \A y \in InSeq(s) : Before(a, x, y)
<1> DEFINE n == Len(s)
<1>1. /\ Len(a) = n + 1 /\ n \in Nat /\ a[1] = x
      /\ \A i \in 1..n : a[i + 1] = s[i]
  BY DEF AtHead
<1> HIDE DEF n
<1>2. /\ \A i \in 1..n : i + 1 \in 1..(n + 1) /\ 1 < i + 1
      /\ \A i, j \in 1..n : i < j => i + 1 < j + 1
      /\ 1 \in 1..(n + 1)
  BY <1>1
<1>3. InSeq(a) = InSeq(s) \cup {x}
  BY PrependFacts
<1>4. x \notin InSeq(s)
  <2> SUFFICES ASSUME NEW i \in 1..n, s[i] = x
               PROVE  FALSE
    BY DEF InSeq, Indices, n
  <2>1. i + 1 = 1
    BY <1>1, <1>2 DEF Distinct, Indices
  <2> QED
    BY <2>1, <1>1
<1>5. Distinct(s)
  <2> SUFFICES ASSUME NEW i \in 1..n, NEW j \in 1..n, s[i] = s[j]
               PROVE  i = j
    BY DEF Distinct, Indices, n
  <2>1. i + 1 = j + 1
    BY <1>1, <1>2 DEF Distinct, Indices
  <2> QED
    BY <2>1, <1>1
<1>6. ASSUME NEW y, NEW z, Before(s, y, z)
      PROVE  Before(a, y, z)
  <2> PICK i \in 1..n, j \in 1..n : i < j /\ s[i] = y /\ s[j] = z
    BY <1>6 DEF Before, Indices, n
  <2>1. i + 1 \in 1..(n + 1) /\ j + 1 \in 1..(n + 1) /\ i + 1 < j + 1 /\ a[i + 1] = y /\ a[j + 1] = z
    BY <1>1, <1>2
  <2> QED
    BY <1>1, <2>1 DEF Before, Indices
<1>7. ASSUME NEW y \in InSeq(s)
      PROVE  Before(a, x, y)
  <2> PICK i \in 1..n : s[i] = y
    BY <1>7 DEF InSeq, Indices, n
  <2>1. i + 1 \in 1..(n + 1) /\ 1 < i + 1 /\ a[i + 1] = y
    BY <1>1, <1>2
  <2> QED
    BY <1>1, <1>2, <2>1 DEF Before, Indices
<1> QED
  BY <1>3, <1>4, <1>5, <1>6, <1>7

-----------------------------------------------------------------------------
(* What Without() keeps.                                                   *)

\* Ranks number the members of a finite set of indices from 1 on, in order.
LEMMA RankFacts ==
  ASSUME NEW n \in Nat, NEW I \in SUBSET (1..n)
  PROVE  /\ IsFiniteSet(I) /\ Cardinality(I) \in 0..n
         /\ \A i \in I : Rank(I, i) \in 1..Cardinality(I)
         /\ \A i, j \in I : i < j <=> Rank(I, i) < Rank(I, j)
         /\ \A k \in 1..Cardinality(I) : \E i \in I : Rank(I, i) = k
<1>1. IsFiniteSet(1..n) /\ Cardinality(1..n) = n
  BY FS_Interval
<1>2. IsFiniteSet(I) /\ Cardinality(I) <= n /\ Cardinality(I) \in Nat
  BY <1>1, FS_Subset, FS_CardinalityType
<1>a. \A i \in I : i \in Nat
  OBVIOUS
<1> DEFINE Low(i) == {j \in I : j <= i}
<1>3. ASSUME NEW i \in I
      PROVE  /\ IsFiniteSet(Low(i)) /\ Rank(I, i) = Cardinality(Low(i)) /\ Rank(I, i) \in Nat
             /\ Rank(I, i) <= Cardinality(I) /\ Rank(I, i) # 0
  <2>1. Low(i) \in SUBSET I /\ i \in Low(i)
    OBVIOUS
  <2>2. IsFiniteSet(Low(i)) /\ Cardinality(Low(i)) <= Cardinality(I)
    BY <2>1, <1>2, FS_Subset
  <2>3. Cardinality(Low(i)) \in Nat /\ Cardinality(Low(i)) # 0
    BY <2>1, <2>2, FS_CardinalityType, FS_EmptySet
  <2> QED
    BY <2>2, <2>3 DEF Rank
<1>b. \A i \in I : Rank(I, i) \in 1..Cardinality(I)
  <2> TAKE i \in I
  <2>1. Rank(I, i) \in Nat /\ Rank(I, i) <= Cardinality(I) /\ Rank(I, i) # 0
    BY <1>3
  <2> QED
    BY <2>1, <1>2
<1>4. ASSUME NEW i \in I, NEW j \in I, i < j
      PROVE  Rank(I, i) < Rank(I, j)
  <2>1. Low(i) \in SUBSET Low(j) /\ j \in Low(j) /\ j \notin Low(i)
    <3>1. i \in Nat /\ j \in Nat /\ j <= j /\ ~(j <= i)
      BY <1>4, <1>a
    <3>2. \A x \in I : x <= i => x <= j
      BY <1>4, <1>a
    <3> QED
      BY <3>1, <3>2
  <2>2. Cardinality(Low(i)) <= Cardinality(Low(j)) /\ Cardinality(Low(j)) # Cardinality(Low(i))
    BY <2>1, <1>3, FS_Subset
  <2> QED
    BY <2>2, <1>3
<1>5. \A i, j \in I : i < j <=> Rank(I, i) < Rank(I, j)
  <2> TAKE i, j \in I
  <2>1. Rank(I, i) \in Nat /\ Rank(I, j) \in Nat /\ i \in Nat /\ j \in Nat
    BY <1>3, <1>a
  <2>2. (i < j => Rank(I, i) < Rank(I, j)) /\ (j < i => Rank(I, j) < Rank(I, i))
    BY <1>4
  <2>3. i = j => Rank(I, i) = Rank(I, j)
    OBVIOUS
  <2> QED
    BY <2>1, <2>2, <2>3
<1>6. \A k \in 1..Cardinality(I) : \E i \in I : Rank(I, i) = k
  <2> DEFINE f == [i \in I |-> Rank(I, i)]
  <2>1. f \in Injection(I, 1..Cardinality(I))
    <3>2. \A i, j \in I : Rank(I, i) = Rank(I, j) => i = j
      BY <1>3, <1>5, <1>a
    <3> QED
      BY <1>b, <3>2 DEF Injection, IsInjective
  <2>2. IsFiniteSet(1..Cardinality(I)) /\ Cardinality(1..Cardinality(I)) = Cardinality(I)
    BY <1>2, FS_Interval
  <2>3. f \in Surjection(I, 1..Cardinality(I))
    BY <2>1, <2>2, FS_Injection
  <2> QED
    BY <2>3 DEF Surjection
<1>7. Cardinality(I) \in 0..n
  BY <1>2
<1> QED
  BY <1>2, <1>b, <1>5, <1>6, <1>7

\* Without() takes away the elements of S and nothing else, and keeps the order.
LEMMA WithoutFacts ==
  ASSUME NEW T, NEW s \in Seq(T), NEW S
  PROVE  /\ Without(s, S) \in Seq(T) /\ Len(Without(s, S)) <= Len(s)
         /\ InSeq(Without(s, S)) = InSeq(s) \ S
         /\ Distinct(s) => Distinct(Without(s, S))
         /\ \A x, y : Before(Without(s, S), x, y) <=> Before(s, x, y) /\ x \notin S /\ y \notin S
<1> DEFINE I == {i \in Indices(s) : s[i] \notin S}
           At(k) == CHOOSE i \in I : Rank(I, i) = k
           n == Cardinality(I)
           w == Without(s, S)
<1>1. Len(s) \in Nat /\ I \in SUBSET (1..Len(s)) /\ \A i \in 1..Len(s) : s[i] \in T
  BY DEF Indices
<1>2. /\ IsFiniteSet(I) /\ n \in 0..Len(s)
      /\ \A i \in I : Rank(I, i) \in 1..n
      /\ \A i, j \in I : i < j <=> Rank(I, i) < Rank(I, j)
      /\ \A k \in 1..n : \E i \in I : Rank(I, i) = k
  BY <1>1, RankFacts
<1>3. \A k \in 1..n : At(k) \in I /\ Rank(I, At(k)) = k
  BY <1>2
<1>4. \A k, l \in 1..n : (k < l <=> At(k) < At(l)) /\ (At(k) = At(l) => k = l)
  <2> TAKE k, l \in 1..n
  <2>1. /\ At(k) \in I /\ Rank(I, At(k)) = k /\ At(l) \in I /\ Rank(I, At(l)) = l
    BY <1>3
  <2> HIDE DEF I, At
  <2> QED
    BY <2>1, <1>2
<1>5. \A i \in I : Rank(I, i) \in 1..n /\ At(Rank(I, i)) = i
  <2> TAKE i \in I
  <2> DEFINE k == Rank(I, i)
             j == At(k)
  <2>1. k \in 1..n /\ j \in I /\ Rank(I, j) = k
    BY <1>2, <1>3
  <2>2. ~(i < j) /\ ~(j < i) /\ i \in Nat /\ j \in Nat
    <3>1. i \in Nat /\ j \in Nat
      BY <2>1, <1>1
    <3>2. (i < j <=> k < Rank(I, j)) /\ (j < i <=> Rank(I, j) < k)
      BY <2>1, <1>2
    <3>3. ~(k < k)
      BY <2>1, <1>2, <1>1
    <3> QED
      BY <2>1, <3>1, <3>2, <3>3
  <2> QED
    BY <2>1, <2>2
<1>6. w = [k \in 1..n |-> s[At(k)]]
  BY DEF Without, Kept
<1> HIDE DEF I, At, n
<1>7. /\ w \in Seq(T) /\ Len(w) = n /\ \A k \in 1..n : w[k] = s[At(k)]
  <2>1. \A k \in 1..n : s[At(k)] \in T
    BY <1>1, <1>3
  <2> n \in Nat
    BY <1>2, <1>1
  <2> HIDE DEF w
  <2> QED
    BY <2>1, <1>6
<1> HIDE DEF w
<1>8. \A i \in 1..Len(s) : i \in I <=> s[i] \notin S
  BY DEF I, Indices
<1>9. InSeq(w) = InSeq(s) \ S
  <2>1. ASSUME NEW x \in InSeq(w)
        PROVE  x \in InSeq(s) \ S
    BY <1>1, <1>3, <1>7, <1>8 DEF InSeq, Indices
  <2>2. ASSUME NEW x \in InSeq(s) \ S
        PROVE  x \in InSeq(w)
    <3> PICK i \in 1..Len(s) : x = s[i] /\ i \in I
      BY <1>8 DEF InSeq, Indices
    <3> QED
      BY <1>5, <1>7 DEF InSeq, Indices
  <2> QED
    BY <2>1, <2>2
<1>10. Distinct(s) => Distinct(w)
  BY <1>1, <1>3, <1>4, <1>7 DEF Distinct, Indices
<1>11. ASSUME NEW x, NEW y
       PROVE  Before(w, x, y) <=> Before(s, x, y) /\ x \notin S /\ y \notin S
  <2>1. ASSUME Before(w, x, y)
        PROVE  Before(s, x, y) /\ x \notin S /\ y \notin S
    <3> PICK k \in 1..n, l \in 1..n : k < l /\ w[k] = x /\ w[l] = y
      BY <2>1, <1>7 DEF Before, Indices
    <3> QED
      BY <1>1, <1>3, <1>4, <1>7, <1>8 DEF Before, Indices
  <2>2. ASSUME Before(s, x, y), x \notin S, y \notin S
        PROVE  Before(w, x, y)
    <3> PICK i \in 1..Len(s), j \in 1..Len(s) : i < j /\ s[i] = x /\ s[j] = y
      BY <2>2 DEF Before, Indices
    <3>1. i \in I /\ j \in I
      BY <2>2, <1>8
    <3>2. Rank(I, i) \in 1..n /\ Rank(I, j) \in 1..n /\ Rank(I, i) < Rank(I, j)
      BY <3>1, <1>2
    <3>3. w[Rank(I, i)] = x /\ w[Rank(I, j)] = y
      BY <3>1, <3>2, <1>5, <1>7
    <3> QED
      BY <3>2, <3>3, <1>7 DEF Before, Indices
  <2> QED
    BY <2>1, <2>2
<1>12. Len(w) <= Len(s)
  BY <1>1, <1>2, <1>7
<1> QED
  BY <1>7, <1>9, <1>10, <1>11, <1>12 DEF w

-----------------------------------------------------------------------------
(* The rail.                                                               *)

\* The frames of a message that are charged, staged or neither.
Plain == {p \in Packet : ~Zcopy(p)}
PlainData == {p \in Plain : ~IsControl(p)}
Chargeable == {p \in Packet : Charged(p)}

\* What the assumptions say of the rail's messages, packets and limits.
LEMMA MsgFacts ==
  ASSUME rail \in Rails
  PROVE  /\ IsFiniteSet(Msg) /\ NoMsg \notin Msg /\ Shape \in [Msg -> Seq(Kinds)]
         /\ \A m \in Msg : Len(Shape[m]) \in Nat /\ Len(Shape[m]) > 0
         /\ \A m \in Msg : Mode[m] \in {"control", "one"} => Len(Shape[m]) = 1
         /\ \A m \in Msg : \A i \in 1..Len(Shape[m]) :
              Shape[m][i] = "control" <=> Mode[m] = "control"
         /\ FrameCount \in Nat /\ FrameCount > 0 /\ QueueLimit \in Nat /\ CreditMax \in Nat
         /\ RingRefuses \in BOOLEAN
<1> IsRail(rail)
  BY PathTxAssumption
<1>1. /\ IsFiniteSet(Msg) /\ NoMsg \notin Msg /\ Shape \in [Msg -> Seq(Kinds)]
      /\ \A m \in Msg : Mode[m] \in {"control", "one"} => Len(Shape[m]) = 1
      /\ \A m \in Msg : \A i \in 1..Len(Shape[m]) :
           Shape[m][i] = "control" <=> Mode[m] = "control"
  BY DEF IsRail, Msg, Shape, Mode
<1>2. \A m \in Msg : Len(Shape[m]) \in Nat /\ Len(Shape[m]) > 0
  BY DEF IsRail, Msg, Shape
<1>3. /\ FrameCount \in Nat /\ FrameCount > 0 /\ QueueLimit \in Nat /\ CreditMax \in Nat
      /\ RingRefuses \in BOOLEAN
  BY DEF IsRail, FrameCount, QueueLimit, CreditMax, RingRefuses
<1> QED
  BY <1>1, <1>2, <1>3

\* A packet is a frame of a message, and there are finitely many.
LEMMA PacketFacts ==
  ASSUME rail \in Rails
  PROVE  /\ IsFiniteSet(Packet) /\ NoPacket \notin Packet
         /\ \A m \in Msg : \A i \in 1..Len(Shape[m]) :
              <<m, i>> \in Packet /\ (IsControl(<<m, i>>) <=> Mode[m] = "control")
         /\ \A p \in Packet : /\ p[1] \in Msg /\ p[2] \in 1..Len(Shape[p[1]])
                              /\ p = <<p[1], p[2]>> /\ KindOf(p) \in Kinds
         /\ \A m \in Msg : PacketsOf(m) \subseteq Packet
<1> USE MsgFacts
<1>1. \A m \in Msg : \A i \in 1..Len(Shape[m]) : <<m, i>> \in Packet
  BY DEF Packet
<1>2. \A m \in Msg : \A i \in 1..Len(Shape[m]) : IsControl(<<m, i>>) <=> Mode[m] = "control"
  BY DEF IsControl, KindOf
<1>3. ASSUME NEW p \in Packet
      PROVE  /\ p[1] \in Msg /\ p[2] \in 1..Len(Shape[p[1]])
             /\ p = <<p[1], p[2]>> /\ KindOf(p) \in Kinds
  <2> PICK m \in Msg : p \in {m} \X (1..Len(Shape[m]))
    BY DEF Packet
  <2>1. p[1] = m /\ p[2] \in 1..Len(Shape[m]) /\ p = <<p[1], p[2]>>
    OBVIOUS
  <2>2. Shape[m] \in Seq(Kinds)
    OBVIOUS
  <2>3. Shape[m][p[2]] \in Kinds
    BY <2>1, <2>2
  <2> QED
    BY <2>1, <2>3 DEF KindOf
<1>4. NoPacket \notin Packet
  <2> SUFFICES ASSUME NoPacket \in Packet
               PROVE  FALSE
    OBVIOUS
  <2>1. NoPacket[1] \in Msg
    BY <1>3
  <2> QED
    BY <2>1 DEF NoPacket
<1>5. \A m \in Msg : PacketsOf(m) \subseteq Packet
  BY DEF PacketsOf, Packet
<1>6. IsFiniteSet(Packet)
  <2> DEFINE S == {{m} \X (1..Len(Shape[m])) : m \in Msg}
  <2>1. IsFiniteSet(S)
    <3> DEFINE f == [m \in Msg |-> {m} \X (1..Len(Shape[m]))]
    <3>1. f \in Surjection(Msg, S)
      BY DEF Surjection
    <3> QED
      BY <3>1, FS_Surjection
  <2>2. \A T \in S : IsFiniteSet(T)
    <3> SUFFICES ASSUME NEW m \in Msg
                 PROVE  IsFiniteSet({m} \X (1..Len(Shape[m])))
      OBVIOUS
    <3>0. 1 \in Int /\ Len(Shape[m]) \in Int
      OBVIOUS
    <3>1. IsFiniteSet({m}) /\ IsFiniteSet(1..Len(Shape[m]))
      BY <3>0, FS_Singleton, FS_Interval
    <3> QED
      BY <3>1, FS_Product
  <2> QED
    BY <2>1, <2>2, FS_UNION DEF Packet
<1> QED
  BY <1>1, <1>2, <1>3, <1>4, <1>5, <1>6

\* The control reserve never takes all of the staging frames.
LEMMA ReserveFacts ==
  ASSUME rail \in Rails
  PROVE  ControlFrameReserve \in Nat /\ ControlFrameReserve <= FrameCount
<1> USE MsgFacts
<1>1. FrameCount \div 4 \in Nat /\ FrameCount \div 4 <= FrameCount
  OBVIOUS
<1> QED
  BY <1>1 DEF ControlFrameReserve, Lesser, Greater, CONTROL_RESERVE_MAX

\* A path keeps its rail.
LEMMA RailSame ==
  ASSUME rail' = rail
  PROVE  /\ Msg' = Msg /\ Shape' = Shape /\ Mode' = Mode /\ Packet' = Packet
         /\ FrameCount' = FrameCount /\ QueueLimit' = QueueLimit /\ CreditMax' = CreditMax
         /\ RingRefuses' = RingRefuses /\ Quiesces' = Quiesces
         /\ ControlFrameReserve' = ControlFrameReserve
         /\ Plain' = Plain /\ PlainData' = PlainData /\ Chargeable' = Chargeable
         /\ RawStates' = RawStates
         /\ \A p : (IsControl(p))' = IsControl(p)
<1>1. Msg' = Msg /\ Shape' = Shape /\ Mode' = Mode /\ FrameCount' = FrameCount
      /\ QueueLimit' = QueueLimit /\ CreditMax' = CreditMax
      /\ RingRefuses' = RingRefuses /\ Quiesces' = Quiesces
  BY DEF Msg, Shape, Mode, FrameCount, QueueLimit, CreditMax, RingRefuses, Quiesces
<1>2. Packet' = Packet /\ RawStates' = RawStates
  BY <1>1 DEF Packet, RawStates
<1>3. \A p : (IsControl(p))' = IsControl(p) /\ (Zcopy(p))' = Zcopy(p)
  BY <1>1 DEF IsControl, Zcopy, KindOf
<1>4. \A p : (Charged(p))' = Charged(p)
  BY <1>1, <1>3 DEF Charged
<1>5. Plain' = Plain
  BY <1>2, <1>3 DEF Plain
<1>6. PlainData' = PlainData /\ Chargeable' = Chargeable
  BY <1>2, <1>3, <1>4, <1>5 DEF PlainData, Chargeable
<1>7. ControlFrameReserve' = ControlFrameReserve
  BY <1>1 DEF ControlFrameReserve
<1> QED
  BY <1>1, <1>2, <1>3, <1>5, <1>6, <1>7

-----------------------------------------------------------------------------
(* Counting packets.                                                       *)

CountIn(f, A, D) == Cardinality({x \in D : f[x] \in A})

Bit(b) == IF b THEN 1 ELSE 0

\* Two sets that differ in one element.
LEMMA CountMoved ==
  ASSUME NEW F, NEW G, NEW p, IsFiniteSet(F), IsFiniteSet(G), F \ {p} = G \ {p}
  PROVE  /\ Cardinality(F) \in Nat /\ Cardinality(G) \in Nat
         /\ Cardinality(G) = Cardinality(F) + Bit(p \in G) - Bit(p \in F)
         /\ p \in F => Cardinality(F) > 0
<1>1. Cardinality(F) \in Nat /\ Cardinality(G) \in Nat
  BY FS_CardinalityType
<1>2. /\ Cardinality(F \ {p}) = IF p \in F THEN Cardinality(F) - 1 ELSE Cardinality(F)
      /\ Cardinality(G \ {p}) = IF p \in G THEN Cardinality(G) - 1 ELSE Cardinality(G)
  BY FS_RemoveElement
<1>3. p \in F => Cardinality(F) # 0
  BY FS_EmptySet
<1>4. Cardinality(F \ {p}) = Cardinality(G \ {p})
  OBVIOUS
<1>5. (IF p \in F THEN Cardinality(F) - 1 ELSE Cardinality(F))
        = IF p \in G THEN Cardinality(G) - 1 ELSE Cardinality(G)
  BY <1>2, <1>4, Zenon
<1> QED
  BY <1>1, <1>3, <1>5 DEF Bit

Fly == {"hand", "attached", "hw", "completing"}
Stg == {"hand", "attached", "hw"}
Hnd == {"hand", "attached"}
Flying == CountIn(pst, Fly, Packet)
Staged == CountIn(pst, Stg, Plain)
StagedData == CountIn(pst, Stg, PlainData)
ChargedInHand == CountIn(pst, Hnd, Chargeable)

Accounts ==
  /\ inflight = Flying + (IF sched.pc = "errdec" THEN 1 ELSE 0) + decs + retiring
  /\ free + Staged = FrameCount
  /\ StagedData <= FrameCount - ControlFrameReserve
  /\ CreditMax > 0 => credits + held + ChargedInHand = CreditMax

\* The accounts in terms of these counts.
LEMMA AccountForm ==
  /\ Accounts <=> InflightAccounting /\ StagingConservation /\ CreditConservation
  /\ Accounts' <=> (InflightAccounting /\ StagingConservation /\ CreditConservation)'
<1>1. /\ InState(Fly) = {x \in Packet : pst[x] \in Fly}
      /\ {p \in InState(Stg) : ~Zcopy(p)} = {x \in Plain : pst[x] \in Stg}
      /\ {p \in {p \in InState(Stg) : ~Zcopy(p)} : ~IsControl(p)} = {x \in PlainData : pst[x] \in Stg}
      /\ {p \in InState(Hnd) : Charged(p)} = {x \in Chargeable : pst[x] \in Hnd}
  BY DEF InState, Plain, PlainData, Chargeable
<1>2. (/\ InState(Fly) = {x \in Packet : pst[x] \in Fly}
       /\ {p \in InState(Stg) : ~Zcopy(p)} = {x \in Plain : pst[x] \in Stg}
       /\ {p \in {p \in InState(Stg) : ~Zcopy(p)} : ~IsControl(p)} = {x \in PlainData : pst[x] \in Stg}
       /\ {p \in InState(Hnd) : Charged(p)} = {x \in Chargeable : pst[x] \in Hnd})'
  BY DEF InState, Plain, PlainData, Chargeable
<1>3. Accounts <=> InflightAccounting /\ StagingConservation /\ CreditConservation
  BY <1>1 DEF Accounts, InflightAccounting, StagingConservation, CreditConservation,
              Flying, Staged, StagedData, ChargedInHand, CountIn, Fly, Stg, Hnd
<1>4. Accounts' <=> (InflightAccounting /\ StagingConservation /\ CreditConservation)'
  BY <1>2 DEF Accounts, InflightAccounting, StagingConservation, CreditConservation,
              Flying, Staged, StagedData, ChargedInHand, CountIn, Fly, Stg, Hnd
<1> QED
  BY <1>3, <1>4

\* The counts are numbers, and those of parts are bounded by those of wholes.
LEMMA CountBounds ==
  ASSUME rail \in Rails
  PROVE  /\ {Flying, Staged, StagedData, ChargedInHand} \subseteq Nat
         /\ StagedData <= Flying
         /\ \A p \in Packet : pst[p] \in Hnd /\ Charged(p) => ChargedInHand > 0
<1> USE PacketFacts
<1>1. /\ IsFiniteSet(Packet) /\ Plain \in SUBSET Packet /\ PlainData \in SUBSET Packet
      /\ Chargeable \in SUBSET Packet
  BY DEF Plain, PlainData, Chargeable
<1>2. \A D \in SUBSET Packet : IsFiniteSet(D) /\ Cardinality(D) \in Nat
  BY <1>1, FS_Subset, FS_CardinalityType
<1>3. \A D \in SUBSET Packet : \A A : CountIn(pst, A, D) \in Nat
  <2> TAKE D \in SUBSET Packet
  <2> TAKE A
  <2> {x \in D : pst[x] \in A} \in SUBSET Packet
    OBVIOUS
  <2> QED
    BY <1>2 DEF CountIn
<1>4. StagedData <= Flying
  <2> DEFINE F == {x \in Packet : pst[x] \in Fly}
             G == {x \in PlainData : pst[x] \in Stg}
  <2>1. G \in SUBSET F /\ IsFiniteSet(F)
    BY <1>1, <1>2 DEF Fly, Stg
  <2>2. Cardinality(G) <= Cardinality(F)
    BY <2>1, FS_Subset
  <2> QED
    BY <2>2 DEF StagedData, Flying, CountIn
<1>5. ASSUME NEW p \in Packet, pst[p] \in Hnd, Charged(p)
      PROVE  ChargedInHand > 0
  <2> DEFINE F == {x \in Chargeable : pst[x] \in Hnd}
  <2>1. F \in SUBSET Packet /\ p \in F
    BY <1>1, <1>5 DEF Chargeable
  <2>2. Cardinality(F) \in Nat /\ Cardinality(F) # 0
    BY <1>2, <2>1, FS_EmptySet
  <2> QED
    BY <2>2 DEF ChargedInHand, CountIn
<1> QED
  BY <1>1, <1>3, <1>4, <1>5 DEF Flying, Staged, StagedData, ChargedInHand

\* No packet enters or leaves the states that are counted.
LEMMA CountsKept ==
  ASSUME rail \in Rails, rail' = rail,
         \A p \in Packet : \/ pst'[p] = pst[p]
                           \/ pst[p] \notin Fly /\ pst'[p] \notin Fly
  PROVE  /\ Flying' = Flying /\ Staged' = Staged /\ StagedData' = StagedData
         /\ ChargedInHand' = ChargedInHand
         /\ {Flying, Staged, StagedData, ChargedInHand} \subseteq Nat
         /\ StagedData <= Flying
<1> USE RailSame, PacketFacts
<1>1. /\ IsFiniteSet(Packet) /\ Plain \in SUBSET Packet /\ PlainData \in SUBSET Packet
      /\ Chargeable \in SUBSET Packet
  BY DEF Plain, PlainData, Chargeable
<1>2. {x \in Packet : pst[x] \in Fly} = {x \in Packet : pst'[x] \in Fly}
  OBVIOUS
<1>3. \A D \in SUBSET Packet :
        /\ {x \in D : pst[x] \in Stg} = {x \in D : pst'[x] \in Stg}
        /\ {x \in D : pst[x] \in Hnd} = {x \in D : pst'[x] \in Hnd}
  BY DEF Fly, Stg, Hnd
<1>4. /\ Flying' = Flying /\ Staged' = Staged /\ StagedData' = StagedData
      /\ ChargedInHand' = ChargedInHand
  BY <1>1, <1>2, <1>3 DEF Flying, Staged, StagedData, ChargedInHand, CountIn
<1> QED
  BY <1>4, CountBounds

\* One packet moves from one state to another.
LEMMA CountsMoved ==
  ASSUME rail \in Rails, rail' = rail, NEW p \in Packet,
         \A x \in Packet \ {p} : pst'[x] = pst[x]
  PROVE  /\ Flying' = Flying + Bit(pst'[p] \in Fly) - Bit(pst[p] \in Fly)
         /\ Staged' = IF Zcopy(p) THEN Staged
                      ELSE Staged + Bit(pst'[p] \in Stg) - Bit(pst[p] \in Stg)
         /\ StagedData' = IF Zcopy(p) \/ IsControl(p) THEN StagedData
                          ELSE StagedData + Bit(pst'[p] \in Stg) - Bit(pst[p] \in Stg)
         /\ ChargedInHand' = IF ~Charged(p) THEN ChargedInHand
                             ELSE ChargedInHand + Bit(pst'[p] \in Hnd) - Bit(pst[p] \in Hnd)
         /\ {Flying, Staged, StagedData, ChargedInHand} \subseteq Nat
         /\ {Flying', Staged', StagedData', ChargedInHand'} \subseteq Nat
         /\ pst[p] \in Fly => Flying > 0
         /\ pst[p] \in Hnd /\ Charged(p) => ChargedInHand > 0
         /\ pst[p] \in Stg /\ ~Zcopy(p) => Staged > 0
<1> USE RailSame, PacketFacts
<1>1. /\ IsFiniteSet(Packet) /\ Plain \in SUBSET Packet /\ PlainData \in SUBSET Packet
      /\ Chargeable \in SUBSET Packet
  BY DEF Plain, PlainData, Chargeable
<1>3. /\ p \in Plain <=> ~Zcopy(p)
      /\ p \in PlainData <=> ~Zcopy(p) /\ ~IsControl(p)
      /\ p \in Chargeable <=> Charged(p)
  BY DEF Plain, PlainData, Chargeable
<1>4. \A D \in SUBSET Packet : \A A :
        /\ CountIn(pst, A, D) \in Nat /\ CountIn(pst', A, D) \in Nat
        /\ p \in D => CountIn(pst', A, D) = CountIn(pst, A, D) + Bit(pst'[p] \in A)
                                              - Bit(pst[p] \in A)
        /\ p \notin D => CountIn(pst', A, D) = CountIn(pst, A, D)
        /\ p \in D /\ pst[p] \in A => CountIn(pst, A, D) > 0
  <2> TAKE D \in SUBSET Packet
  <2> TAKE A
  <2> DEFINE F == {x \in D : pst[x] \in A}
             G == {x \in D : pst'[x] \in A}
  <2>1. F \in SUBSET Packet /\ G \in SUBSET Packet /\ F \ {p} = G \ {p}
    OBVIOUS
  <2>2. IsFiniteSet(F) /\ IsFiniteSet(G)
    BY <1>1, <2>1, FS_Subset
  <2>3. /\ p \in D => (p \in F <=> pst[p] \in A) /\ (p \in G <=> pst'[p] \in A)
        /\ p \notin D => F = G
    OBVIOUS
  <2>4. CountIn(pst, A, D) = Cardinality(F) /\ CountIn(pst', A, D) = Cardinality(G)
    BY DEF CountIn
  <2> HIDE DEF F, G
  <2>5. /\ Cardinality(F) \in Nat /\ Cardinality(G) \in Nat
        /\ Cardinality(G) = Cardinality(F) + Bit(p \in G) - Bit(p \in F)
        /\ p \in F => Cardinality(F) > 0
    BY <2>1, <2>2, CountMoved
  <2> QED
    BY <2>3, <2>4, <2>5 DEF Bit
<1>5. /\ Flying' = CountIn(pst', Fly, Packet) /\ Staged' = CountIn(pst', Stg, Plain)
      /\ StagedData' = CountIn(pst', Stg, PlainData)
      /\ ChargedInHand' = CountIn(pst', Hnd, Chargeable)
  BY DEF Flying, Staged, StagedData, ChargedInHand, CountIn
<1>6. /\ Flying' = Flying + Bit(pst'[p] \in Fly) - Bit(pst[p] \in Fly)
      /\ Flying \in Nat /\ Flying' \in Nat /\ (pst[p] \in Fly => Flying > 0)
  BY <1>1, <1>4, <1>5 DEF Flying
<1>7. /\ Staged' = IF Zcopy(p) THEN Staged
                   ELSE Staged + Bit(pst'[p] \in Stg) - Bit(pst[p] \in Stg)
      /\ Staged \in Nat /\ Staged' \in Nat /\ (pst[p] \in Stg /\ ~Zcopy(p) => Staged > 0)
  BY <1>1, <1>3, <1>4, <1>5 DEF Staged
<1>8. /\ StagedData' = IF Zcopy(p) \/ IsControl(p) THEN StagedData
                       ELSE StagedData + Bit(pst'[p] \in Stg) - Bit(pst[p] \in Stg)
      /\ StagedData \in Nat /\ StagedData' \in Nat
  BY <1>1, <1>3, <1>4, <1>5 DEF StagedData
<1>9. /\ ChargedInHand' = IF ~Charged(p) THEN ChargedInHand
                          ELSE ChargedInHand + Bit(pst'[p] \in Hnd) - Bit(pst[p] \in Hnd)
      /\ ChargedInHand \in Nat /\ ChargedInHand' \in Nat
      /\ (pst[p] \in Hnd /\ Charged(p) => ChargedInHand > 0)
  BY <1>1, <1>3, <1>4, <1>5 DEF ChargedInHand
<1> QED
  BY <1>6, <1>7, <1>8, <1>9

-----------------------------------------------------------------------------
(* What a step leaves alone.                                               *)

\* The parts of the invariant that speak of sequences and states survive a
\* step that changes neither.
LEMMA QueuesKept ==
  ASSUME rail' = rail, QueuesOK, ctlq' = ctlq, dataq' = dataq,
         \A p \in Packet : pst'[p] = "queued" <=> pst[p] = "queued"
  PROVE  QueuesOK'
BY RailSame DEF QueuesOK

\* ... that moves nothing into or out of the ring,
LEMMA RingKept ==
  ASSUME rail' = rail, RingOK, ring' = ring,
         \A p \in Packet : pst'[p] = "hw" <=> pst[p] = "hw"
  PROVE  RingOK'
BY RailSame DEF RingOK

\* ... or the hands of the scheduler,
LEMMA SchedKept ==
  ASSUME rail' = rail, SchedOK, scheduling' = scheduling, sched' = sched,
         \A p \in Packet : pst'[p] = pst[p] \/ {pst[p], pst'[p]} \cap {"hand", "attached", "failing"} = {}
  PROVE  SchedOK'
<1> USE RailSame DEF SchedOK
<1>1. sched.pc \in DOMAIN InHand => InHand[sched.pc] \in {"hand", "attached", "failing"}
  BY DEF InHand
<1> QED
  BY <1>1

\* ... that posts nothing,
LEMMA HoldsKept ==
  ASSUME rail \in Rails, rail' = rail, HoldsOK, holds' = holds,
         \A p \in Packet : pst[p] = "idle" => pst'[p] = "idle"
  PROVE  HoldsOK'
BY RailSame, PacketFacts DEF HoldsOK, Indices

\* ... and releases nothing.
LEMMA OrderKept ==
  ASSUME rail' = rail, OrderOK, order' = order,
         \A p \in Packet : pst'[p] = "idle" <=> pst[p] = "idle"
  PROVE  OrderOK'
BY RailSame DEF OrderOK

\* The members of a sequence come before or after one another.
LEMMA BeforeIn ==
  ASSUME NEW s, NEW x, NEW y, Before(s, x, y)
  PROVE  x \in InSeq(s) /\ y \in InSeq(s)
BY DEF Before, InSeq

\* Whoever is ahead or behind is on the path.
LEMMA AheadFacts ==
  ASSUME QueuesOK, RingOK, NEW x \in Packet, NEW y \in Packet, Ahead(x, y)
  PROVE  pst[x] \in OnPath /\ pst[y] \in OnPath
BY BeforeIn DEF Ahead, QueuesOK, RingOK, OnPath

\* A step that puts nobody ahead of another, and keeps the order of those that
\* stay on the path.
LEMMA InOrderKept ==
  ASSUME rail' = rail, InOrder, QueuesOK', RingOK',
         \A x, y \in Packet : ~IsControl(x) /\ ~IsControl(y) /\ (Ahead(x, y))' => Ahead(x, y),
         \A x, y \in Packet : pst'[x] \in OnPath /\ pst'[y] \in OnPath /\ Before(order, x, y)
                                => Before(order', x, y)
  PROVE  InOrder'
<1> USE RailSame
<1> SUFFICES ASSUME NEW x \in Packet, NEW y \in Packet, ~IsControl(x), ~IsControl(y), (Ahead(x, y))'
             PROVE  Before(order', x, y)
  BY DEF InOrder, Before
<1>1. Before(order, x, y)
  BY DEF InOrder
<1>2. pst'[x] \in OnPath /\ pst'[y] \in OnPath
  BY BeforeIn DEF Ahead, QueuesOK, RingOK, OnPath
<1> QED
  BY <1>1, <1>2

\* A step that moves no packet.
LEMMA StillInv ==
  ASSUME Inv, rail' = rail,
         UNCHANGED <<ctlq, dataq, order, group, ring, pst, canceled, counted, raw>>,
         closed' \in BOOLEAN, q' \in QStates, QueueTypes', SchedTypes', CountTypes', RingTypes',
         SchedOK', HoldsOK', Accounts', RoomOK'
  PROVE  Inv'
<1> USE RailSame
<1>1. rail' \in Rails /\ PacketTypes'
  BY DEF Inv, TypeOK, PacketTypes
<1>2. QueuesOK' /\ RingOK' /\ OrderOK'
  BY QueuesKept, RingKept, OrderKept DEF Inv
<1>3. InOrder'
  BY DEF Inv, InOrder, Ahead, Before
<1>4. (InflightAccounting /\ StagingConservation /\ CreditConservation)'
  BY AccountForm
<1> QED
  BY <1>1, <1>2, <1>3, <1>4 DEF Inv, TypeOK

AccountVars == <<pst, free, inflight, credits, held, decs, retiring>>

\* The accounts of such a step, when none of what they add up changes.
LEMMA AccountsKept ==
  ASSUME Inv, rail' = rail, UNCHANGED AccountVars, kicks' \in Nat,
         sched.pc = "errdec" <=> sched'.pc = "errdec"
  PROVE  Accounts' /\ CountTypes'
<1> USE RailSame
<1>1. rail \in Rails /\ Accounts /\ CountTypes
  BY AccountForm DEF Inv, TypeOK
<1>2. /\ Flying' = Flying /\ Staged' = Staged /\ StagedData' = StagedData
      /\ ChargedInHand' = ChargedInHand
  BY <1>1, CountsKept DEF AccountVars
<1> QED
  BY <1>1, <1>2 DEF Accounts, CountTypes, AccountVars

-----------------------------------------------------------------------------
(* Steps that move no packet.                                              *)

SchedVars == <<scheduling, sched>>

\* The scheduler thread goes on without a packet changing its place.
LEMMA SchedSame ==
  ASSUME Inv, rail' = rail, UNCHANGED <<pst, raw>>, UNCHANGED SchedVars
  PROVE  SchedTypes' /\ SchedOK'
<1>1. SchedTypes'
  BY RailSame DEF Inv, TypeOK, SchedTypes, SchedVars, NoPacket
<1> QED
  BY <1>1, SchedKept DEF Inv, SchedVars

\* Posters that reserve frames, or give up what they reserved.
LEMMA ReserveInv ==
  ASSUME Inv, rail' = rail, NEW m \in Msg, ReserveData(m) \/ ReleaseDataReservation(m)
  PROVE  Inv'
<1> USE RailSame
<1>1. rail \in Rails /\ m \in Msg /\ Len(Shape[m]) \in Nat
  BY MsgFacts DEF Inv, TypeOK
<1>2. /\ UNCHANGED <<ctlq, dataq, order, group, ring, pst, canceled, counted, raw>>
      /\ UNCHANGED AccountVars /\ UNCHANGED SchedVars /\ UNCHANGED <<closed, q, ring, hwdone, running, wire>>
  BY DEF ReserveData, ReleaseDataReservation, AccountVars, SchedVars, rawvars, cvars, svars, hwvars
<1>3. kicks' \in Nat
  BY DEF ReserveData, ReleaseDataReservation, svars, Kick, Inv, TypeOK, CountTypes
<1>4. /\ reserved' \in Nat /\ posts' \in [Msg -> Nat]
      /\ holds' \in [Msg -> Nat] /\ \A n \in Msg \ {m} : holds'[n] = holds[n]
  <2>1. reserved \in Nat /\ posts \in [Msg -> Nat] /\ holds \in [Msg -> Nat] /\ holds[m] \in Nat
    BY DEF Inv, TypeOK, QueueTypes
  <2>2. CASE ReserveData(m)
    BY <2>1, <2>2, <1>1 DEF ReserveData, Counted
  <2>3. CASE ReleaseDataReservation(m)
    <3>1. reserved' = IF reserved >= holds[m] THEN reserved - holds[m] ELSE 0
      BY <2>3 DEF ReleaseDataReservation
    <3>2. reserved' \in Nat
      BY <2>1, <3>1
    <3>3. posts' = posts /\ holds' = [holds EXCEPT ![m] = 0]
      BY <2>3 DEF ReleaseDataReservation
    <3> QED
      BY <2>1, <3>2, <3>3
  <2> QED
    BY <2>2, <2>3
<1>5. HoldsOK'
  <2>1. /\ holds'[m] <= Len(Shape[m]) /\ holds'[m] \in {0, Len(Shape[m])}
        /\ \A i \in Indices(Shape[m]) : i > Len(Shape[m]) - holds'[m] => pst[<<m, i>>] = "idle"
    <3>1. CASE ReserveData(m)
      <4>1. holds'[m] = Len(Shape[m]) /\ \A i \in Indices(Shape[m]) : pst[<<m, i>>] = "idle"
        BY <3>1 DEF ReserveData, Fresh, PacketsOf, Indices, Inv, TypeOK, QueueTypes
      <4> QED
        BY <4>1, <1>1
    <3>2. CASE ReleaseDataReservation(m)
      <4>1. holds'[m] = 0
        BY <3>2 DEF ReleaseDataReservation, Inv, TypeOK, QueueTypes
      <4> QED
        BY <4>1, <1>1 DEF Indices
    <3> QED
      BY <3>1, <3>2
  <2>2. HoldsOK /\ UNCHANGED pst
    BY <1>2 DEF Inv
  <2> QED
    BY <2>1, <2>2, <1>4 DEF HoldsOK
<1>6. RoomOK'
  <2>1. /\ Len(dataq) \in Nat /\ reserved \in Nat /\ holds[m] \in Nat /\ QueueLimit \in Nat
    BY <1>1, MsgFacts DEF Inv, TypeOK, QueueTypes
  <2>2. /\ RoomOK
        /\ \/ reserved' <= reserved
           \/ Len(dataq) + reserved' <= QueueLimit
    <3>1. RoomOK
      BY DEF Inv
    <3>2. CASE ReserveData(m)
      <4>1. /\ reserved' = reserved + Len(Shape[m]) /\ Len(Shape[m]) <= QueueLimit
            /\ Len(dataq) + reserved <= QueueLimit - Len(Shape[m])
        BY <3>2 DEF ReserveData, RoomFor
      <4> DEFINE n == Len(Shape[m])
      <4>2. n \in Nat /\ reserved' = reserved + n /\ Len(dataq) + reserved <= QueueLimit - n
        BY <4>1, <1>1
      <4> HIDE DEF n
      <4>3. Len(dataq) + reserved' <= QueueLimit
        BY <4>2, <2>1
      <4> QED
        BY <3>1, <4>3
    <3>3. CASE ReleaseDataReservation(m)
      <4>1. reserved' = IF reserved >= holds[m] THEN reserved - holds[m] ELSE 0
        BY <3>3 DEF ReleaseDataReservation
      <4> QED
        BY <3>1, <4>1, <2>1
    <3> QED
      BY <3>2, <3>3
  <2>3. UNCHANGED <<dataq, sched>>
    BY <1>2 DEF SchedVars
  <2> QED
    BY <2>1, <2>2, <2>3, <1>4 DEF RoomOK
<1>7. QueueTypes' /\ RingTypes' /\ closed' \in BOOLEAN /\ q' \in QStates
  BY <1>2, <1>4 DEF Inv, TypeOK, QueueTypes, RingTypes
<1>8. SchedTypes' /\ SchedOK'
  BY <1>2, SchedSame
<1>9. Accounts' /\ CountTypes'
  BY <1>2, <1>3, AccountsKept DEF SchedVars
<1> QED
  BY <1>2, <1>5, <1>6, <1>7, <1>8, <1>9, StillInv

\* A step of the scheduler, the callbacks, the peer or the quiesce that leaves
\* queues, reservations and ring alone.
LEMMA StepInv ==
  ASSUME Inv, rail' = rail,
         UNCHANGED <<queues, ring, pst, canceled, counted, raw>>,
         closed' \in BOOLEAN, q' \in QStates, hwdone' \in 0..Len(ring), running' \in BOOLEAN,
         wire' \in Msg \cup {NoMsg}, SchedTypes', SchedOK', CountTypes', Accounts',
         sched'.pc \notin {"take", "ring"} \/ sched' = sched
  PROVE  Inv'
<1> USE RailSame
<1>1. UNCHANGED <<ctlq, dataq, reserved, holds, group, order, posts>>
  BY DEF queues
<1>2. QueueTypes' /\ RingTypes'
  BY <1>1 DEF Inv, TypeOK, QueueTypes, RingTypes
<1>3. HoldsOK'
  BY <1>1, HoldsKept DEF Inv, TypeOK
<1>4. RoomOK'
  <2>1. Len(dataq) \in Nat /\ reserved \in Nat /\ QueueLimit \in Nat
    BY MsgFacts DEF Inv, TypeOK, QueueTypes
  <2>2. RoomOK
    BY DEF Inv
  <2> QED
    BY <2>1, <2>2, <1>1 DEF RoomOK
<1> QED
  BY <1>1, <1>2, <1>3, <1>4, StillInv

\* A thread enters the loop of schedule_tx() or leaves it.
LEMMA LoopInv ==
  ASSUME Inv, rail' = rail, ScheduleTxEnter \/ ScheduleTxStop \/ FailExit
  PROVE  Inv'
<1> USE RailSame
<1>1. /\ UNCHANGED <<queues, ring, pst, canceled, counted, raw, closed, q, hwdone, running, wire>>
      /\ UNCHANGED AccountVars /\ kicks' \in Nat
  BY DEF ScheduleTxEnter, ScheduleTxStop, FailExit, AccountVars, rawvars, cvars, hwvars,
         Inv, TypeOK, CountTypes
<1>2. /\ sched \in [pc : SchedPcs, p : Packet \cup {NoPacket}, group : Nat, raw : RawStates]
      /\ scheduling \in BOOLEAN /\ raw \in RawStates /\ NoRaw \in RawStates
      /\ closed \in BOOLEAN /\ q \in QStates /\ hwdone \in 0..Len(ring) /\ running \in BOOLEAN
      /\ wire \in Msg \cup {NoMsg} /\ NoPacket' = NoPacket
  BY DEF Inv, TypeOK, SchedTypes, RingTypes, NoRaw, RawStates, NoPacket
<1>3. \/ sched' = sched /\ scheduling' = scheduling
      \/ /\ sched'.pc \in {"idle", "loop"} /\ (scheduling' <=> sched'.pc # "idle")
         /\ sched' \in [pc : SchedPcs, p : Packet \cup {NoPacket}, group : Nat, raw : RawStates]
         /\ scheduling' \in BOOLEAN /\ sched.pc \in {"idle", "loop", "errexit"}
  <2>0. /\ scheduling <=> sched.pc # "idle"
        /\ IdleSched \in [pc : SchedPcs, p : Packet \cup {NoPacket}, group : Nat, raw : RawStates]
        /\ [IdleSched EXCEPT !.pc = "loop"] \in
             [pc : SchedPcs, p : Packet \cup {NoPacket}, group : Nat, raw : RawStates]
        /\ IdleSched.pc = "idle" /\ [IdleSched EXCEPT !.pc = "loop"].pc = "loop"
    BY <1>2 DEF Inv, SchedOK, IdleSched, SchedPcs
  <2>1. CASE ScheduleTxEnter
    <3>1. CASE scheduling
      BY <3>1, <2>1 DEF ScheduleTxEnter
    <3>2. CASE ~scheduling
      <4>1. scheduling' = TRUE /\ sched' = [IdleSched EXCEPT !.pc = "loop"]
        BY <3>2, <2>1 DEF ScheduleTxEnter
      <4> QED
        BY <4>1, <3>2, <2>0
    <3> QED
      BY <3>1, <3>2
  <2>2. CASE ScheduleTxStop \/ FailExit
    <3>1. scheduling' = FALSE /\ sched' = IdleSched /\ sched.pc \in {"loop", "errexit"}
      BY <2>2 DEF ScheduleTxStop, FailExit
    <3> QED
      BY <3>1, <2>0
  <2> QED
    BY <2>1, <2>2
<1>4. SchedTypes'
  BY <1>1, <1>2, <1>3 DEF SchedTypes
<1>5. SchedOK'
  BY <1>1, <1>3 DEF SchedOK, Inv, InHand
<1>6. Accounts' /\ CountTypes'
  <2> sched.pc = "errdec" <=> sched'.pc = "errdec"
    BY <1>3
  <2> QED
    BY <1>1, AccountsKept
<1> QED
  BY <1>1, <1>2, <1>3, <1>4, <1>5, <1>6, StepInv

\* A thread drops the tx_inflight count of a packet that is not in the ring any
\* more.
LEMMA DecInv ==
  ASSUME Inv, rail' = rail, RequeueDec \/ FailDec \/ TxRetireOne
  PROVE  Inv'
<1> USE RailSame
<1>1. /\ UNCHANGED <<queues, ring, pst, canceled, counted, raw, closed, q, hwdone, running, wire>>
      /\ UNCHANGED <<free, credits, held, scheduling>>
  BY DEF RequeueDec, FailDec, TxRetireOne, rawvars, cvars, hwvars
<1>2. /\ sched \in [pc : SchedPcs, p : Packet \cup {NoPacket}, group : Nat, raw : RawStates]
      /\ scheduling \in BOOLEAN /\ raw \in RawStates
      /\ closed \in BOOLEAN /\ q \in QStates /\ hwdone \in 0..Len(ring) /\ running \in BOOLEAN
      /\ wire \in Msg \cup {NoMsg} /\ NoPacket' = NoPacket /\ rail \in Rails
      /\ free \in 0..FrameCount /\ credits \in 0..CreditMax
      /\ {inflight, held, kicks, decs, retiring} \subseteq Nat
  BY DEF Inv, TypeOK, SchedTypes, RingTypes, CountTypes, NoPacket
<1>3. \/ sched' = sched
      \/ /\ FailDec /\ sched.pc = "errdec" /\ sched' = [sched EXCEPT !.pc = "errrel"]
  BY DEF RequeueDec, FailDec, TxRetireOne
<1>4. SchedTypes'
  BY <1>1, <1>2, <1>3 DEF SchedTypes, SchedPcs
<1>5. SchedOK'
  <2>1. CASE sched' = sched
    BY <2>1, <1>1 DEF SchedOK, Inv
  <2>2. CASE FailDec
    <3>1. sched'.pc = "errrel" /\ sched'.p = sched.p /\ sched.pc = "errdec"
      BY <2>2, <1>2, <1>3 DEF FailDec
    <3> QED
      BY <3>1, <1>1 DEF SchedOK, Inv, InHand
  <2> QED
    BY <1>3, <2>1, <2>2
<1>6. Accounts' /\ CountTypes'
  <2>1. /\ Flying' = Flying /\ Staged' = Staged /\ StagedData' = StagedData
        /\ ChargedInHand' = ChargedInHand /\ Flying \in Nat
    BY <1>1, <1>2, CountsKept
  <2> DEFINE err == IF sched.pc = "errdec" THEN 1 ELSE 0
  <2>2. Accounts /\ inflight = Flying + err + decs + retiring /\ err \in Nat
    BY AccountForm DEF Inv, Accounts
  <2>a. inflight \in Nat /\ decs \in Nat /\ retiring \in Nat /\ kicks \in Nat /\ held \in Nat
    BY <1>2
  <2>3. CASE RequeueDec
    <3>1. /\ decs' = decs - 1 /\ inflight' = inflight - 1 /\ decs > 0
          /\ UNCHANGED <<sched, kicks, retiring>>
      BY <2>3 DEF RequeueDec
    <3>2. inflight' = Flying' + err' + decs' + retiring' /\ inflight' \in Nat /\ decs' \in Nat
      <4> HIDE DEF err
      <4>1. err' = err
        BY <3>1 DEF err
      <4> QED
        BY <3>1, <4>1, <2>1, <2>2, <2>a
    <3> QED
      BY <3>1, <3>2, <2>1, <2>2, <2>a, <1>1, <1>2 DEF Accounts, CountTypes
  <2>4. CASE FailDec
    <3>1. /\ sched.pc = "errdec" /\ sched'.pc = "errrel" /\ inflight' = inflight - 1
          /\ UNCHANGED <<decs, kicks, retiring>>
      BY <2>4, <1>2 DEF FailDec
    <3> QED
      BY <3>1, <2>1, <2>2, <1>1, <1>2 DEF Accounts, CountTypes
  <2>5. CASE TxRetireOne
    <3>1. /\ retiring' = retiring - 1 /\ inflight' = inflight - 1 /\ retiring > 0
          /\ UNCHANGED <<sched, decs>> /\ kicks' = kicks + 1
      BY <2>5 DEF TxRetireOne, Kick
    <3>2. inflight' = Flying' + err' + decs' + retiring' /\ inflight' \in Nat /\ retiring' \in Nat
      <4> HIDE DEF err
      <4>1. err' = err
        BY <3>1 DEF err
      <4> QED
        BY <3>1, <4>1, <2>1, <2>2, <2>a
    <3> QED
      BY <3>1, <3>2, <2>1, <2>2, <2>a, <1>1, <1>2 DEF Accounts, CountTypes
  <2> QED
    BY <2>3, <2>4, <2>5
<1>7. sched'.pc \notin {"take", "ring"} \/ sched' = sched
  BY <1>2, <1>3
<1> QED
  BY <1>1, <1>2, <1>4, <1>5, <1>6, <1>7, StepInv

\* The peer gives back credits it holds: the clamp never takes effect.
LEMMA PeerCreditInv ==
  ASSUME Inv, rail' = rail, NEW n \in 1..CreditMax, AddRemoteRxCredits(n)
  PROVE  Inv'
<1> USE RailSame
<1>1. /\ UNCHANGED <<queues, ring, pst, canceled, counted, raw, closed, q, hwdone, running, wire>>
      /\ UNCHANGED <<free, inflight, decs, retiring>> /\ UNCHANGED SchedVars
  BY DEF AddRemoteRxCredits, rawvars, hwvars, SchedVars
<1>2. SchedTypes' /\ SchedOK'
  BY <1>1, SchedSame
<1>3. Accounts' /\ CountTypes'
  <2>0. rail \in Rails /\ CreditMax \in Nat
    BY MsgFacts DEF Inv, TypeOK
  <2>1. /\ Flying' = Flying /\ Staged' = Staged /\ StagedData' = StagedData
        /\ ChargedInHand' = ChargedInHand /\ ChargedInHand \in Nat
    BY <1>1, <2>0, CountsKept
  <2>2. Accounts /\ CountTypes
    BY AccountForm DEF Inv, TypeOK
  <2>3. /\ n <= held /\ kicks' = kicks + 1 /\ held' = held - n
        /\ credits' = Lesser(credits + n, CreditMax) /\ CreditMax > 0
    BY DEF AddRemoteRxCredits, Kick
  <2>4. credits' = credits + n
    BY <2>0, <2>1, <2>2, <2>3 DEF Lesser, Accounts, CountTypes
  <2> QED
    BY <2>0, <2>1, <2>2, <2>3, <2>4, <1>1 DEF Accounts, CountTypes, SchedVars
<1>4. /\ closed \in BOOLEAN /\ q \in QStates /\ hwdone \in 0..Len(ring) /\ running \in BOOLEAN
      /\ wire \in Msg \cup {NoMsg}
  BY DEF Inv, TypeOK, RingTypes
<1> QED
  BY <1>1, <1>2, <1>3, <1>4, StepInv DEF SchedVars

\* The NHI, the barrier and the reopening of the path.
LEMMA QuietQuiesceInv ==
  ASSUME Inv, rail' = rail,
         \/ HwConsume \/ QuiesceClose \/ QuiesceDrained \/ QuiesceBarrierStop
         \/ QuiesceBarrier \/ QuarantineLift
  PROVE  Inv'
<1> USE RailSame
<1>1. /\ UNCHANGED <<queues, ring, pst, canceled, counted, raw>>
      /\ UNCHANGED AccountVars /\ UNCHANGED SchedVars
  BY DEF HwConsume, QuiesceClose, QuiesceDrained, QuiesceBarrierStop, QuiesceBarrier,
         QuarantineLift, rawvars, hwvars, SchedVars, AccountVars, cvars, svars
<1>2. /\ closed \in BOOLEAN /\ q \in QStates /\ hwdone \in 0..Len(ring) /\ running \in BOOLEAN
      /\ wire \in Msg \cup {NoMsg} /\ kicks \in Nat /\ Len(ring) \in Nat
  BY DEF Inv, TypeOK, RingTypes, CountTypes
<1>3. closed' \in BOOLEAN /\ q' \in QStates /\ running' \in BOOLEAN /\ wire' \in Msg \cup {NoMsg}
  BY <1>2 DEF HwConsume, QuiesceClose, QuiesceDrained, QuiesceBarrierStop, QuiesceBarrier,
         QuarantineLift, hwvars, QStates
<1>4. hwdone' \in 0..Len(ring) /\ kicks' \in Nat
  BY <1>2 DEF HwConsume, QuiesceClose, QuiesceDrained, QuiesceBarrierStop, QuiesceBarrier,
         QuarantineLift, hwvars, svars, Kick
<1>5. SchedTypes' /\ SchedOK'
  BY <1>1, SchedSame
<1>6. Accounts' /\ CountTypes'
  BY <1>1, <1>4, AccountsKept DEF SchedVars
<1> QED
  BY <1>1, <1>2, <1>3, <1>4, <1>5, <1>6, StepInv DEF SchedVars

-----------------------------------------------------------------------------
(* Posting.                                                                *)

\* Where two elements of a concatenation come from.
LEMMA BeforeConcat ==
  ASSUME NEW S, NEW s \in Seq(S), NEW t \in Seq(S), NEW x, NEW y
  PROVE  Before(s \o t, x, y) <=> \/ Before(s, x, y) \/ Before(t, x, y)
                                  \/ x \in InSeq(s) /\ y \in InSeq(t)
<1>1. /\ s \o t \in Seq(S) /\ Len(s \o t) = Len(s) + Len(t) /\ Len(s) \in Nat /\ Len(t) \in Nat
      /\ \A i \in 1..(Len(s) + Len(t)) :
           (s \o t)[i] = IF i <= Len(s) THEN s[i] ELSE t[i - Len(s)]
  OBVIOUS
<1>2. \A j \in 1..Len(t) : /\ j + Len(s) \in 1..(Len(s) + Len(t))
                           /\ (s \o t)[j + Len(s)] = t[j] /\ j + Len(s) > Len(s)
  BY <1>1
<1>3. \A i \in 1..Len(s) : i \in 1..(Len(s) + Len(t)) /\ (s \o t)[i] = s[i]
  BY <1>1
<1>4. ASSUME Before(s \o t, x, y)
      PROVE  Before(s, x, y) \/ Before(t, x, y) \/ (x \in InSeq(s) /\ y \in InSeq(t))
  <2> PICK i \in 1..(Len(s) + Len(t)), j \in 1..(Len(s) + Len(t)) :
             i < j /\ (s \o t)[i] = x /\ (s \o t)[j] = y
    BY <1>4, <1>1 DEF Before, Indices
  <2>1. CASE i <= Len(s) /\ j <= Len(s)
    BY <2>1, <1>1 DEF Before, Indices
  <2>2. CASE i <= Len(s) /\ ~(j <= Len(s))
    BY <2>2, <1>1 DEF InSeq, Indices
  <2>3. CASE ~(i <= Len(s))
    <3>1. /\ i - Len(s) \in 1..Len(t) /\ j - Len(s) \in 1..Len(t) /\ i - Len(s) < j - Len(s)
          /\ t[i - Len(s)] = x /\ t[j - Len(s)] = y
      BY <2>3, <1>1
    <3> QED
      BY <3>1 DEF Before, Indices
  <2> QED
    BY <2>1, <2>2, <2>3
<1>5. ASSUME Before(s, x, y)
      PROVE  Before(s \o t, x, y)
  BY <1>5, <1>1, <1>3 DEF Before, Indices
<1>6. ASSUME Before(t, x, y)
      PROVE  Before(s \o t, x, y)
  <2> PICK i \in 1..Len(t), j \in 1..Len(t) : i < j /\ t[i] = x /\ t[j] = y
    BY <1>6 DEF Before, Indices
  <2>1. i + Len(s) < j + Len(s)
    BY <1>1
  <2> QED
    BY <2>1, <1>1, <1>2 DEF Before, Indices
<1>7. ASSUME x \in InSeq(s), y \in InSeq(t)
      PROVE  Before(s \o t, x, y)
  <2> PICK i \in 1..Len(s) : s[i] = x
    BY <1>7 DEF InSeq, Indices
  <2> PICK j \in 1..Len(t) : t[j] = y
    BY <1>7 DEF InSeq, Indices
  <2>1. i < j + Len(s)
    BY <1>1
  <2> QED
    BY <2>1, <1>1, <1>2, <1>3 DEF Before, Indices
<1> QED
  BY <1>4, <1>5, <1>6, <1>7

\* Packets that were idle join the data queue.
LEMMA AcceptFacts ==
  ASSUME Inv, rail' = rail, NEW s \in Seq(Packet), Distinct(s),
         \A p \in InSeq(s) : pst[p] = "idle" /\ ~IsControl(p),
         Accept(s), ctlq' = ctlq, ring' = ring
  PROVE  /\ dataq' \in Seq(Packet) /\ order' \in Seq(Packet) /\ group' \in [Packet -> Nat]
         /\ pst' \in [Packet -> PStates] /\ Len(dataq') = Len(dataq) + Len(s)
         /\ \A p \in Packet : pst'[p] = IF p \in InSeq(s) THEN "queued" ELSE pst[p]
         /\ QueuesOK' /\ RingOK' /\ OrderOK' /\ InOrder'
<1> USE RailSame
<1>1. /\ dataq \in Seq(Packet) /\ order \in Seq(Packet) /\ group \in [Packet -> Nat]
      /\ pst \in [Packet -> PStates] /\ Len(s) \in Nat
  BY DEF Inv, TypeOK, QueueTypes, PacketTypes
<1>2. /\ dataq' = dataq \o s /\ order' = order \o s
      /\ \A p \in Packet : pst'[p] = IF p \in InSeq(s) THEN "queued" ELSE pst[p]
      /\ pst' \in [Packet -> PStates] /\ group' \in [Packet -> Nat]
  <2>1. pst' \in [Packet -> PStates]
    BY <1>1 DEF Accept, PStates
  <2>2. group' \in [Packet -> Nat]
    BY <1>1 DEF Accept
  <2> QED
    BY <2>1, <2>2 DEF Accept
<1>3. /\ QueuesOK /\ RingOK /\ OrderOK /\ InOrder
  BY DEF Inv
<1>4. InSeq(s) \subseteq Packet /\ InSeq(s) \cap InSeq(dataq) = {} /\ InSeq(s) \cap InSeq(order) = {}
  BY <1>1, <1>3, SmallFacts DEF QueuesOK, OrderOK
<1>5. /\ dataq' \in Seq(Packet) /\ Len(dataq') = Len(dataq) + Len(s)
      /\ InSeq(dataq') = InSeq(dataq) \cup InSeq(s) /\ Distinct(dataq')
  BY <1>1, <1>2, <1>3, <1>4, ConcatFacts DEF QueuesOK
<1>6. /\ order' \in Seq(Packet) /\ InSeq(order') = InSeq(order) \cup InSeq(s) /\ Distinct(order')
  BY <1>1, <1>2, <1>3, <1>4, ConcatFacts DEF OrderOK
<1>7. QueuesOK'
  BY <1>2, <1>3, <1>4, <1>5 DEF QueuesOK
<1>8. RingOK'
  <2> \A p \in Packet : pst'[p] = "hw" <=> pst[p] = "hw"
    BY <1>2
  <2> QED
    BY <1>3, RingKept
<1>9. OrderOK'
  BY <1>2, <1>3, <1>4, <1>6 DEF OrderOK
<1>10. InOrder'
  <2> SUFFICES ASSUME NEW x \in Packet, NEW y \in Packet, ~IsControl(x), ~IsControl(y),
                      (Ahead(x, y))'
               PROVE  Before(order', x, y)
    BY DEF InOrder, Before
  <2>1. /\ Before(dataq', x, y) <=> \/ Before(dataq, x, y) \/ Before(s, x, y)
                                    \/ x \in InSeq(dataq) /\ y \in InSeq(s)
        /\ Before(order', x, y) <=> \/ Before(order, x, y) \/ Before(s, x, y)
                                    \/ x \in InSeq(order) /\ y \in InSeq(s)
    BY <1>1, <1>2, BeforeConcat
  <2>2. \/ Before(ring, x, y) \/ Before(dataq', x, y)
        \/ pst'[x] = "hw" /\ pst'[y] \in {"hand", "attached", "queued"}
        \/ pst'[x] \in {"hand", "attached"} /\ pst'[y] = "queued"
    BY DEF Ahead, Before
  <2>3. Ahead(x, y) => Before(order, x, y)
    BY <1>3 DEF InOrder
  <2>4. x \in InSeq(dataq) \/ pst[x] \in {"hw", "hand", "attached"} => x \in InSeq(order)
    BY <1>3 DEF OrderOK, QueuesOK
  <2>5. CASE Before(ring, x, y) \/ Before(dataq, x, y)
    BY <2>1, <2>3, <2>5 DEF Ahead
  <2>6. CASE Before(s, x, y) \/ (x \in InSeq(dataq) /\ y \in InSeq(s))
    BY <2>1, <2>4, <2>6
  <2>7. CASE \/ pst'[x] = "hw" /\ pst'[y] \in {"hand", "attached", "queued"}
             \/ pst'[x] \in {"hand", "attached"} /\ pst'[y] = "queued"
    <3>1. pst[x] = pst'[x]
      BY <2>7, <1>2
    <3>2. CASE y \in InSeq(s)
      BY <2>1, <2>4, <2>7, <3>1, <3>2
    <3>3. CASE y \notin InSeq(s)
      BY <2>1, <2>3, <2>7, <3>1, <3>3, <1>2 DEF Ahead
    <3> QED
      BY <3>2, <3>3
  <2> QED
    BY <2>1, <2>2, <2>5, <2>6, <2>7
<1> QED
  BY <1>2, <1>5, <1>6, <1>7, <1>8, <1>9, <1>10

\* The reservations of the other messages are left alone.
LEMMA HoldsMoved ==
  ASSUME Inv, rail' = rail, NEW m \in Msg, holds' \in [Msg -> Nat],
         \A n \in Msg \ {m} : holds'[n] = holds[n],
         \A p \in Packet : p[1] # m => pst'[p] = pst[p],
         holds'[m] <= Len(Shape[m]), Mode[m] = "reserved" => holds'[m] \in {0, Len(Shape[m])},
         \A i \in 1..Len(Shape[m]) : i > Len(Shape[m]) - holds'[m] => pst'[<<m, i>>] = "idle"
  PROVE  HoldsOK'
<1> USE RailSame
<1>1. \A n \in Msg : \A i \in 1..Len(Shape[n]) : <<n, i>> \in Packet /\ <<n, i>>[1] = n
  BY PacketFacts DEF Inv, TypeOK
<1>2. HoldsOK
  BY DEF Inv
<1>3. ASSUME NEW n \in Msg
      PROVE  /\ holds'[n] <= Len(Shape[n])
             /\ Mode[n] = "reserved" => holds'[n] \in {0, Len(Shape[n])}
             /\ \A i \in Indices(Shape[n]) : i > Len(Shape[n]) - holds'[n] => pst'[<<n, i>>] = "idle"
  <2>1. CASE n = m
    BY <2>1 DEF Indices
  <2>2. CASE n # m
    BY <2>2, <1>1, <1>2 DEF HoldsOK, Indices
  <2> QED
    BY <2>1, <2>2
<1> QED
  BY <1>3 DEF HoldsOK

\* ... and what else such a step has to show.
LEMMA AcceptInv ==
  ASSUME Inv, rail' = rail, NEW s \in Seq(Packet), Distinct(s),
         \A p \in InSeq(s) : pst[p] = "idle" /\ ~IsControl(p), Accept(s),
         UNCHANGED <<closed, ctlq, canceled, rawvars, free, inflight, cvars, scheduling, sched,
                     decs, retiring, hwvars, q>>,
         kicks' \in Nat, reserved' \in Nat, holds' \in [Msg -> Nat], posts' \in [Msg -> Nat],
         HoldsOK',
         \/ Len(dataq) + Len(s) + reserved' <= QueueLimit
         \/ Len(s) + reserved' <= reserved
  PROVE  Inv'
<1> USE RailSame
<1>0. /\ UNCHANGED <<closed, ctlq, canceled, raw, counted, free, inflight, credits, held>>
      /\ UNCHANGED <<scheduling, sched, decs, retiring, ring, hwdone, running, wire, q>>
  BY DEF rawvars, cvars, hwvars
<1>1. /\ dataq' \in Seq(Packet) /\ order' \in Seq(Packet) /\ group' \in [Packet -> Nat]
      /\ pst' \in [Packet -> PStates] /\ Len(dataq') = Len(dataq) + Len(s)
      /\ \A p \in Packet : pst'[p] = IF p \in InSeq(s) THEN "queued" ELSE pst[p]
      /\ QueuesOK' /\ RingOK' /\ OrderOK' /\ InOrder'
  BY <1>0, AcceptFacts
<1>2. rail \in Rails /\ InSeq(s) \subseteq Packet
  BY SmallFacts DEF Inv, TypeOK
<1>3. \A p \in Packet : pst'[p] = pst[p] \/ (pst[p] = "idle" /\ pst'[p] = "queued")
  BY <1>1
<1>4. SchedOK'
  BY <1>0, <1>3, SchedKept DEF Inv
<1>5. Accounts' /\ CountTypes'
  <2>1. /\ Flying' = Flying /\ Staged' = Staged /\ StagedData' = StagedData
        /\ ChargedInHand' = ChargedInHand
    BY <1>2, <1>3, CountsKept DEF Fly
  <2>2. Accounts /\ CountTypes
    BY AccountForm DEF Inv, TypeOK
  <2> QED
    BY <1>0, <2>1, <2>2 DEF Accounts, CountTypes
<1>6. RoomOK'
  <2>1. Len(dataq) \in Nat /\ Len(s) \in Nat /\ reserved \in Nat /\ QueueLimit \in Nat
    BY <1>2, MsgFacts DEF Inv, TypeOK, QueueTypes
  <2>2. RoomOK
    BY DEF Inv
  <2> QED
    BY <1>0, <1>1, <2>1, <2>2 DEF RoomOK
<1>7. TypeOK'
  <2>1. QueueTypes' /\ PacketTypes'
    BY <1>0, <1>1 DEF Inv, TypeOK, QueueTypes, PacketTypes
  <2>2. SchedTypes' /\ RingTypes'
    BY <1>0 DEF Inv, TypeOK, SchedTypes, RingTypes, NoPacket
  <2> QED
    BY <1>0, <1>5, <2>1, <2>2 DEF Inv, TypeOK
<1> QED
  BY <1>1, <1>4, <1>5, <1>6, <1>7, AccountForm DEF Inv

\* The frames of a message, in order.
LEMMA FramesFacts ==
  ASSUME rail \in Rails, NEW m \in Msg
  PROVE  /\ Frames(m) \in Seq(Packet) /\ Len(Frames(m)) = Len(Shape[m]) /\ Distinct(Frames(m))
         /\ InSeq(Frames(m)) = PacketsOf(m)
         /\ \A p \in PacketsOf(m) : p[1] = m /\ (IsControl(p) <=> Mode[m] = "control")
<1> DEFINE n == Len(Shape[m])
<1>1. n \in Nat /\ \A i \in 1..n : <<m, i>> \in Packet /\ (IsControl(<<m, i>>) <=> Mode[m] = "control")
  BY MsgFacts, PacketFacts
<1>2. Frames(m) = [i \in 1..n |-> <<m, i>>]
  BY DEF Frames
<1> HIDE DEF n
<1>3. /\ Frames(m) \in Seq(Packet) /\ Len(Frames(m)) = n /\ \A i \in 1..n : Frames(m)[i] = <<m, i>>
  BY <1>1, <1>2
<1>4. Distinct(Frames(m))
  BY <1>3 DEF Distinct, Indices
<1>5. InSeq(Frames(m)) = PacketsOf(m)
  <2>1. PacketsOf(m) = {m} \X (1..n)
    BY DEF PacketsOf, n
  <2>2. InSeq(Frames(m)) = {Frames(m)[i] : i \in 1..n}
    BY <1>3 DEF InSeq, Indices
  <2>3. ASSUME NEW x \in {m} \X (1..n)
        PROVE  x \in InSeq(Frames(m))
    <3>1. x[2] \in 1..n /\ x = <<m, x[2]>>
      OBVIOUS
    <3> QED
      BY <3>1, <2>2, <1>3
  <2>4. ASSUME NEW x \in InSeq(Frames(m))
        PROVE  x \in {m} \X (1..n)
    <3> PICK i \in 1..n : x = Frames(m)[i]
      BY <2>2
    <3>1. x = <<m, i>>
      BY <1>3
    <3> QED
      BY <3>1
  <2> QED
    BY <2>1, <2>3, <2>4
<1>6. \A p \in PacketsOf(m) : p[1] = m /\ (IsControl(p) <=> Mode[m] = "control")
  BY <1>1 DEF PacketsOf, n
<1> QED
  BY <1>3, <1>4, <1>5, <1>6 DEF n

\* A message without a reservation, or the whole of a reserved one.
LEMMA EnqueueInv ==
  ASSUME Inv, rail' = rail, NEW m \in Msg,
         EnqueueData(m) \/ EnqueueDataList(m) \/ EnqueueReservedDataList(m)
  PROVE  Inv'
<1> USE RailSame
<1> DEFINE s == Frames(m)
<1>1. rail \in Rails /\ Len(Shape[m]) \in Nat /\ QueueLimit \in Nat
  BY MsgFacts DEF Inv, TypeOK
<1>2. /\ s \in Seq(Packet) /\ Len(s) = Len(Shape[m]) /\ Distinct(s) /\ InSeq(s) = PacketsOf(m)
      /\ \A p \in PacketsOf(m) : p[1] = m /\ (IsControl(p) <=> Mode[m] = "control")
  BY <1>1, FramesFacts
<1>3. /\ reserved \in Nat /\ holds \in [Msg -> Nat] /\ posts \in [Msg -> Nat] /\ kicks \in Nat
      /\ Len(dataq) \in Nat
  BY DEF Inv, TypeOK, QueueTypes, CountTypes
<1>4. /\ Accept(s)
      /\ UNCHANGED <<closed, ctlq, canceled, rawvars, free, inflight, cvars, scheduling, sched,
                     decs, retiring, hwvars, q>>
      /\ kicks' \in Nat /\ Mode[m] # "control"
  BY <1>3 DEF EnqueueData, EnqueueDataList, EnqueueReservedDataList, Kick
<1>5. \A p \in PacketsOf(m) : pst[p] = "idle" /\ ~IsControl(p)
  <2>1. CASE EnqueueData(m) \/ EnqueueDataList(m)
    BY <2>1, <1>2, <1>4 DEF EnqueueData, EnqueueDataList, Fresh
  <2>2. CASE EnqueueReservedDataList(m)
    <3>0. Mode[m] = "reserved" /\ holds[m] > 0
      BY <2>2 DEF EnqueueReservedDataList
    <3>1. holds[m] \in Nat /\ holds[m] = Len(Shape[m])
      BY <3>0, <1>3 DEF Inv, HoldsOK
    <3>2. \A i \in 1..Len(Shape[m]) : pst[<<m, i>>] = "idle"
      BY <3>1, <1>1 DEF Inv, HoldsOK, Indices
    <3> QED
      BY <3>2, <1>2, <1>4 DEF PacketsOf
  <2> QED
    BY <2>1, <2>2
<1>6. /\ reserved' \in Nat
      /\ \/ Len(dataq) + Len(s) + reserved' <= QueueLimit
         \/ Len(s) + reserved' <= reserved
  <2>1. CASE EnqueueData(m)
    <3>1. Len(s) = 1
      BY <2>1, <1>1, <1>2, MsgFacts DEF EnqueueData
    <3>2. \/ reserved > 0 /\ reserved' = reserved - 1
          \/ reserved = 0 /\ Len(dataq) < QueueLimit /\ reserved' = reserved
      BY <2>1 DEF EnqueueData, TakesSlot
    <3> QED
      BY <3>1, <3>2, <1>1, <1>3
  <2>2. CASE EnqueueDataList(m)
    <3>1. reserved' = reserved /\ Len(dataq) + reserved <= QueueLimit - Len(s)
      BY <2>2, <1>2 DEF EnqueueDataList, RoomFor
    <3>2. Len(s) \in Nat
      BY <1>1, <1>2
    <3> HIDE DEF s
    <3> QED
      BY <3>1, <3>2, <1>1, <1>3
  <2>3. CASE EnqueueReservedDataList(m)
    <3>1. reserved >= Len(s) /\ reserved' = reserved - Len(s) /\ Len(s) \in Nat
      BY <2>3, <1>1, <1>2 DEF EnqueueReservedDataList
    <3> HIDE DEF s
    <3> QED
      BY <3>1, <1>3
  <2> QED
    BY <2>1, <2>2, <2>3
<1>7. /\ holds' \in [Msg -> Nat] /\ posts' \in [Msg -> Nat] /\ holds'[m] = 0
      /\ \A n \in Msg \ {m} : holds'[n] = holds[n]
  <2>1. CASE EnqueueData(m) \/ EnqueueDataList(m)
    BY <2>1, <1>3 DEF EnqueueData, EnqueueDataList, Fresh, Counted
  <2>2. CASE EnqueueReservedDataList(m)
    BY <2>2, <1>3 DEF EnqueueReservedDataList
  <2> QED
    BY <2>1, <2>2
<1>8. HoldsOK'
  <2>1. \A p \in Packet : p[1] # m => pst'[p] = pst[p]
    BY <1>2, <1>4 DEF Accept
  <2>2. /\ holds'[m] <= Len(Shape[m])
        /\ \A i \in 1..Len(Shape[m]) : i > Len(Shape[m]) - holds'[m] => pst'[<<m, i>>] = "idle"
    BY <1>1, <1>7
  <2> QED
    BY <1>7, <2>1, <2>2, HoldsMoved
<1> HIDE DEF s
<1> QED
  BY <1>2, <1>4, <1>5, <1>6, <1>7, <1>8, AcceptInv

\* A frame of a reservation that is enqueued frame by frame.
LEMMA EnqueueOneInv ==
  ASSUME Inv, rail' = rail, NEW m \in Msg, EnqueueReservedOne(m)
  PROVE  Inv'
<1> USE RailSame
<1> DEFINE k == Len(Shape[m]) - holds[m] + 1
           p == <<m, k>>
           s == <<p>>
<1>1. rail \in Rails /\ Len(Shape[m]) \in Nat /\ QueueLimit \in Nat
  BY MsgFacts DEF Inv, TypeOK
<1>2. /\ reserved \in Nat /\ holds \in [Msg -> Nat] /\ posts \in [Msg -> Nat] /\ kicks \in Nat
      /\ Len(dataq) \in Nat /\ holds[m] \in Nat
  BY DEF Inv, TypeOK, QueueTypes, CountTypes
<1>3. /\ Mode[m] # "control" /\ holds[m] > 0 /\ Accept(s)
      /\ UNCHANGED <<closed, ctlq, canceled, rawvars, free, inflight, cvars, scheduling, sched,
                     decs, retiring, hwvars, q>>
      /\ UNCHANGED posts /\ holds' = [holds EXCEPT ![m] = holds[m] - 1]
      /\ TakesSlot
  BY DEF EnqueueReservedOne
<1>4. kicks' \in Nat
  BY <1>2 DEF EnqueueReservedOne, Kick
<1>5. /\ holds[m] <= Len(Shape[m])
      /\ \A i \in 1..Len(Shape[m]) : i > Len(Shape[m]) - holds[m] => pst[<<m, i>>] = "idle"
  BY DEF Inv, HoldsOK, Indices
<1>6. k \in 1..Len(Shape[m]) /\ k > Len(Shape[m]) - holds[m]
  BY <1>1, <1>2, <1>3, <1>5
<1>7. p \in Packet /\ pst[p] = "idle" /\ ~IsControl(p) /\ p[1] = m
  BY <1>1, <1>3, <1>5, <1>6, PacketFacts
<1>8. s \in Seq(Packet) /\ Len(s) = 1 /\ Distinct(s) /\ InSeq(s) = {p}
  BY <1>7, SmallFacts
<1>9. /\ reserved' \in Nat
      /\ \/ Len(dataq) + Len(s) + reserved' <= QueueLimit
         \/ Len(s) + reserved' <= reserved
  <2>1. \/ reserved > 0 /\ reserved' = reserved - 1
        \/ reserved = 0 /\ Len(dataq) < QueueLimit /\ reserved' = reserved
    BY <1>3 DEF TakesSlot
  <2> QED
    BY <2>1, <1>1, <1>2, <1>8
<1>10. /\ holds' \in [Msg -> Nat] /\ posts' \in [Msg -> Nat] /\ holds'[m] = holds[m] - 1
       /\ \A n \in Msg \ {m} : holds'[n] = holds[n]
  BY <1>2, <1>3
<1>11. \A x \in Packet : x # p => pst'[x] = pst[x]
  BY <1>3, <1>8 DEF Accept
<1>12. HoldsOK'
  <2>1. \A x \in Packet : x[1] # m => pst'[x] = pst[x]
    BY <1>7, <1>11
  <2>2. holds'[m] <= Len(Shape[m])
    BY <1>1, <1>2, <1>3, <1>5, <1>10
  <2>3. ASSUME NEW i \in 1..Len(Shape[m]), i > Len(Shape[m]) - holds'[m]
        PROVE  pst'[<<m, i>>] = "idle"
    <3>1. i # k /\ i > Len(Shape[m]) - holds[m]
      BY <2>3, <1>1, <1>2, <1>3, <1>10
    <3>2. <<m, i>> \in Packet /\ <<m, i>> # p
      BY <3>1, <1>1, PacketFacts
    <3> QED
      BY <3>1, <3>2, <1>5, <1>11
  <2> QED
    BY <1>3, <1>10, <2>1, <2>2, <2>3, HoldsMoved DEF EnqueueReservedOne
<1> HIDE DEF k, p, s
<1> QED
  BY <1>3, <1>4, <1>7, <1>8, <1>9, <1>10, <1>12, AcceptInv

\* A control packet joins the control queue.
LEMMA EnqueueControlInv ==
  ASSUME Inv, rail' = rail, NEW m \in Msg, EnqueueControl(m)
  PROVE  Inv'
<1> USE RailSame
<1> DEFINE p == <<m, 1>>
<1>0. /\ UNCHANGED <<closed, dataq, reserved, holds, group, order, canceled, raw, counted, free, inflight>>
      /\ UNCHANGED <<credits, held, scheduling, sched, decs, retiring, ring, hwdone, running, wire, q>>
      /\ Mode[m] = "control" /\ holds[m] = 0 /\ \A x \in PacketsOf(m) : pst[x] = "idle"
      /\ ctlq' = Append(ctlq, p) /\ pst' = [pst EXCEPT ![p] = "queued"]
  BY DEF EnqueueControl, rawvars, cvars, hwvars, Fresh
<1>1. rail \in Rails /\ Len(Shape[m]) = 1 /\ p \in Packet /\ IsControl(p) /\ p \in PacketsOf(m) /\ p[1] = m
  <2>1. rail \in Rails
    BY DEF Inv, TypeOK
  <2>2. Len(Shape[m]) = 1
    BY <1>0, <2>1, MsgFacts
  <2> QED
    BY <1>0, <2>1, <2>2, PacketFacts DEF PacketsOf
<1>2. /\ ctlq \in Seq(Packet) /\ pst \in [Packet -> PStates] /\ kicks \in Nat
      /\ posts \in [Msg -> Nat] /\ holds \in [Msg -> Nat]
  BY DEF Inv, TypeOK, QueueTypes, PacketTypes, CountTypes
<1>3. /\ pst' \in [Packet -> PStates] /\ pst[p] = "idle" /\ pst'[p] = "queued"
      /\ \A x \in Packet \ {p} : pst'[x] = pst[x]
  BY <1>0, <1>1, <1>2 DEF PStates
<1>4. kicks' \in Nat /\ posts' \in [Msg -> Nat]
  BY <1>2 DEF EnqueueControl, Kick, Counted
<1> HIDE DEF p
<1>5. /\ QueuesOK /\ RingOK /\ OrderOK /\ InOrder /\ SchedOK
  BY DEF Inv
<1>6. /\ ctlq' \in Seq(Packet) /\ InSeq(ctlq') = InSeq(ctlq) \cup {p} /\ Distinct(ctlq')
  <2>1. p \notin InSeq(ctlq) /\ Distinct(ctlq)
    BY <1>1, <1>3, <1>5 DEF QueuesOK
  <2>2. ctlq \in Seq(Packet) /\ p \in Packet /\ ctlq' = Append(ctlq, p)
    BY <1>0, <1>1, <1>2
  <2>3. ctlq \in Seq(Packet) /\ ctlq' \in Seq(Packet) /\ AtTail(ctlq, p, ctlq')
    BY ONLY <2>2 DEF AtTail
  <2> QED
    BY ONLY <2>1, <2>3, AppendFacts
<1>7. QueuesOK'
  BY <1>0, <1>1, <1>3, <1>5, <1>6 DEF QueuesOK
<1>8. RingOK' /\ SchedOK'
  BY <1>0, <1>3, <1>5, RingKept, SchedKept
<1>9. OrderOK'
  BY <1>0, <1>1, <1>3, <1>5 DEF OrderOK
<1>10. InOrder'
  <2>1. \A x, y \in Packet : ~IsControl(x) /\ ~IsControl(y) /\ (Ahead(x, y))' => Ahead(x, y)
    BY <1>0, <1>1, <1>3 DEF Ahead, Before
  <2> QED
    BY <1>0, <1>5, <1>7, <1>8, <2>1, InOrderKept
<1>11. HoldsOK'
  <2>1. \A x \in Packet : x[1] # m => pst'[x] = pst[x]
    BY <1>1, <1>3
  <2> QED
    BY <1>0, <1>1, <1>2, <2>1, HoldsMoved
<1>12. Accounts' /\ CountTypes'
  <2>1. /\ Flying' = Flying /\ Staged' = Staged /\ StagedData' = StagedData
        /\ ChargedInHand' = ChargedInHand
    BY <1>1, <1>3, CountsKept DEF Fly
  <2>2. Accounts /\ CountTypes
    BY AccountForm DEF Inv, TypeOK
  <2> QED
    BY <1>0, <1>4, <2>1, <2>2 DEF Accounts, CountTypes
<1>13. RoomOK'
  BY <1>0 DEF Inv, RoomOK
<1>14. TypeOK'
  <2>1. QueueTypes' /\ PacketTypes'
    BY <1>0, <1>3, <1>4, <1>6 DEF Inv, TypeOK, QueueTypes, PacketTypes
  <2>2. SchedTypes' /\ RingTypes'
    BY <1>0 DEF Inv, TypeOK, SchedTypes, RingTypes, NoPacket
  <2> QED
    BY <1>0, <1>12, <2>1, <2>2 DEF Inv, TypeOK
<1> QED
  BY <1>5, <1>7, <1>8, <1>9, <1>10, <1>11, <1>12, <1>13, <1>14, AccountForm DEF Inv

-----------------------------------------------------------------------------
(* Packets that move.                                                      *)

Err == Bit(sched.pc = "errdec")

\* The accounts after one packet has moved, when the counters follow it.
LEMMA AccountsMoved ==
  ASSUME Inv, rail' = rail, NEW p \in Packet, \A x \in Packet \ {p} : pst'[x] = pst[x],
         inflight' \in Int, {decs', retiring', kicks', held', free', credits'} \subseteq Nat,
         inflight' - Err' - decs' - retiring' - Bit(pst'[p] \in Fly)
           = inflight - Err - decs - retiring - Bit(pst[p] \in Fly),
         free' = IF Zcopy(p) THEN free
                 ELSE free + Bit(pst[p] \in Stg) - Bit(pst'[p] \in Stg),
         IF Charged(p) THEN credits' + held' + Bit(pst'[p] \in Hnd)
                              = credits + held + Bit(pst[p] \in Hnd)
         ELSE credits' = credits /\ held' = held,
         Zcopy(p) \/ IsControl(p) \/ pst[p] \in Stg \/ pst'[p] \notin Stg
           \/ FrameCount - inflight > ControlFrameReserve
  PROVE  Accounts' /\ CountTypes'
<1> USE RailSame
<1>1. rail \in Rails /\ CountTypes /\ Accounts
  BY AccountForm DEF Inv, TypeOK
<1>2. /\ FrameCount \in Nat /\ CreditMax \in Nat /\ ControlFrameReserve \in Nat
      /\ free \in Nat /\ credits \in Nat /\ inflight \in Nat /\ held \in Nat
      /\ decs \in Nat /\ retiring \in Nat /\ (CreditMax = 0 => credits = 0)
  BY <1>1, MsgFacts, ReserveFacts DEF CountTypes
<1>3. /\ Flying' = Flying + Bit(pst'[p] \in Fly) - Bit(pst[p] \in Fly)
      /\ Staged' = IF Zcopy(p) THEN Staged
                   ELSE Staged + Bit(pst'[p] \in Stg) - Bit(pst[p] \in Stg)
      /\ StagedData' = IF Zcopy(p) \/ IsControl(p) THEN StagedData
                       ELSE StagedData + Bit(pst'[p] \in Stg) - Bit(pst[p] \in Stg)
      /\ ChargedInHand' = IF ~Charged(p) THEN ChargedInHand
                          ELSE ChargedInHand + Bit(pst'[p] \in Hnd) - Bit(pst[p] \in Hnd)
      /\ Flying \in Nat /\ Staged \in Nat /\ StagedData \in Nat /\ ChargedInHand \in Nat
      /\ Flying' \in Nat /\ Staged' \in Nat /\ StagedData' \in Nat /\ ChargedInHand' \in Nat
  BY <1>1, CountsMoved
<1>4. StagedData <= Flying
  BY <1>1, CountBounds
<1>5. /\ inflight = Flying + Err + decs + retiring /\ Err \in Nat /\ Err' \in Nat
      /\ free + Staged = FrameCount /\ StagedData <= FrameCount - ControlFrameReserve
      /\ CreditMax > 0 => credits + held + ChargedInHand = CreditMax
  BY <1>1 DEF Accounts, Err, Bit
<1>6. inflight' = Flying' + Err' + decs' + retiring' /\ inflight' \in Nat
  <2> PICK a, b, e, d, r : /\ a = Bit(pst'[p] \in Fly) /\ b = Bit(pst[p] \in Fly)
                           /\ e = Err' /\ d = decs' /\ r = retiring'
    OBVIOUS
  <2> PICK i, j, f, g : i = inflight /\ j = inflight' /\ f = Flying /\ g = Flying'
    OBVIOUS
  <2> PICK c, k, l : c = Err /\ k = decs /\ l = retiring
    OBVIOUS
  <2>1. /\ a \in Int /\ b \in Int /\ e \in Nat /\ d \in Nat /\ r \in Nat /\ i \in Int /\ j \in Int
        /\ f \in Int /\ g \in Nat /\ c \in Int /\ k \in Int /\ l \in Int
    BY <1>2, <1>3, <1>5 DEF Bit
  <2>2. j - e - d - r - a = i - c - k - l - b /\ g = f + a - b /\ i = f + c + k + l
    BY <1>3, <1>5
  <2>3. j = g + e + d + r /\ j \in Nat
    BY ONLY <2>1, <2>2
  <2> QED
    BY <2>3
<1>7. free' + Staged' = FrameCount /\ free' \in 0..FrameCount
  BY <1>2, <1>3, <1>5 DEF Bit
<1>8. StagedData' <= FrameCount - ControlFrameReserve
  <2>1. CASE Zcopy(p) \/ IsControl(p) \/ pst[p] \in Stg \/ pst'[p] \notin Stg
    BY <2>1, <1>2, <1>3, <1>5 DEF Bit
  <2>2. CASE FrameCount - inflight > ControlFrameReserve
    <3>1. StagedData' <= StagedData + 1
      BY <1>3 DEF Bit
    <3>2. StagedData <= inflight
      BY <1>2, <1>3, <1>4, <1>5
    <3> QED
      BY <2>2, <3>1, <3>2, <1>2, <1>3
  <2> QED
    BY <2>1, <2>2
<1>9. /\ CreditMax > 0 => credits' + held' + ChargedInHand' = CreditMax
      /\ credits' \in 0..CreditMax
  <2>1. CASE Charged(p)
    <3> PICK a, b, c, d : /\ a = Bit(pst'[p] \in Hnd) /\ b = Bit(pst[p] \in Hnd)
                          /\ c = credits' /\ d = held'
      OBVIOUS
    <3> PICK f, g, k, l, n : /\ f = ChargedInHand /\ g = ChargedInHand' /\ k = credits /\ l = held
                             /\ n = CreditMax
      OBVIOUS
    <3>1. /\ a \in Int /\ b \in Int /\ c \in Nat /\ d \in Nat /\ f \in Nat /\ g \in Nat
          /\ k \in Nat /\ l \in Nat /\ n \in Nat /\ n > 0
      BY <2>1, <1>2, <1>3 DEF Bit, Charged
    <3>2. c + d + a = k + l + b /\ g = f + a - b /\ k + l + f = n
      BY <2>1, <3>1, <1>3, <1>5
    <3>3. c + d + g = n /\ c \in 0..n
      BY ONLY <3>1, <3>2
    <3> QED
      BY <3>3
  <2>2. CASE ~Charged(p)
    BY <2>2, <1>1, <1>3, <1>5 DEF CountTypes
  <2> QED
    BY <2>1, <2>2
<1>10. Accounts'
  BY <1>6, <1>7, <1>8, <1>9 DEF Accounts, Err, Bit
<1> QED
  BY <1>6, <1>7, <1>9, <1>10 DEF CountTypes

\* The packets of G are released: the ghost order forgets them.
LEMMA ReleaseOrder ==
  ASSUME Inv, rail' = rail, NEW G, order' = Without(order, G),
         \A x \in Packet : pst'[x] = IF x \in G THEN "idle" ELSE pst[x]
  PROVE  /\ order' \in Seq(Packet) /\ OrderOK'
         /\ \A x, y \in Packet : pst'[x] \in OnPath /\ pst'[y] \in OnPath /\ Before(order, x, y)
                                   => Before(order', x, y)
<1> USE RailSame
<1>1. order \in Seq(Packet) /\ OrderOK
  BY DEF Inv, TypeOK, QueueTypes
<1>2. /\ order' \in Seq(Packet) /\ InSeq(order') = InSeq(order) \ G
      /\ Distinct(order) => Distinct(order')
      /\ \A x, y : Before(order', x, y) <=> Before(order, x, y) /\ x \notin G /\ y \notin G
  BY <1>1, WithoutFacts
<1>3. OrderOK'
  BY <1>1, <1>2 DEF OrderOK
<1>4. \A x \in Packet : pst'[x] \in OnPath => x \notin G
  BY DEF OnPath
<1> QED
  BY <1>2, <1>3, <1>4

\* Packets that leave the path let nobody pass another.
LEMMA LeaveInOrder ==
  ASSUME Inv, rail' = rail, QueuesOK', RingOK',
         \A x \in Packet : pst'[x] = pst[x] \/ pst'[x] \in {"idle", "completing", "failing"},
         \A x, y : Before(ring', x, y) => Before(ring, x, y),
         \A x, y : Before(dataq', x, y) => Before(dataq, x, y),
         \A x, y \in Packet : pst'[x] \in OnPath /\ pst'[y] \in OnPath /\ Before(order, x, y)
                                => Before(order', x, y)
  PROVE  InOrder'
<1>1. \A x, y \in Packet : (Ahead(x, y))' => Ahead(x, y)
  <2> TAKE x, y \in Packet
  <2>1. (Ahead(x, y))' = (\/ Before(ring', x, y) \/ Before(dataq', x, y)
                          \/ pst'[x] = "hw" /\ pst'[y] \in {"hand", "attached", "queued"}
                          \/ pst'[x] \in {"hand", "attached"} /\ pst'[y] = "queued")
    BY DEF Ahead, Before, Indices
  <2> QED
    BY <2>1 DEF Ahead
<1> QED
  BY <1>1, InOrderKept DEF Inv

-----------------------------------------------------------------------------
(* The packet in the scheduler's hands.                                    *)

InHands == {"hand", "attached", "failing"}

\* It is in no queue, not in the ring, and the thread holds the snapshot.
LEMMA HandFacts ==
  ASSUME Inv, sched.pc \in DOMAIN InHand, NEW p, p = sched.p
  PROVE  /\ p \in Packet /\ pst[p] = InHand[sched.pc] /\ pst[p] \in InHands
         /\ \A x \in Packet \ {p} : pst[x] \notin InHands
         /\ p \notin InSeq(ring) /\ p \notin InSeq(dataq) /\ p \notin InSeq(ctlq)
         /\ sched.group \in Nat /\ sched.raw \in RawStates /\ scheduling = TRUE
         /\ sched \in [pc : SchedPcs, p : Packet \cup {NoPacket}, group : Nat, raw : RawStates]
<1>1. p \in Packet /\ pst[p] = InHand[sched.pc] /\ \A x \in Packet \ {p} : pst[x] \notin InHands
  BY DEF Inv, SchedOK, InHands
<1>2. pst[p] \in InHands
  BY <1>1 DEF InHand, InHands
<1>3. p \notin InSeq(ring) /\ p \notin InSeq(dataq) /\ p \notin InSeq(ctlq)
  BY <1>1, <1>2 DEF Inv, QueuesOK, RingOK, InHands
<1>4. /\ sched \in [pc : SchedPcs, p : Packet \cup {NoPacket}, group : Nat, raw : RawStates]
      /\ scheduling \in BOOLEAN /\ scheduling
  BY DEF Inv, TypeOK, SchedTypes, SchedOK, InHand
<1>5. sched.group \in Nat /\ sched.raw \in RawStates
  BY <1>4
<1> QED
  BY <1>1, <1>2, <1>3, <1>4, <1>5

\* It moves, or leaves the hands.
LEMMA SchedMoved ==
  ASSUME Inv, rail' = rail, NEW p \in Packet,
         \A x \in Packet \ {p} : pst[x] \notin InHands, \A x \in Packet \ {p} : pst'[x] = pst[x],
         scheduling' <=> sched'.pc # "idle",
         sched'.pc \in DOMAIN InHand => sched'.p = p /\ pst'[p] = InHand[sched'.pc],
         pst'[p] \in InHands => sched'.pc \in DOMAIN InHand
  PROVE  SchedOK'
BY RailSame DEF SchedOK, InHands

\* A loop that goes on or is left.
LEMMA IdleFacts ==
  /\ IdleSched \in [pc : SchedPcs, p : Packet \cup {NoPacket}, group : Nat, raw : RawStates]
  /\ [IdleSched EXCEPT !.pc = "loop"] \in
       [pc : SchedPcs, p : Packet \cup {NoPacket}, group : Nat, raw : RawStates]
  /\ IdleSched.pc = "idle" /\ [IdleSched EXCEPT !.pc = "loop"].pc = "loop"
  /\ NoRaw \in RawStates
<1>1. NoRaw \in RawStates
  BY DEF NoRaw, RawStates
<1> QED
  BY <1>1 DEF IdleSched, SchedPcs

\* The packet becomes visible to cancellation.
LEMMA AttachInv ==
  ASSUME Inv, rail' = rail, ScheduleTxAttach
  PROVE  Inv'
<1> USE RailSame
<1> DEFINE p == sched.p
<1>1. /\ UNCHANGED <<closed, ctlq, dataq, reserved, holds, group, order, posts, canceled, raw, counted>>
      /\ UNCHANGED <<free, inflight, credits, held, scheduling, kicks, decs, retiring>>
      /\ UNCHANGED <<ring, hwdone, running, wire, q>>
      /\ sched.pc = "take" /\ pst' = [pst EXCEPT ![p] = "attached"]
      /\ sched' = [sched EXCEPT !.pc = "ring"]
  BY DEF ScheduleTxAttach, queues, rawvars, cvars, hwvars
<1> HIDE DEF p
<1>2. /\ p \in Packet /\ pst[p] = "hand" /\ \A x \in Packet \ {p} : pst[x] \notin InHands
      /\ scheduling = TRUE /\ rail \in Rails
      /\ sched \in [pc : SchedPcs, p : Packet \cup {NoPacket}, group : Nat, raw : RawStates]
  <2>1. p = sched.p /\ rail \in Rails
    BY DEF p, Inv, TypeOK
  <2>2. sched.pc \in DOMAIN InHand /\ InHand["take"] = "hand" /\ InHand["ring"] = "attached"
    BY <1>1 DEF InHand
  <2> QED
    BY <1>1, <2>1, <2>2, HandFacts
<1>3. /\ sched' \in [pc : SchedPcs, p : Packet \cup {NoPacket}, group : Nat, raw : RawStates]
      /\ sched'.pc = "ring" /\ sched'.p = p
  BY <1>1, <1>2 DEF SchedPcs, p
<1>4. /\ pst' \in [Packet -> PStates] /\ pst'[p] = "attached"
      /\ \A x \in Packet \ {p} : pst'[x] = pst[x]
  BY <1>1, <1>2 DEF Inv, TypeOK, PacketTypes, PStates
<1>5. QueuesOK' /\ RingOK' /\ OrderOK' /\ HoldsOK'
  BY <1>1, <1>2, <1>4, QueuesKept, RingKept, OrderKept, HoldsKept DEF Inv
<1>6. SchedOK'
  BY <1>1, <1>2, <1>3, <1>4, SchedMoved DEF InHand
<1>7. InOrder'
  <2>1. \A x, y \in Packet : ~IsControl(x) /\ ~IsControl(y) /\ (Ahead(x, y))' => Ahead(x, y)
    BY <1>1, <1>2, <1>4 DEF Ahead, Before
  <2> QED
    BY <1>1, <1>5, <2>1, InOrderKept DEF Inv
<1>8. Accounts' /\ CountTypes'
  <2>1. /\ {decs, retiring, kicks, held, free, credits} \subseteq Nat /\ inflight \in Int
    BY DEF Inv, TypeOK, CountTypes
  <2>2. Err' = Err /\ \A A \in {Fly, Stg, Hnd} : pst'[p] \in A /\ pst[p] \in A
    BY <1>1, <1>2, <1>3, <1>4 DEF Err, Fly, Stg, Hnd
  <2>3. /\ Bit(pst'[p] \in Fly) = Bit(pst[p] \in Fly) /\ Bit(pst'[p] \in Stg) = Bit(pst[p] \in Stg)
        /\ Bit(pst'[p] \in Hnd) = Bit(pst[p] \in Hnd) /\ pst[p] \in Stg
    BY <2>2 DEF Bit
  <2>4. free = free + Bit(pst[p] \in Stg) - Bit(pst'[p] \in Stg)
    BY <2>1, <2>2 DEF Bit
  <2> QED
    BY <1>1, <1>2, <1>4, <2>1, <2>2, <2>3, <2>4, AccountsMoved
<1>9. RoomOK'
  BY <1>1, <1>3 DEF Inv, RoomOK, p
<1>10. TypeOK'
  <2>1. QueueTypes' /\ PacketTypes' /\ RingTypes'
    BY <1>1, <1>4 DEF Inv, TypeOK, QueueTypes, PacketTypes, RingTypes
  <2>2. SchedTypes'
    BY <1>1, <1>3 DEF Inv, TypeOK, SchedTypes, NoPacket
  <2> QED
    BY <1>1, <1>8, <2>1, <2>2 DEF Inv, TypeOK
<1> QED
  BY <1>5, <1>6, <1>7, <1>8, <1>9, <1>10, AccountForm DEF Inv

\* The ring takes the packet: it is behind every descriptor of the ring.
LEMMA PostedInv ==
  ASSUME Inv, rail' = rail, ScheduleTxPosted
  PROVE  Inv'
<1> USE RailSame
<1> DEFINE p == sched.p
<1>1. /\ UNCHANGED <<closed, ctlq, dataq, reserved, holds, group, order, posts, canceled, raw, counted>>
      /\ UNCHANGED <<free, inflight, credits, scheduling, kicks, decs, retiring, hwdone, running, q>>
      /\ sched.pc = "ring" /\ pst' = [pst EXCEPT ![p] = "hw"] /\ ring' = Append(ring, p)
      /\ sched' = [IdleSched EXCEPT !.pc = "loop"]
      /\ held' = IF Charged(p) THEN held + 1 ELSE held
  BY DEF ScheduleTxPosted, queues, rawvars
<1>w. wire' = wire \/ wire' = NoMsg \/ wire' = p[1]
  BY DEF ScheduleTxPosted, OwnerOf
<1> HIDE DEF p
<1>2. /\ p \in Packet /\ pst[p] = "attached" /\ \A x \in Packet \ {p} : pst[x] \notin InHands
      /\ scheduling = TRUE /\ rail \in Rails /\ p \notin InSeq(ring)
  <2>1. p = sched.p /\ rail \in Rails
    BY DEF p, Inv, TypeOK
  <2>2. sched.pc \in DOMAIN InHand /\ InHand["take"] = "hand" /\ InHand["ring"] = "attached"
    BY <1>1 DEF InHand
  <2> QED
    BY <1>1, <2>1, <2>2, HandFacts
<1>3. /\ sched' \in [pc : SchedPcs, p : Packet \cup {NoPacket}, group : Nat, raw : RawStates]
      /\ sched'.pc = "loop"
  BY <1>1, IdleFacts
<1>4. /\ pst' \in [Packet -> PStates] /\ pst'[p] = "hw"
      /\ \A x \in Packet \ {p} : pst'[x] = pst[x]
  BY <1>1, <1>2 DEF Inv, TypeOK, PacketTypes, PStates
<1>5. QueuesOK' /\ OrderOK' /\ HoldsOK'
  BY <1>1, <1>2, <1>4, QueuesKept, OrderKept, HoldsKept DEF Inv
<1>6. /\ ring' \in Seq(Packet) /\ Len(ring') = Len(ring) + 1 /\ Len(ring) \in Nat
      /\ InSeq(ring') = InSeq(ring) \cup {p} /\ Distinct(ring')
      /\ \A x, y : Before(ring', x, y) => Before(ring, x, y) \/ (x \in InSeq(ring) /\ y = p)
  <2>1. ring \in Seq(Packet) /\ p \in Packet /\ ring' = Append(ring, p)
    BY <1>1, <1>2 DEF Inv, TypeOK, RingTypes
  <2>2. ring \in Seq(Packet) /\ ring' \in Seq(Packet) /\ AtTail(ring, p, ring')
    BY ONLY <2>1 DEF AtTail
  <2>3. Distinct(ring) /\ p \notin InSeq(ring)
    BY <1>2 DEF Inv, RingOK
  <2>4. Len(ring') = Len(ring) + 1 /\ Len(ring) \in Nat
    BY ONLY <2>2 DEF AtTail
  <2> QED
    BY ONLY <2>2, <2>3, <2>4, AppendFacts
<1>7. RingOK'
  BY <1>2, <1>4, <1>6 DEF Inv, RingOK
<1>8. SchedOK'
  BY <1>1, <1>2, <1>3, <1>4, SchedMoved DEF InHand, InHands
<1>9. InOrder'
  <2>1. \A x, y \in Packet : (Ahead(x, y))' => Ahead(x, y)
    <3> TAKE x, y \in Packet
    <3>1. (Ahead(x, y))' = (\/ Before(ring', x, y) \/ Before(dataq', x, y)
                            \/ pst'[x] = "hw" /\ pst'[y] \in {"hand", "attached", "queued"}
                            \/ pst'[x] \in {"hand", "attached"} /\ pst'[y] = "queued")
      BY DEF Ahead, Before, Indices
    <3>2. x \in InSeq(ring) => pst[x] = "hw"
      BY DEF Inv, RingOK
    <3>3. pst'[y] # "hand" /\ pst'[y] # "attached"
      BY <1>2, <1>4 DEF InHands
    <3> QED
      BY <1>1, <1>2, <1>4, <1>6, <3>1, <3>2, <3>3 DEF Ahead
  <2> QED
    BY <1>1, <1>5, <1>7, <2>1, InOrderKept DEF Inv
<1>10. Accounts' /\ CountTypes'
  <2>1. /\ {decs, retiring, kicks, held, free, credits} \subseteq Nat /\ inflight \in Int
    BY DEF Inv, TypeOK, CountTypes
  <2>2. /\ Err' = Err /\ pst'[p] \in Fly /\ pst[p] \in Fly /\ pst'[p] \in Stg /\ pst[p] \in Stg
        /\ pst'[p] \notin Hnd /\ pst[p] \in Hnd
    BY <1>1, <1>2, <1>3, <1>4 DEF Err, Fly, Stg, Hnd
  <2>3. /\ Bit(pst'[p] \in Fly) = Bit(pst[p] \in Fly) /\ Bit(pst'[p] \in Stg) = Bit(pst[p] \in Stg)
        /\ Bit(pst'[p] \in Hnd) = 0 /\ Bit(pst[p] \in Hnd) = 1
    BY <2>2 DEF Bit
  <2>4. free = free + Bit(pst[p] \in Stg) - Bit(pst'[p] \in Stg)
    BY <2>1, <2>2 DEF Bit
  <2>5. credits \in Nat /\ held \in Nat
    BY <2>1
  <2>6. (Charged(p) => credits + held' + 0 = credits + held + 1) /\ held' \in Nat
    BY <1>1, <2>5
  <2> QED
    BY <1>1, <1>2, <1>4, <2>1, <2>2, <2>3, <2>4, <2>6, AccountsMoved
<1>11. RoomOK'
  <2>1. Len(dataq) \in Nat /\ reserved \in Nat /\ QueueLimit \in Nat
    BY <1>2, MsgFacts DEF Inv, TypeOK, QueueTypes
  <2> QED
    BY <1>1, <1>3, <2>1 DEF Inv, RoomOK
<1>12. TypeOK'
  <2>1. QueueTypes' /\ PacketTypes'
    BY <1>1, <1>4 DEF Inv, TypeOK, QueueTypes, PacketTypes
  <2>2. SchedTypes'
    BY <1>1, <1>3 DEF Inv, TypeOK, SchedTypes, NoPacket
  <2>3. p[1] \in Msg
    BY <1>2, PacketFacts
  <2>4. hwdone \in 0..Len(ring) /\ running \in BOOLEAN /\ wire \in Msg \cup {NoMsg}
    BY DEF Inv, TypeOK, RingTypes
  <2>5. hwdone' \in 0..Len(ring')
    BY <1>1, <1>6, <2>4
  <2>6. RingTypes'
    BY <1>1, <1>w, <1>6, <2>3, <2>4, <2>5 DEF RingTypes
  <2> QED
    BY <1>1, <1>10, <2>1, <2>2, <2>6 DEF Inv, TypeOK
<1> QED
  BY <1>5, <1>7, <1>8, <1>9, <1>10, <1>11, <1>12, AccountForm DEF Inv

\* What a failed submission gives back: the credit always fits the window.
LEMMA UndoFacts ==
  ASSUME Inv, rail' = rail, sched.pc = "ring", NEW p, p = sched.p, Undo(p)
  PROVE  /\ p \in Packet /\ pst[p] = "attached" /\ \A x \in Packet \ {p} : pst[x] \notin InHands
         /\ p \notin InSeq(dataq) /\ p \notin InSeq(ctlq) /\ p \notin InSeq(ring)
         /\ sched.group \in Nat /\ scheduling = TRUE /\ rail \in Rails
         /\ sched \in [pc : SchedPcs, p : Packet \cup {NoPacket}, group : Nat, raw : RawStates]
         /\ free' = (IF Zcopy(p) THEN free ELSE free + 1) /\ free' \in Nat
         /\ credits' = (IF Charged(p) THEN credits + 1 ELSE credits) /\ credits' \in Nat
         /\ raw' \in RawStates /\ counted' \in [Packet -> BOOLEAN]
<1>1. sched.pc \in DOMAIN InHand /\ InHand["ring"] = "attached"
  BY DEF InHand
<1>2. /\ p \in Packet /\ pst[p] = "attached" /\ \A x \in Packet \ {p} : pst[x] \notin InHands
      /\ p \notin InSeq(dataq) /\ p \notin InSeq(ctlq) /\ p \notin InSeq(ring)
      /\ sched.group \in Nat /\ scheduling = TRUE /\ sched.raw \in RawStates
      /\ sched \in [pc : SchedPcs, p : Packet \cup {NoPacket}, group : Nat, raw : RawStates]
  BY <1>1, HandFacts
<1>3. /\ rail \in Rails /\ free \in Nat /\ credits \in Nat /\ held \in Nat
      /\ counted \in [Packet -> BOOLEAN]
  <2>1. CreditMax \in Nat /\ FrameCount \in Nat
    BY MsgFacts DEF Inv, TypeOK
  <2> QED
    BY <2>1 DEF Inv, TypeOK, CountTypes, PacketTypes
<1>4. Charged(p) => credits < CreditMax
  <2> SUFFICES ASSUME Charged(p)
               PROVE  credits < CreditMax
    OBVIOUS
  <2>1. ChargedInHand \in Nat /\ ChargedInHand > 0 /\ CreditMax \in Nat
    BY <1>2, <1>3, CountBounds, MsgFacts DEF Hnd
  <2>2. credits + held + ChargedInHand = CreditMax
    BY AccountForm DEF Inv, Accounts, Charged
  <2> QED
    BY <1>3, <2>1, <2>2
<1>5. free' = (IF Zcopy(p) THEN free ELSE free + 1) /\ free' \in Nat
  BY <1>3 DEF Undo
<1>6. credits' = (IF Charged(p) THEN credits + 1 ELSE credits) /\ credits' \in Nat
  <2>1. credits' = IF Charged(p) THEN Lesser(credits + 1, CreditMax) ELSE credits
    BY DEF Undo
  <2>2. CreditMax \in Nat
    BY <1>3, MsgFacts
  <2>3. Charged(p) => Lesser(credits + 1, CreditMax) = credits + 1
    BY <1>3, <1>4, <2>2 DEF Lesser
  <2> QED
    BY <1>3, <2>1, <2>3
<1>7. raw' \in RawStates /\ counted' \in [Packet -> BOOLEAN]
  BY <1>2, <1>3 DEF Undo
<1> QED
  BY <1>2, <1>3, <1>5, <1>6, <1>7

\* A refused packet returns to the head of its queue, ahead of what it was
\* ahead of before.
LEMMA RequeueInv ==
  ASSUME Inv, rail' = rail, ScheduleTxRequeue
  PROVE  Inv'
<1> USE RailSame
<1> DEFINE p == sched.p
<1>1. /\ UNCHANGED <<closed, reserved, holds, order, posts, canceled, inflight, held, kicks, retiring>>
      /\ UNCHANGED <<ring, hwdone, running, wire, q>>
      /\ sched.pc = "ring" /\ Undo(p) /\ pst' = [pst EXCEPT ![p] = "queued"]
      /\ ctlq' = (IF IsControl(p) THEN <<p>> \o ctlq ELSE ctlq)
      /\ dataq' = (IF IsControl(p) THEN dataq ELSE <<p>> \o dataq)
      /\ group' = (IF IsControl(p) THEN group ELSE [group EXCEPT ![p] = sched.group])
      /\ scheduling' = FALSE /\ sched' = IdleSched /\ decs' = decs + 1 /\ RingRefuses
  BY DEF ScheduleTxRequeue, hwvars
<1>p. p = sched.p
  OBVIOUS
<1> HIDE DEF p
<1>2. /\ p \in Packet /\ pst[p] = "attached" /\ \A x \in Packet \ {p} : pst[x] \notin InHands
      /\ p \notin InSeq(dataq) /\ p \notin InSeq(ctlq) /\ p \notin InSeq(ring)
      /\ sched.group \in Nat /\ scheduling = TRUE /\ rail \in Rails
      /\ free' = (IF Zcopy(p) THEN free ELSE free + 1) /\ free' \in Nat
      /\ credits' = (IF Charged(p) THEN credits + 1 ELSE credits) /\ credits' \in Nat
      /\ raw' \in RawStates /\ counted' \in [Packet -> BOOLEAN]
  BY <1>1, <1>p, UndoFacts
<1>3. /\ sched' \in [pc : SchedPcs, p : Packet \cup {NoPacket}, group : Nat, raw : RawStates]
      /\ sched'.pc = "idle"
  BY <1>1, IdleFacts
<1>4. /\ pst' \in [Packet -> PStates] /\ pst'[p] = "queued"
      /\ \A x \in Packet \ {p} : pst'[x] = pst[x]
  BY <1>1, <1>2 DEF Inv, TypeOK, PacketTypes, PStates
<1>5. OrderOK' /\ HoldsOK' /\ RingOK'
  BY <1>1, <1>2, <1>4, RingKept, OrderKept, HoldsKept DEF Inv
<1>6. /\ ctlq \in Seq(Packet) /\ dataq \in Seq(Packet) /\ group \in [Packet -> Nat]
      /\ Distinct(ctlq) /\ Distinct(dataq) /\ Len(dataq) \in Nat
  BY DEF Inv, TypeOK, QueueTypes, QueuesOK
<1>7. IsControl(p) => ctlq' \in Seq(Packet) /\ InSeq(ctlq') = InSeq(ctlq) \cup {p} /\ Distinct(ctlq')
  <2> SUFFICES ASSUME IsControl(p)
               PROVE  ctlq' \in Seq(Packet) /\ InSeq(ctlq') = InSeq(ctlq) \cup {p} /\ Distinct(ctlq')
    OBVIOUS
  <2>1. ctlq \in Seq(Packet) /\ p \in Packet /\ ctlq' = <<p>> \o ctlq
    BY <1>1, <1>2, <1>6
  <2>2. ctlq \in Seq(Packet) /\ ctlq' \in Seq(Packet) /\ AtHead(ctlq, p, ctlq')
    BY ONLY <2>1 DEF AtHead
  <2>3. Distinct(ctlq) /\ p \notin InSeq(ctlq)
    BY <1>2, <1>6
  <2> QED
    BY ONLY <2>2, <2>3, PrependFacts
<1>8. ~IsControl(p) => /\ dataq' \in Seq(Packet) /\ InSeq(dataq') = InSeq(dataq) \cup {p}
                       /\ Distinct(dataq') /\ Len(dataq') = Len(dataq) + 1
                       /\ \A x, y : Before(dataq', x, y)
                            => Before(dataq, x, y) \/ (x = p /\ y \in InSeq(dataq))
  <2> SUFFICES ASSUME ~IsControl(p)
               PROVE  /\ dataq' \in Seq(Packet) /\ InSeq(dataq') = InSeq(dataq) \cup {p}
                      /\ Distinct(dataq') /\ Len(dataq') = Len(dataq) + 1
                      /\ \A x, y : Before(dataq', x, y)
                           => Before(dataq, x, y) \/ (x = p /\ y \in InSeq(dataq))
    OBVIOUS
  <2>1. dataq \in Seq(Packet) /\ p \in Packet /\ dataq' = <<p>> \o dataq
    BY <1>1, <1>2, <1>6
  <2>2. dataq \in Seq(Packet) /\ dataq' \in Seq(Packet) /\ AtHead(dataq, p, dataq')
    BY ONLY <2>1 DEF AtHead
  <2>3. Distinct(dataq) /\ p \notin InSeq(dataq)
    BY <1>2, <1>6
  <2>4. Len(dataq') = Len(dataq) + 1
    BY ONLY <2>2 DEF AtHead
  <2> QED
    BY ONLY <2>2, <2>3, <2>4, PrependFacts
<1>9. /\ IsControl(p) => dataq' = dataq /\ group' = group
      /\ ~IsControl(p) => ctlq' = ctlq /\ group' = [group EXCEPT ![p] = sched.group]
  BY <1>1
<1>10. QueuesOK'
  <2>1. CASE IsControl(p)
    BY <2>1, <1>2, <1>4, <1>7, <1>9 DEF Inv, QueuesOK
  <2>2. CASE ~IsControl(p)
    BY <2>2, <1>2, <1>4, <1>8, <1>9 DEF Inv, QueuesOK
  <2> QED
    BY <2>1, <2>2
<1>11. SchedOK'
  BY <1>1, <1>2, <1>3, <1>4, SchedMoved DEF InHand, InHands
<1>12. InOrder'
  <2>1. \A x, y \in Packet : (Ahead(x, y))' => Ahead(x, y)
    <3> TAKE x, y \in Packet
    <3>1. (Ahead(x, y))' = (\/ Before(ring', x, y) \/ Before(dataq', x, y)
                            \/ pst'[x] = "hw" /\ pst'[y] \in {"hand", "attached", "queued"}
                            \/ pst'[x] \in {"hand", "attached"} /\ pst'[y] = "queued")
      BY DEF Ahead, Before, Indices
    <3>2. y \in InSeq(dataq) => pst[y] = "queued"
      BY DEF Inv, QueuesOK
    <3>3. pst'[x] # "hand" /\ pst'[x] # "attached" /\ pst'[y] # "hand" /\ pst'[y] # "attached"
      BY <1>2, <1>4 DEF InHands
    <3>4. Before(dataq', x, y) => Before(dataq, x, y) \/ (x = p /\ y \in InSeq(dataq))
      BY <1>8, <1>9
    <3>5. Before(ring', x, y) => Before(ring, x, y)
      BY <1>1
    <3>6. pst'[x] = "hw" => pst[x] = "hw"
      BY <1>4
    <3>7. pst'[y] = "queued" => pst[y] \in {"attached", "queued"}
      BY <1>2, <1>4
    <3> QED
      BY <1>2, <3>1, <3>2, <3>3, <3>4, <3>5, <3>6, <3>7 DEF Ahead
  <2> QED
    BY <1>1, <1>5, <1>10, <2>1, InOrderKept DEF Inv
<1>13. Accounts' /\ CountTypes'
  <2>1. /\ decs \in Nat /\ retiring \in Nat /\ kicks \in Nat /\ held \in Nat /\ free \in Nat
        /\ credits \in Nat /\ inflight \in Nat
    <3>1. CreditMax \in Nat /\ FrameCount \in Nat
      BY <1>2, MsgFacts
    <3> QED
      BY <3>1 DEF Inv, TypeOK, CountTypes
  <2>2. /\ Err = 0 /\ Err' = 0 /\ Bit(pst'[p] \in Fly) = 0 /\ Bit(pst[p] \in Fly) = 1
        /\ Bit(pst'[p] \in Stg) = 0 /\ Bit(pst[p] \in Stg) = 1
        /\ Bit(pst'[p] \in Hnd) = 0 /\ Bit(pst[p] \in Hnd) = 1 /\ pst[p] \in Stg
    BY <1>1, <1>2, <1>3, <1>4 DEF Err, Fly, Stg, Hnd, Bit
  <2>3. inflight' - 0 - decs' - retiring' - 0 = inflight - 0 - decs - retiring - 1
    BY <1>1, <2>1
  <2>4. free' = IF Zcopy(p) THEN free ELSE free + 1 - 0
    BY <1>2, <2>1
  <2>5. IF Charged(p) THEN credits' + held' + 0 = credits + held + 1 ELSE credits' = credits /\ held' = held
    BY <1>1, <1>2, <2>1
  <2>6. {decs', retiring', kicks', held', free', credits'} \subseteq Nat /\ inflight' \in Int
    BY <1>1, <1>2, <2>1
  <2> QED
    BY <1>2, <1>4, <2>2, <2>3, <2>4, <2>5, <2>6, AccountsMoved
<1>14. RoomOK'
  <2>1. /\ reserved \in Nat /\ QueueLimit \in Nat
        /\ Len(dataq) + reserved + Bit(~IsControl(p)) <= QueueLimit + 1
    BY <1>1, <1>2, <1>p, MsgFacts DEF Inv, TypeOK, QueueTypes, RoomOK, Bit
  <2>2. Len(dataq') = Len(dataq) + Bit(~IsControl(p))
    BY <1>6, <1>8, <1>9 DEF Bit
  <2>3. Len(dataq') + reserved <= QueueLimit + 1 /\ Len(dataq') \in Nat
    BY <1>6, <2>1, <2>2 DEF Bit
  <2> QED
    BY <1>1, <1>3, <2>1, <2>3 DEF RoomOK
<1>15. TypeOK'
  <2>1. QueueTypes'
    BY <1>1, <1>2, <1>6, <1>7, <1>8, <1>9 DEF Inv, TypeOK, QueueTypes
  <2>2. SchedTypes'
    BY <1>1, <1>2, <1>3 DEF SchedTypes, NoPacket
  <2>3. RingTypes' /\ PacketTypes'
    BY <1>1, <1>2, <1>4 DEF Inv, TypeOK, PacketTypes, RingTypes
  <2> QED
    BY <1>1, <1>13, <2>1, <2>2, <2>3 DEF Inv, TypeOK
<1> QED
  BY <1>5, <1>10, <1>11, <1>12, <1>13, <1>14, <1>15, AccountForm DEF Inv

\* A packet the ring does not take is given up.
LEMMA FailInv ==
  ASSUME Inv, rail' = rail, ScheduleTxFail
  PROVE  Inv'
<1> USE RailSame
<1> DEFINE p == sched.p
<1>1. /\ UNCHANGED <<closed, ctlq, dataq, reserved, holds, group, order, posts, canceled, inflight>>
      /\ UNCHANGED <<held, scheduling, kicks, decs, retiring, ring, hwdone, running, wire, q>>
      /\ sched.pc = "ring" /\ Undo(p) /\ pst' = [pst EXCEPT ![p] = "failing"]
      /\ sched' = [sched EXCEPT !.pc = "errdec"]
  BY DEF ScheduleTxFail, hwvars, queues
<1>p. p = sched.p
  OBVIOUS
<1> HIDE DEF p
<1>2. /\ p \in Packet /\ pst[p] = "attached" /\ \A x \in Packet \ {p} : pst[x] \notin InHands
      /\ scheduling = TRUE /\ rail \in Rails
      /\ sched \in [pc : SchedPcs, p : Packet \cup {NoPacket}, group : Nat, raw : RawStates]
      /\ free' = (IF Zcopy(p) THEN free ELSE free + 1) /\ free' \in Nat
      /\ credits' = (IF Charged(p) THEN credits + 1 ELSE credits) /\ credits' \in Nat
      /\ raw' \in RawStates /\ counted' \in [Packet -> BOOLEAN]
  BY <1>1, <1>p, UndoFacts
<1>3. /\ sched' \in [pc : SchedPcs, p : Packet \cup {NoPacket}, group : Nat, raw : RawStates]
      /\ sched'.pc = "errdec" /\ sched'.p = p
  BY <1>1, <1>2, <1>p DEF SchedPcs
<1>4. /\ pst' \in [Packet -> PStates] /\ pst'[p] = "failing"
      /\ \A x \in Packet \ {p} : pst'[x] = pst[x]
  BY <1>1, <1>2 DEF Inv, TypeOK, PacketTypes, PStates
<1>5. OrderOK' /\ HoldsOK' /\ RingOK' /\ QueuesOK'
  BY <1>1, <1>2, <1>4, RingKept, OrderKept, HoldsKept, QueuesKept DEF Inv
<1>6. SchedOK'
  BY <1>1, <1>2, <1>3, <1>4, SchedMoved DEF InHand, InHands
<1>7. InOrder'
  BY <1>1, <1>4, <1>5, LeaveInOrder
<1>8. Accounts' /\ CountTypes'
  <2>1. /\ decs \in Nat /\ retiring \in Nat /\ kicks \in Nat /\ held \in Nat /\ free \in Nat
        /\ credits \in Nat /\ inflight \in Nat
    <3>1. CreditMax \in Nat /\ FrameCount \in Nat
      BY <1>2, MsgFacts
    <3> QED
      BY <3>1 DEF Inv, TypeOK, CountTypes
  <2>2. /\ Err = 0 /\ Err' = 1 /\ Bit(pst'[p] \in Fly) = 0 /\ Bit(pst[p] \in Fly) = 1
        /\ Bit(pst'[p] \in Stg) = 0 /\ Bit(pst[p] \in Stg) = 1
        /\ Bit(pst'[p] \in Hnd) = 0 /\ Bit(pst[p] \in Hnd) = 1 /\ pst[p] \in Stg
    BY <1>1, <1>2, <1>3, <1>4 DEF Err, Fly, Stg, Hnd, Bit
  <2>3. inflight' - 1 - decs' - retiring' - 0 = inflight - 0 - decs - retiring - 1
    BY <1>1, <2>1
  <2>4. free' = IF Zcopy(p) THEN free ELSE free + 1 - 0
    BY <1>2, <2>1
  <2>5. IF Charged(p) THEN credits' + held' + 0 = credits + held + 1 ELSE credits' = credits /\ held' = held
    BY <1>1, <1>2, <2>1
  <2>6. {decs', retiring', kicks', held', free', credits'} \subseteq Nat /\ inflight' \in Int
    BY <1>1, <1>2, <2>1
  <2> QED
    BY <1>2, <1>4, <2>2, <2>3, <2>4, <2>5, <2>6, AccountsMoved
<1>9. RoomOK'
  <2>1. reserved \in Nat /\ QueueLimit \in Nat /\ Len(dataq) \in Nat
    BY <1>2, MsgFacts DEF Inv, TypeOK, QueueTypes
  <2> QED
    BY <1>1, <1>3, <2>1 DEF Inv, RoomOK
<1>10. TypeOK'
  <2>2. SchedTypes'
    BY <1>1, <1>2, <1>3 DEF SchedTypes, NoPacket
  <2>3. QueueTypes' /\ RingTypes' /\ PacketTypes'
    BY <1>1, <1>2, <1>4 DEF Inv, TypeOK, QueueTypes, PacketTypes, RingTypes
  <2> QED
    BY <1>1, <1>8, <2>2, <2>3 DEF Inv, TypeOK
<1> QED
  BY <1>5, <1>6, <1>7, <1>8, <1>9, <1>10, AccountForm DEF Inv

-----------------------------------------------------------------------------
(* Packets that are done.                                                  *)

\* A released packet is none of those in the queues or the ring: only the
\* ghost order, the raw-stream count and the in-flight count change.
LEMMA FailReleaseInv ==
  ASSUME Inv, rail' = rail, FailRelease
  PROVE  Inv'
<1> USE RailSame
<1> DEFINE p == sched.p
<1>1. /\ UNCHANGED <<closed, ctlq, dataq, reserved, holds, group, posts, raw, counted, free, inflight>>
      /\ UNCHANGED <<credits, held, scheduling, kicks, decs, retiring, ring, hwdone, running, wire, q>>
      /\ sched.pc = "errrel" /\ pst' = [pst EXCEPT ![p] = "idle"]
      /\ canceled' = [canceled EXCEPT ![p] = FALSE] /\ order' = Without(order, {p})
      /\ sched' = [sched EXCEPT !.pc = "errexit"]
  BY DEF FailRelease, rawvars, cvars, hwvars
<1>p. p = sched.p
  OBVIOUS
<1> HIDE DEF p
<1>2. /\ p \in Packet /\ pst[p] = "failing" /\ \A x \in Packet \ {p} : pst[x] \notin InHands
      /\ scheduling = TRUE /\ rail \in Rails
      /\ sched \in [pc : SchedPcs, p : Packet \cup {NoPacket}, group : Nat, raw : RawStates]
  <2>1. rail \in Rails
    BY DEF Inv, TypeOK
  <2>2. sched.pc \in DOMAIN InHand /\ InHand["errrel"] = "failing"
    BY <1>1 DEF InHand
  <2> QED
    BY <1>1, <1>p, <2>1, <2>2, HandFacts
<1>3. /\ sched' \in [pc : SchedPcs, p : Packet \cup {NoPacket}, group : Nat, raw : RawStates]
      /\ sched'.pc = "errexit"
  BY <1>1, <1>2, <1>p DEF SchedPcs
<1>4. /\ pst' \in [Packet -> PStates] /\ pst'[p] = "idle" /\ canceled' \in [Packet -> BOOLEAN]
      /\ \A x \in Packet \ {p} : pst'[x] = pst[x]
  BY <1>1, <1>2 DEF Inv, TypeOK, PacketTypes, PStates
<1>5. HoldsOK' /\ RingOK' /\ QueuesOK'
  BY <1>1, <1>2, <1>4, RingKept, HoldsKept, QueuesKept DEF Inv
<1>6. /\ order' \in Seq(Packet) /\ OrderOK'
      /\ \A x, y \in Packet : pst'[x] \in OnPath /\ pst'[y] \in OnPath /\ Before(order, x, y)
                                => Before(order', x, y)
  <2> \A x \in Packet : pst'[x] = IF x \in {p} THEN "idle" ELSE pst[x]
    BY <1>4
  <2> QED
    BY <1>1, ReleaseOrder
<1>7. SchedOK'
  BY <1>1, <1>2, <1>3, <1>4, SchedMoved DEF InHand, InHands
<1>8. InOrder'
  BY <1>1, <1>4, <1>5, <1>6, LeaveInOrder
<1>9. Accounts' /\ CountTypes'
  <2>1. /\ {decs, retiring, kicks, held, free, credits} \subseteq Nat /\ inflight \in Int
    BY DEF Inv, TypeOK, CountTypes
  <2>2. /\ Err = 0 /\ Err' = 0 /\ Bit(pst'[p] \in Fly) = 0 /\ Bit(pst[p] \in Fly) = 0
        /\ Bit(pst'[p] \in Stg) = 0 /\ Bit(pst[p] \in Stg) = 0 /\ pst'[p] \notin Stg
        /\ Bit(pst'[p] \in Hnd) = 0 /\ Bit(pst[p] \in Hnd) = 0
    BY <1>1, <1>2, <1>3, <1>4 DEF Err, Fly, Stg, Hnd, Bit
  <2>3. free = free + 0 - 0
    BY <2>1
  <2> QED
    BY <1>1, <1>2, <1>4, <2>1, <2>2, <2>3, AccountsMoved
<1>10. RoomOK'
  BY <1>1, <1>3 DEF Inv, RoomOK
<1>11. TypeOK'
  <2>2. SchedTypes'
    BY <1>1, <1>2, <1>3 DEF Inv, TypeOK, SchedTypes, NoPacket
  <2>3. QueueTypes' /\ RingTypes' /\ PacketTypes'
    BY <1>1, <1>2, <1>4, <1>6 DEF Inv, TypeOK, QueueTypes, PacketTypes, RingTypes
  <2> QED
    BY <1>1, <1>9, <2>2, <2>3 DEF Inv, TypeOK
<1> QED
  BY <1>5, <1>6, <1>7, <1>8, <1>9, <1>10, <1>11, AccountForm DEF Inv

\* The oldest descriptor leaves the ring.
LEMMA RingPop ==
  ASSUME Inv, ring # <<>>, ring' = Tail(ring), NEW p, p = Head(ring)
  PROVE  /\ ring' \in Seq(Packet) /\ Len(ring) \in Nat /\ Len(ring') = Len(ring) - 1
         /\ p \in Packet /\ pst[p] = "hw"
         /\ Distinct(ring') /\ InSeq(ring') = InSeq(ring) \ {p}
         /\ \A x, y : Before(ring', x, y) => Before(ring, x, y)
<1>1. ring \in Seq(Packet) /\ Distinct(ring)
  BY DEF Inv, TypeOK, RingTypes, RingOK
<1>2. /\ ring \in Seq(Packet) /\ ring' \in Seq(Packet) /\ AtHead(ring', p, ring) /\ p \in Packet
      /\ Len(ring) \in Nat /\ Len(ring') = Len(ring) - 1
  BY <1>1 DEF AtHead
<1>3. /\ Distinct(ring') /\ InSeq(ring') = InSeq(ring) \ {p} /\ p \in InSeq(ring)
      /\ \A x, y : Before(ring', x, y) => Before(ring, x, y)
  BY ONLY <1>1, <1>2, TailFacts
<1>4. pst[p] = "hw"
  BY <1>2, <1>3 DEF Inv, RingOK
<1> QED
  BY <1>2, <1>3, <1>4

\* The raw stream that a released packet leaves behind.
LEMMA RawFacts ==
  ASSUME Inv, NEW p \in Packet
  PROVE  RawFinished(p) \in RawStates
<1> USE DEF RawStates
<1>1. raw \in RawStates /\ NoRaw \in RawStates
  BY IdleFacts DEF Inv, TypeOK, SchedTypes
<1> DEFINE n == IF raw.inflight > 0 THEN raw.inflight - 1 ELSE 0
           e == raw.end \/ KindOf(p) = "end"
           r == IF raw.owner # OwnerOf(p) THEN raw ELSE [raw EXCEPT !.end = e, !.inflight = n]
<1>2. n \in Nat /\ e \in BOOLEAN
  BY <1>1
<1> HIDE DEF n, e
<1>3. [raw EXCEPT !.end = e, !.inflight = n] \in RawStates
  BY <1>1, <1>2
<1>4. r \in RawStates
  BY <1>1, <1>3
<1>5. RawFinished(p) \in {raw, NoRaw, r}
  BY DEF RawFinished, n, e
<1> QED
  BY <1>1, <1>4, <1>5

\* A callback takes the oldest completed frame off the ring.
LEMMA CompleteInv ==
  ASSUME Inv, rail' = rail, TxComplete
  PROVE  Inv'
<1> USE RailSame
<1> DEFINE p == Head(ring)
<1>1. /\ UNCHANGED <<closed, ctlq, dataq, reserved, holds, group, order, posts, canceled, raw, counted>>
      /\ UNCHANGED <<inflight, credits, held, scheduling, sched, kicks, decs, retiring>>
      /\ UNCHANGED <<running, wire, q>>
      /\ pst' = [pst EXCEPT ![p] = "completing"] /\ ring' = Tail(ring) /\ hwdone > 0
      /\ hwdone' = hwdone - 1 /\ free' = IF Zcopy(p) THEN free ELSE free + 1
  BY DEF TxComplete, queues, rawvars, cvars, svars
<1>p. p = Head(ring)
  OBVIOUS
<1> HIDE DEF p
<1>n. hwdone \in 0..Len(ring) /\ ring # <<>> /\ rail \in Rails
  BY <1>1 DEF Inv, TypeOK, RingTypes
<1>2. /\ ring' \in Seq(Packet) /\ Len(ring) \in Nat /\ Len(ring') = Len(ring) - 1
      /\ p \in Packet /\ pst[p] = "hw"
      /\ Distinct(ring') /\ InSeq(ring') = InSeq(ring) \ {p}
      /\ \A x, y : Before(ring', x, y) => Before(ring, x, y)
  BY <1>1, <1>p, <1>n, RingPop
<1>4. /\ pst' \in [Packet -> PStates] /\ pst'[p] = "completing"
      /\ \A x \in Packet \ {p} : pst'[x] = pst[x]
  BY <1>1, <1>2 DEF Inv, TypeOK, PacketTypes, PStates
<1>5. HoldsOK' /\ OrderOK' /\ QueuesOK' /\ SchedOK'
  BY <1>1, <1>n, <1>2, <1>4, OrderKept, HoldsKept, QueuesKept, SchedKept DEF Inv
<1>6. RingOK'
  BY <1>2, <1>4 DEF Inv, RingOK
<1>8. InOrder'
  BY <1>1, <1>2, <1>4, <1>5, <1>6, LeaveInOrder
<1>9. Accounts' /\ CountTypes'
  <2>1. {decs, retiring, kicks, held, free, credits} \subseteq Nat /\ inflight \in Int
    BY DEF Inv, TypeOK, CountTypes
  <2>2. /\ Err' = Err /\ Bit(pst'[p] \in Fly) = 1 /\ Bit(pst[p] \in Fly) = 1
        /\ Bit(pst'[p] \in Stg) = 0 /\ Bit(pst[p] \in Stg) = 1 /\ pst'[p] \notin Stg
        /\ Bit(pst'[p] \in Hnd) = 0 /\ Bit(pst[p] \in Hnd) = 0
    BY <1>1, <1>2, <1>4 DEF Err, Fly, Stg, Hnd, Bit
  <2>3. free \in Nat
    BY <2>1
  <2>4. free' = (IF Zcopy(p) THEN free ELSE free + 1 - 0) /\ free' \in Nat
    BY <1>1, <2>3
  <2> QED
    BY <1>1, <1>2, <1>4, <2>1, <2>2, <2>4, AccountsMoved
<1>10. RoomOK'
  BY <1>1 DEF Inv, RoomOK
<1>11. TypeOK'
  <2>1. hwdone' \in 0..Len(ring')
    BY <1>1, <1>n, <1>2
  <2>2. SchedTypes'
    BY <1>1 DEF Inv, TypeOK, SchedTypes, NoPacket
  <2>3. QueueTypes' /\ RingTypes' /\ PacketTypes'
    BY <1>1, <1>2, <1>4, <2>1 DEF Inv, TypeOK, QueueTypes, PacketTypes, RingTypes
  <2> QED
    BY <1>1, <1>9, <2>2, <2>3 DEF Inv, TypeOK
<1> QED
  BY <1>5, <1>6, <1>8, <1>9, <1>10, <1>11, AccountForm DEF Inv

\* The callback releases the packet it detached.
LEMMA CompleteReleaseInv ==
  ASSUME Inv, rail' = rail, NEW p \in Packet, TxCompleteRelease(p)
  PROVE  Inv'
<1> USE RailSame
<1>1. /\ UNCHANGED <<closed, ctlq, dataq, reserved, holds, group, posts, free, inflight>>
      /\ UNCHANGED <<credits, held, scheduling, sched, kicks, decs, ring, hwdone, running, wire, q>>
      /\ pst' = [pst EXCEPT ![p] = "idle"] /\ canceled' = [canceled EXCEPT ![p] = FALSE]
      /\ counted' = [counted EXCEPT ![p] = FALSE] /\ raw' = RawFinished(p)
      /\ order' = Without(order, {p}) /\ retiring' = retiring + 1 /\ pst[p] = "completing"
  BY DEF TxCompleteRelease, cvars, hwvars, svars
<1>2. rail \in Rails /\ raw' \in RawStates
  BY <1>1, RawFacts DEF Inv, TypeOK
<1>4. /\ pst' \in [Packet -> PStates] /\ pst'[p] = "idle" /\ canceled' \in [Packet -> BOOLEAN]
      /\ \A x \in Packet \ {p} : pst'[x] = pst[x]
      /\ counted' \in [Packet -> BOOLEAN]
  BY <1>1, <1>2 DEF Inv, TypeOK, PacketTypes, PStates
<1>5. HoldsOK' /\ RingOK' /\ QueuesOK' /\ SchedOK'
  BY <1>1, <1>2, <1>4, RingKept, HoldsKept, QueuesKept, SchedKept DEF Inv
<1>6. /\ order' \in Seq(Packet) /\ OrderOK'
      /\ \A x, y \in Packet : pst'[x] \in OnPath /\ pst'[y] \in OnPath /\ Before(order, x, y)
                                => Before(order', x, y)
  <2> \A x \in Packet : pst'[x] = IF x \in {p} THEN "idle" ELSE pst[x]
    BY <1>4
  <2> QED
    BY <1>1, ReleaseOrder
<1>8. InOrder'
  BY <1>1, <1>4, <1>5, <1>6, LeaveInOrder
<1>9. Accounts' /\ CountTypes'
  <2>1. /\ {decs, retiring, kicks, held, free, credits} \subseteq Nat /\ inflight \in Int
    BY DEF Inv, TypeOK, CountTypes
  <2>a. decs \in Nat /\ retiring \in Nat /\ inflight \in Int /\ free \in Nat /\ Err \in Nat
    BY <2>1 DEF Err, Bit
  <2>2. /\ Err' = Err /\ Bit(pst'[p] \in Fly) = 0 /\ Bit(pst[p] \in Fly) = 1
        /\ Bit(pst'[p] \in Stg) = 0 /\ Bit(pst[p] \in Stg) = 0 /\ pst'[p] \notin Stg
        /\ Bit(pst'[p] \in Hnd) = 0 /\ Bit(pst[p] \in Hnd) = 0
    BY <1>1, <1>4 DEF Err, Fly, Stg, Hnd, Bit
  <2>3. free = free + 0 - 0 /\ retiring' \in Nat
    BY <1>1, <2>a
  <2>4. inflight - Err - decs - retiring' - 0 = inflight - Err - decs - retiring - 1
    <3> PICK i, e, d, r, s : i = inflight /\ e = Err /\ d = decs /\ r = retiring /\ s = retiring'
      OBVIOUS
    <3>1. i \in Int /\ e \in Int /\ d \in Int /\ r \in Int /\ s = r + 1
      BY <1>1, <2>a
    <3>2. i - e - d - s - 0 = i - e - d - r - 1
      BY ONLY <3>1
    <3> QED
      BY <3>2
  <2> QED
    BY <1>1, <1>4, <2>1, <2>2, <2>3, <2>4, AccountsMoved
<1>10. RoomOK'
  BY <1>1 DEF Inv, RoomOK
<1>11. TypeOK'
  <2>2. SchedTypes'
    BY <1>1, <1>2 DEF Inv, TypeOK, SchedTypes, NoPacket
  <2>3. QueueTypes' /\ RingTypes' /\ PacketTypes'
    BY <1>1, <1>4, <1>6 DEF Inv, TypeOK, QueueTypes, PacketTypes, RingTypes
  <2> QED
    BY <1>1, <1>9, <2>2, <2>3 DEF Inv, TypeOK
<1> QED
  BY <1>5, <1>6, <1>8, <1>9, <1>10, <1>11, AccountForm DEF Inv

\* tb_ring_stop() completes a descriptor the hardware may not have reached.
LEMMA RingStopInv ==
  ASSUME Inv, rail' = rail, RingStopCallback
  PROVE  Inv'
<1> USE RailSame
<1> DEFINE p == Head(ring)
<1>1. /\ UNCHANGED <<closed, ctlq, dataq, reserved, holds, group, posts, credits, held>>
      /\ UNCHANGED <<scheduling, sched, decs, retiring, running, wire, q>>
      /\ pst' = [pst EXCEPT ![p] = "idle"] /\ ring' = Tail(ring) /\ ring # <<>>
      /\ canceled' = [canceled EXCEPT ![p] = FALSE]
      /\ counted' = [counted EXCEPT ![p] = FALSE] /\ raw' = RawFinished(p)
      /\ order' = Without(order, {p}) /\ inflight' = inflight - 1 /\ kicks' = kicks + 1
      /\ hwdone' = Greater(hwdone - 1, 0) /\ free' = IF Zcopy(p) THEN free ELSE free + 1
  BY DEF RingStopCallback, cvars, Kick
<1>p. p = Head(ring)
  OBVIOUS
<1> HIDE DEF p
<1>n. hwdone \in 0..Len(ring) /\ ring # <<>> /\ rail \in Rails
  BY <1>1 DEF Inv, TypeOK, RingTypes
<1>2. /\ ring' \in Seq(Packet) /\ Len(ring) \in Nat /\ Len(ring') = Len(ring) - 1
      /\ p \in Packet /\ pst[p] = "hw"
      /\ Distinct(ring') /\ InSeq(ring') = InSeq(ring) \ {p}
      /\ \A x, y : Before(ring', x, y) => Before(ring, x, y)
  BY <1>1, <1>p, RingPop
<1>3. raw' \in RawStates
  BY <1>1, <1>2, RawFacts
<1>4. /\ pst' \in [Packet -> PStates] /\ pst'[p] = "idle" /\ canceled' \in [Packet -> BOOLEAN]
      /\ \A x \in Packet \ {p} : pst'[x] = pst[x]
      /\ counted' \in [Packet -> BOOLEAN]
  BY <1>1, <1>2 DEF Inv, TypeOK, PacketTypes, PStates
<1>5. HoldsOK' /\ QueuesOK' /\ SchedOK'
  BY <1>1, <1>n, <1>2, <1>4, HoldsKept, QueuesKept, SchedKept DEF Inv
<1>6. RingOK'
  BY <1>2, <1>4 DEF Inv, RingOK
<1>7. /\ order' \in Seq(Packet) /\ OrderOK'
      /\ \A x, y \in Packet : pst'[x] \in OnPath /\ pst'[y] \in OnPath /\ Before(order, x, y)
                                => Before(order', x, y)
  <2> \A x \in Packet : pst'[x] = IF x \in {p} THEN "idle" ELSE pst[x]
    BY <1>4
  <2> QED
    BY <1>1, ReleaseOrder
<1>8. InOrder'
  BY <1>1, <1>2, <1>4, <1>5, <1>6, <1>7, LeaveInOrder
<1>9. Accounts' /\ CountTypes'
  <2>1. {decs, retiring, kicks, held, free, credits} \subseteq Nat /\ inflight \in Int
    BY DEF Inv, TypeOK, CountTypes
  <2>a. decs \in Nat /\ retiring \in Nat /\ inflight \in Int /\ free \in Nat /\ Err \in Nat /\ kicks \in Nat
    BY <2>1 DEF Err, Bit
  <2>2. /\ Err' = Err /\ Bit(pst'[p] \in Fly) = 0 /\ Bit(pst[p] \in Fly) = 1
        /\ Bit(pst'[p] \in Stg) = 0 /\ Bit(pst[p] \in Stg) = 1 /\ pst'[p] \notin Stg
        /\ Bit(pst'[p] \in Hnd) = 0 /\ Bit(pst[p] \in Hnd) = 0
    BY <1>1, <1>2, <1>4 DEF Err, Fly, Stg, Hnd, Bit
  <2>3. free' = (IF Zcopy(p) THEN free ELSE free + 1 - 0) /\ free' \in Nat /\ kicks' \in Nat /\ inflight' \in Int
    BY <1>1, <2>a
  <2>4. inflight' - Err - decs - retiring - 0 = inflight - Err - decs - retiring - 1
    <3> PICK i, e, d, r, s : i = inflight /\ e = Err /\ d = decs /\ r = retiring /\ s = inflight'
      OBVIOUS
    <3>1. i \in Int /\ e \in Int /\ d \in Int /\ r \in Int /\ s = i - 1
      BY <1>1, <2>a
    <3>2. s - e - d - r - 0 = i - e - d - r - 1
      BY ONLY <3>1
    <3> QED
      BY <3>2
  <2> QED
    BY <1>1, <1>2, <1>4, <2>1, <2>2, <2>3, <2>4, AccountsMoved
<1>10. RoomOK'
  BY <1>1 DEF Inv, RoomOK
<1>11. TypeOK'
  <2>1. hwdone' \in 0..Len(ring')
    BY <1>1, <1>n, <1>2 DEF Greater
  <2>2. SchedTypes'
    BY <1>1, <1>3 DEF Inv, TypeOK, SchedTypes, NoPacket
  <2>3. QueueTypes' /\ RingTypes' /\ PacketTypes'
    BY <1>1, <1>2, <1>4, <1>7, <2>1 DEF Inv, TypeOK, QueueTypes, PacketTypes, RingTypes
  <2> QED
    BY <1>1, <1>9, <2>2, <2>3 DEF Inv, TypeOK
<1> QED
  BY <1>5, <1>6, <1>7, <1>8, <1>9, <1>10, <1>11, AccountForm DEF Inv

\* The packet the scheduler looks at is the head of the queue of its class.
LEMMA CandidateFacts ==
  ASSUME Inv, Candidate # NoPacket, NEW p, p = Candidate
  PROVE  /\ p \in Packet /\ pst[p] = "queued"
         /\ IsControl(p) => ctlq # <<>> /\ p = Head(ctlq)
         /\ ~IsControl(p) => dataq # <<>> /\ p = Head(dataq)
<1>1. \/ ctlq # <<>> /\ p = Head(ctlq)
      \/ dataq # <<>> /\ p = Head(dataq)
  BY DEF Candidate
<1>2. ctlq \in Seq(Packet) /\ dataq \in Seq(Packet)
  BY DEF Inv, TypeOK, QueueTypes
<1>3. CASE ctlq # <<>> /\ p = Head(ctlq)
  <2>1. Len(ctlq) \in Nat \ {0} /\ p = ctlq[1] /\ p \in Packet
    BY <1>2, <1>3
  <2>2. p \in InSeq(ctlq)
    BY <2>1 DEF InSeq, Indices
  <2> QED
    BY <1>3, <2>1, <2>2 DEF Inv, QueuesOK
<1>4. CASE dataq # <<>> /\ p = Head(dataq)
  <2>1. Len(dataq) \in Nat \ {0} /\ p = dataq[1] /\ p \in Packet
    BY <1>2, <1>4
  <2>2. p \in InSeq(dataq)
    BY <2>1 DEF InSeq, Indices
  <2> QED
    BY <1>4, <2>1, <2>2 DEF Inv, QueuesOK
<1> QED
  BY <1>1, <1>3, <1>4

\* The raw stream after a packet is counted in.
LEMMA RawAfterFacts ==
  ASSUME Inv, NEW p \in Packet
  PROVE  RawAfter(p) \in RawStates
<1> DEFINE s == [active |-> TRUE, owner |-> OwnerOf(p), end |-> FALSE, inflight |-> 0]
           r == IF KindOf(p) = "start" THEN s ELSE raw
<1>1. raw \in RawStates /\ p[1] \in Msg
  BY PacketFacts DEF Inv, TypeOK, SchedTypes
<1>2. s \in RawStates
  BY <1>1 DEF RawStates, OwnerOf
<1>3. r \in RawStates
  BY <1>1, <1>2
<1>4. RawAfter(p) = r \/ RawAfter(p) = [r EXCEPT !.inflight = @ + 1]
  BY DEF RawAfter
<1> HIDE DEF r
<1>5. [r EXCEPT !.inflight = @ + 1] \in RawStates
  BY <1>3 DEF RawStates
<1> QED
  BY <1>3, <1>4, <1>5

\* What the scheduler checked before it takes a packet.
LEMMA SendableFacts ==
  ASSUME Inv, Sendable, NEW p \in Packet, p = Candidate
  PROVE  /\ ~Zcopy(p) => free > 0
         /\ Zcopy(p) \/ IsControl(p) \/ FrameCount - inflight > ControlFrameReserve
         /\ Charged(p) => credits >= 1
<1>1. HasStaging(p) /\ HasCredit(p)
  BY DEF Sendable
<1>2. CreditMax \in Nat /\ group[p] \in Nat /\ credits \in Nat
  <2>1. CreditMax \in Nat
    BY MsgFacts DEF Inv, TypeOK
  <2> QED
    BY <2>1 DEF Inv, TypeOK, QueueTypes, CountTypes
<1>3. ReturnThreshold \in Nat
  BY <1>2, PathTxAssumption DEF ReturnThreshold
<1>4. StartCreditRequired(group[p]) \in Nat
  BY <1>2, <1>3 DEF StartCreditRequired, Lesser
<1>5. Charged(p) => credits >= 1
  <2> PICK n : n = StartCreditRequired(group[p])
    OBVIOUS
  <2>1. n \in Nat /\ (Charged(p) => credits >= Greater(1, n))
    BY <1>1, <1>4 DEF HasCredit
  <2> QED
    BY <1>2, <2>1 DEF Greater
<1> QED
  BY <1>1, <1>5 DEF HasStaging

\* The scheduler takes the head of a queue into its hands.
LEMMA TakeInv ==
  ASSUME Inv, rail' = rail, ScheduleTxTake
  PROVE  Inv'
<1> USE RailSame
<1> DEFINE p == Candidate
<1>1. /\ UNCHANGED <<closed, reserved, holds, order, posts, canceled, held, scheduling, kicks, decs>>
      /\ UNCHANGED <<retiring, ring, hwdone, running, wire, q>>
      /\ sched.pc = "loop" /\ Sendable /\ pst' = [pst EXCEPT ![p] = "hand"]
      /\ credits' = (IF Charged(p) THEN credits - 1 ELSE credits)
      /\ ctlq' = (IF IsControl(p) THEN Tail(ctlq) ELSE ctlq)
      /\ dataq' = (IF IsControl(p) THEN dataq ELSE Tail(dataq))
      /\ group' = [group EXCEPT ![p] = 0] /\ raw' = RawAfter(p)
      /\ counted' = [counted EXCEPT ![p] = counted[p] \/ CountsRaw(p)]
      /\ free' = (IF Zcopy(p) THEN free ELSE free - 1) /\ inflight' = inflight + 1
      /\ sched' = [pc |-> "take", p |-> p, group |-> group[p], raw |-> raw]
  BY DEF ScheduleTxTake, hwvars
<1>p. p = Candidate /\ p # NoPacket
  BY <1>1 DEF Sendable
<1> HIDE DEF p
<1>2. /\ p \in Packet /\ pst[p] = "queued"
      /\ IsControl(p) => ctlq # <<>> /\ p = Head(ctlq)
      /\ ~IsControl(p) => dataq # <<>> /\ p = Head(dataq)
  BY <1>p, CandidateFacts
<1>3. /\ ~Zcopy(p) => free > 0
      /\ Zcopy(p) \/ IsControl(p) \/ FrameCount - inflight > ControlFrameReserve
      /\ Charged(p) => credits >= 1
  BY <1>1, <1>p, <1>2, SendableFacts
<1>4. /\ pst' \in [Packet -> PStates] /\ pst'[p] = "hand"
      /\ \A x \in Packet \ {p} : pst'[x] = pst[x]
  BY <1>1, <1>2 DEF Inv, TypeOK, PacketTypes, PStates
<1>5. /\ raw' \in RawStates /\ rail \in Rails /\ group \in [Packet -> Nat] /\ raw \in RawStates
      /\ counted \in [Packet -> BOOLEAN] /\ scheduling \in BOOLEAN
      /\ ctlq \in Seq(Packet) /\ dataq \in Seq(Packet) /\ Len(dataq) \in Nat
      /\ Distinct(ctlq) /\ Distinct(dataq)
  BY <1>1, <1>2, RawAfterFacts DEF Inv, TypeOK, PacketTypes, QueueTypes, SchedTypes, QueuesOK
<1>6. /\ group' \in [Packet -> Nat] /\ counted' \in [Packet -> BOOLEAN]
      /\ sched' \in [pc : SchedPcs, p : Packet \cup {NoPacket}, group : Nat, raw : RawStates]
      /\ sched'.pc = "take" /\ sched'.p = p
  BY <1>1, <1>2, <1>5 DEF SchedPcs
<1>7. OrderOK' /\ HoldsOK' /\ RingOK'
  BY <1>1, <1>2, <1>4, <1>5, RingKept, OrderKept, HoldsKept DEF Inv
<1>8. IsControl(p) => ctlq' \in Seq(Packet) /\ InSeq(ctlq') = InSeq(ctlq) \ {p} /\ Distinct(ctlq')
  <2> SUFFICES ASSUME IsControl(p)
               PROVE  ctlq' \in Seq(Packet) /\ InSeq(ctlq') = InSeq(ctlq) \ {p} /\ Distinct(ctlq')
    OBVIOUS
  <2>1. ctlq \in Seq(Packet) /\ ctlq # <<>> /\ p = Head(ctlq) /\ ctlq' = Tail(ctlq)
    BY <1>1, <1>2, <1>5
  <2>2. ctlq \in Seq(Packet) /\ ctlq' \in Seq(Packet) /\ AtHead(ctlq', p, ctlq)
    BY ONLY <2>1 DEF AtHead
  <2>3. Distinct(ctlq)
    BY <1>5
  <2> QED
    BY ONLY <2>2, <2>3, TailFacts
<1>9. ~IsControl(p) => /\ dataq' \in Seq(Packet) /\ InSeq(dataq') = InSeq(dataq) \ {p}
                       /\ Distinct(dataq') /\ Len(dataq) = Len(dataq') + 1 /\ Len(dataq') \in Nat
                       /\ \A x, y : Before(dataq', x, y) => Before(dataq, x, y)
                       /\ \A x \in InSeq(dataq') : Before(dataq, p, x)
  <2> SUFFICES ASSUME ~IsControl(p)
               PROVE  /\ dataq' \in Seq(Packet) /\ InSeq(dataq') = InSeq(dataq) \ {p}
                      /\ Distinct(dataq') /\ Len(dataq) = Len(dataq') + 1 /\ Len(dataq') \in Nat
                      /\ \A x, y : Before(dataq', x, y) => Before(dataq, x, y)
                      /\ \A x \in InSeq(dataq') : Before(dataq, p, x)
    OBVIOUS
  <2>1. dataq \in Seq(Packet) /\ dataq # <<>> /\ p = Head(dataq) /\ dataq' = Tail(dataq)
    BY <1>1, <1>2, <1>5
  <2>2. dataq \in Seq(Packet) /\ dataq' \in Seq(Packet) /\ AtHead(dataq', p, dataq)
    BY ONLY <2>1 DEF AtHead
  <2>3. Distinct(dataq)
    BY <1>5
  <2>4. Len(dataq) = Len(dataq') + 1 /\ Len(dataq') \in Nat
    BY ONLY <2>2 DEF AtHead
  <2> QED
    BY ONLY <2>2, <2>3, <2>4, TailFacts
<1>10. (IsControl(p) => dataq' = dataq) /\ (~IsControl(p) => ctlq' = ctlq)
  BY <1>1
<1>11. QueuesOK'
  <2>1. CASE IsControl(p)
    BY <2>1, <1>2, <1>4, <1>8, <1>10 DEF Inv, QueuesOK
  <2>2. CASE ~IsControl(p)
    BY <2>2, <1>2, <1>4, <1>9, <1>10 DEF Inv, QueuesOK
  <2> QED
    BY <2>1, <2>2
<1>12. \A x \in Packet : pst[x] \notin InHands
  BY <1>1 DEF Inv, SchedOK, InHand, InHands
<1>13. SchedOK'
  <2>1. scheduling' <=> sched'.pc # "idle"
    BY <1>1, <1>6 DEF Inv, SchedOK
  <2> QED
    BY <1>2, <1>4, <1>6, <1>12, <2>1, SchedMoved DEF InHand
<1>14. InOrder'
  <2>1. \A x, y \in Packet : ~IsControl(x) /\ ~IsControl(y) /\ (Ahead(x, y))' => Ahead(x, y)
    <3> SUFFICES ASSUME NEW x \in Packet, NEW y \in Packet, ~IsControl(x), ~IsControl(y),
                        (Ahead(x, y))'
                 PROVE  Ahead(x, y)
      OBVIOUS
    <3>1. (Ahead(x, y))' = (\/ Before(ring', x, y) \/ Before(dataq', x, y)
                            \/ pst'[x] = "hw" /\ pst'[y] \in {"hand", "attached", "queued"}
                            \/ pst'[x] \in {"hand", "attached"} /\ pst'[y] = "queued")
      BY DEF Ahead, Before, Indices
    <3>2. CASE Before(ring', x, y)
      BY <3>2, <1>1 DEF Ahead
    <3>3. CASE Before(dataq', x, y)
      BY <3>3, <1>9, <1>10 DEF Ahead
    <3>4. CASE pst'[x] = "hw" /\ pst'[y] \in {"hand", "attached", "queued"}
      <4>1. pst[x] = "hw"
        BY <3>4, <1>4
      <4>2. pst[y] \in {"hand", "attached", "queued"}
        BY <3>4, <1>2, <1>4
      <4> QED
        BY <4>1, <4>2 DEF Ahead
    <3>5. CASE pst'[x] \in {"hand", "attached"} /\ pst'[y] = "queued"
      <4>1. x = p
        BY <3>5, <1>4, <1>12 DEF InHands
      <4>2. y \in InSeq(dataq')
        BY <3>5, <1>11 DEF QueuesOK
      <4> QED
        BY <4>1, <4>2, <1>9 DEF Ahead
    <3> QED
      BY <3>1, <3>2, <3>3, <3>4, <3>5
  <2> QED
    BY <1>1, <1>7, <1>11, <2>1, InOrderKept DEF Inv
<1>15. Accounts' /\ CountTypes'
  <2>1. /\ decs \in Nat /\ retiring \in Nat /\ kicks \in Nat /\ held \in Nat /\ free \in Nat
        /\ credits \in Nat /\ inflight \in Nat
    <3>1. CreditMax \in Nat /\ FrameCount \in Nat
      BY <1>5, MsgFacts
    <3> QED
      BY <3>1 DEF Inv, TypeOK, CountTypes
  <2>2. /\ Err = 0 /\ Err' = 0 /\ Bit(pst'[p] \in Fly) = 1 /\ Bit(pst[p] \in Fly) = 0
        /\ Bit(pst'[p] \in Stg) = 1 /\ Bit(pst[p] \in Stg) = 0
        /\ Bit(pst'[p] \in Hnd) = 1 /\ Bit(pst[p] \in Hnd) = 0
    BY <1>1, <1>2, <1>6, <1>4 DEF Err, Fly, Stg, Hnd, Bit
  <2>3. inflight' - 0 - decs' - retiring' - 1 = inflight - 0 - decs - retiring - 0
    BY <1>1, <2>1
  <2>4. free' = (IF Zcopy(p) THEN free ELSE free + 0 - 1) /\ free' \in Nat
    BY <1>1, <1>3, <2>1
  <2>5. /\ IF Charged(p) THEN credits' + held' + 1 = credits + held + 0 ELSE credits' = credits /\ held' = held
        /\ credits' \in Nat
    BY <1>1, <1>3, <2>1
  <2>6. {decs', retiring', kicks', held', free', credits'} \subseteq Nat /\ inflight' \in Int
    BY <1>1, <2>1, <2>4, <2>5
  <2> QED
    BY <1>2, <1>3, <1>4, <2>2, <2>3, <2>4, <2>5, <2>6, AccountsMoved
<1>16. RoomOK'
  <2>1. /\ reserved \in Nat /\ QueueLimit \in Nat
        /\ Len(dataq) + reserved <= QueueLimit + Bit(RingRefuses)
    BY <1>1, <1>5, MsgFacts DEF Inv, TypeOK, QueueTypes, RoomOK, Bit
  <2>2. Len(dataq') + Bit(~IsControl(p)) = Len(dataq) /\ Len(dataq') \in Nat
    BY <1>5, <1>9, <1>10 DEF Bit
  <2>3. Len(dataq') + reserved + Bit(RingRefuses /\ ~IsControl(p)) <= QueueLimit + Bit(RingRefuses)
    BY <1>5, <2>1, <2>2 DEF Bit
  <2> QED
    BY <1>1, <1>6, <2>3 DEF RoomOK, Bit
<1>17. TypeOK'
  <2>1. QueueTypes'
    BY <1>1, <1>5, <1>6, <1>8, <1>9, <1>10 DEF Inv, TypeOK, QueueTypes
  <2>2. SchedTypes'
    BY <1>1, <1>5, <1>6 DEF SchedTypes, NoPacket
  <2>3. RingTypes' /\ PacketTypes'
    BY <1>1, <1>4, <1>6 DEF Inv, TypeOK, PacketTypes, RingTypes
  <2> QED
    BY <1>1, <1>15, <2>1, <2>2, <2>3 DEF Inv, TypeOK
<1> QED
  BY <1>7, <1>11, <1>13, <1>14, <1>15, <1>16, <1>17, AccountForm DEF Inv

-----------------------------------------------------------------------------
(* Packets that are cancelled in their queue.                              *)

\* The packets of G leave their queues, and nothing else moves.
LEMMA DropInv ==
  ASSUME Inv, rail' = rail, NEW G, G \subseteq Packet, \A x \in G : pst[x] = "queued",
         UNCHANGED <<closed, holds, posts, counted, free, inflight, credits, held, scheduling,
                     sched, decs, retiring, ring, hwdone, running>>,
         order' = Without(order, G),
         pst' = [x \in Packet |-> IF x \in G THEN "idle" ELSE pst[x]],
         group' = [x \in Packet |-> IF x \in G THEN 0 ELSE group[x]],
         canceled' \in [Packet -> BOOLEAN], raw' \in RawStates, wire' \in Msg \cup {NoMsg},
         kicks' \in Nat, q' \in QStates, reserved' \in Nat, reserved' <= reserved,
         ctlq' \in Seq(Packet), Distinct(ctlq'), InSeq(ctlq') = InSeq(ctlq) \ G,
         dataq' \in Seq(Packet), Distinct(dataq'), InSeq(dataq') = InSeq(dataq) \ G,
         Len(dataq') <= Len(dataq), \A x, y : Before(dataq', x, y) => Before(dataq, x, y)
  PROVE  Inv'
<1> USE RailSame
<1>1. /\ rail \in Rails /\ pst \in [Packet -> PStates] /\ group \in [Packet -> Nat]
  BY DEF Inv, TypeOK, PacketTypes, QueueTypes
<1>2. /\ \A x \in Packet : pst'[x] = IF x \in G THEN "idle" ELSE pst[x]
      /\ pst' \in [Packet -> PStates] /\ group' \in [Packet -> Nat]
  BY <1>1 DEF PStates
<1>3. QueuesOK'
  BY <1>2 DEF Inv, QueuesOK
<1>4. RingOK' /\ SchedOK' /\ HoldsOK'
  BY <1>1, <1>2, RingKept, SchedKept, HoldsKept DEF Inv
<1>5. /\ order' \in Seq(Packet) /\ OrderOK'
      /\ \A x, y \in Packet : pst'[x] \in OnPath /\ pst'[y] \in OnPath /\ Before(order, x, y)
                                => Before(order', x, y)
  BY <1>2, ReleaseOrder
<1>6. InOrder'
  BY <1>2, <1>3, <1>4, <1>5, LeaveInOrder
<1>7. Accounts' /\ CountTypes'
  <2>1. /\ Flying' = Flying /\ Staged' = Staged /\ StagedData' = StagedData
        /\ ChargedInHand' = ChargedInHand
    BY <1>1, <1>2, CountsKept DEF Fly
  <2>2. Accounts /\ CountTypes
    BY AccountForm DEF Inv, TypeOK
  <2> QED
    BY <2>1, <2>2 DEF Accounts, CountTypes
<1>8. RoomOK'
  <2>1. reserved \in Nat /\ QueueLimit \in Nat /\ Len(dataq) \in Nat /\ Len(dataq') \in Nat
    BY <1>1, MsgFacts DEF Inv, TypeOK, QueueTypes
  <2>2. Len(dataq') + reserved' <= Len(dataq) + reserved /\ RoomOK
    BY <2>1 DEF Inv
  <2>3. UNCHANGED sched
    OBVIOUS
  <2> HIDE DEF Inv
  <2> QED
    BY <2>1, <2>2, <2>3 DEF RoomOK
<1>9. TypeOK'
  <2>1. QueueTypes' /\ RingTypes' /\ PacketTypes'
    BY <1>2, <1>5 DEF Inv, TypeOK, QueueTypes, PacketTypes, RingTypes
  <2>2. SchedTypes'
    BY DEF Inv, TypeOK, SchedTypes, NoPacket
  <2> QED
    BY <1>7, <2>1, <2>2 DEF Inv, TypeOK
<1> QED
  BY <1>3, <1>4, <1>5, <1>6, <1>7, <1>8, <1>9, AccountForm DEF Inv

\* One owner's packets are cancelled: those the NHI holds stay.
LEMMA CancelInv ==
  ASSUME Inv, rail' = rail, NEW m \in Msg, CancelDataOwner(m)
  PROVE  Inv'
<1> USE RailSame
<1> DEFINE mine == {p \in PacketsOf(m) : Tracked(p)}
           G == {p \in mine : pst[p] = "queued"}
<1>1. /\ UNCHANGED <<closed, ctlq, reserved, holds, posts, counted, free, inflight, credits, held>>
      /\ UNCHANGED <<scheduling, sched, decs, retiring, ring, hwdone, running, q>>
      /\ order' = Without(order, G) /\ dataq' = Without(dataq, G)
      /\ pst' = [x \in Packet |-> IF x \in G THEN "idle" ELSE pst[x]]
      /\ group' = [x \in Packet |-> IF x \in G THEN 0 ELSE group[x]]
      /\ canceled' = [x \in Packet |-> IF x \in G THEN FALSE
                        ELSE canceled[x] \/ (x \in mine /\ pst[x] \in {"attached", "hw"})]
      /\ wire' \in {wire, NoMsg} /\ raw' \in {raw, NoRaw}
  BY DEF CancelDataOwner, cvars
<1>2. kicks' \in Nat
  BY DEF CancelDataOwner, Kick, Inv, TypeOK, CountTypes
<1>3. rail \in Rails /\ G \subseteq Packet /\ \A x \in G : pst[x] = "queued" /\ ~IsControl(x)
  <2>1. rail \in Rails
    BY DEF Inv, TypeOK
  <2>2. PacketsOf(m) \subseteq Packet
    BY <2>1, PacketFacts
  <2>3. ASSUME NEW x \in G
        PROVE  ~IsControl(x)
    <3>1. x \in Packet /\ Mode[x[1]] # "control"
      BY <2>2 DEF Tracked
    <3>2. x[1] \in Msg /\ x[2] \in 1..Len(Shape[x[1]]) /\ x = <<x[1], x[2]>>
      BY <2>1, <3>1, PacketFacts
    <3>3. IsControl(<<x[1], x[2]>>) <=> Mode[x[1]] = "control"
      BY <2>1, <3>2, PacketFacts
    <3> QED
      BY <3>1, <3>2, <3>3
  <2> QED
    BY <2>1, <2>2, <2>3
<1>4. canceled \in [Packet -> BOOLEAN] /\ canceled' \in [Packet -> BOOLEAN]
  BY <1>1 DEF Inv, TypeOK, PacketTypes
<1> HIDE DEF mine, G
<1>5. /\ dataq' \in Seq(Packet) /\ Len(dataq') <= Len(dataq) /\ InSeq(dataq') = InSeq(dataq) \ G
      /\ Distinct(dataq') /\ \A x, y : Before(dataq', x, y) => Before(dataq, x, y)
  <2>1. dataq \in Seq(Packet) /\ Distinct(dataq)
    BY DEF Inv, TypeOK, QueueTypes, QueuesOK
  <2> QED
    BY <1>1, <2>1, WithoutFacts
<1>6. ctlq' \in Seq(Packet) /\ Distinct(ctlq') /\ InSeq(ctlq') = InSeq(ctlq) \ G
  <2>1. /\ ctlq \in Seq(Packet) /\ Distinct(ctlq) /\ \A x \in InSeq(ctlq) : IsControl(x)
    BY DEF Inv, TypeOK, QueueTypes, QueuesOK
  <2> QED
    BY <1>1, <1>3, <2>1
<1>7. raw' \in RawStates /\ wire' \in Msg \cup {NoMsg} /\ q' \in QStates /\ reserved' \in Nat
      /\ reserved' <= reserved
  BY <1>1, IdleFacts DEF Inv, TypeOK, SchedTypes, RingTypes, QueueTypes
<1> QED
  BY <1>1, <1>2, <1>3, <1>4, <1>5, <1>6, <1>7, DropInv

\* The quiesce cancels all that is queued.
LEMMA CancelQueuedInv ==
  ASSUME Inv, rail' = rail, QuiesceCancelQueued
  PROVE  Inv'
<1> USE RailSame
<1> DEFINE G == InSeq(ctlq) \cup InSeq(dataq)
<1>1. /\ UNCHANGED <<closed, holds, posts, counted, free, inflight, credits, held>>
      /\ UNCHANGED <<scheduling, sched, kicks, decs, retiring, ring, hwdone, running, wire>>
      /\ order' = Without(order, G) /\ dataq' = <<>> /\ ctlq' = <<>> /\ reserved' = 0
      /\ pst' = [x \in Packet |-> IF x \in G THEN "idle" ELSE pst[x]]
      /\ group' = [x \in Packet |-> IF x \in G THEN 0 ELSE group[x]]
      /\ canceled' = [x \in Packet |-> x \notin G /\ canceled[x]]
      /\ raw' = NoRaw /\ q' = "drain"
  BY DEF QuiesceCancelQueued, cvars, svars, hwvars
<1>2. /\ ctlq \in Seq(Packet) /\ dataq \in Seq(Packet) /\ Len(dataq) \in Nat /\ reserved \in Nat
      /\ kicks \in Nat /\ wire \in Msg \cup {NoMsg} /\ QueuesOK /\ canceled \in [Packet -> BOOLEAN]
  BY DEF Inv, TypeOK, QueueTypes, CountTypes, RingTypes, PacketTypes
<1>3. G \subseteq Packet /\ \A x \in G : pst[x] = "queued"
  BY <1>2, SmallFacts DEF QueuesOK
<1>4. canceled' \in [Packet -> BOOLEAN]
  BY <1>1, <1>2
<1>5. /\ ctlq' \in Seq(Packet) /\ Distinct(ctlq') /\ InSeq(ctlq') = InSeq(ctlq) \ G
      /\ dataq' \in Seq(Packet) /\ Distinct(dataq') /\ InSeq(dataq') = InSeq(dataq) \ G
  BY <1>1, SmallFacts
<1>6. Len(dataq') <= Len(dataq) /\ \A x, y : Before(dataq', x, y) => Before(dataq, x, y)
  <2>1. Len(dataq') = 0
    BY <1>1
  <2> QED
    BY <1>2, <2>1 DEF Before, Indices
<1>7. raw' \in RawStates /\ q' \in QStates /\ reserved' \in Nat /\ reserved' <= reserved
  BY <1>1, <1>2, IdleFacts DEF QStates
<1> HIDE DEF G
<1> QED
  BY <1>1, <1>2, <1>3, <1>4, <1>5, <1>6, <1>7, DropInv

-----------------------------------------------------------------------------
(* The invariant.                                                          *)

\* The invariant holds of a new path,
LEMMA InitInv ==
  ASSUME Init
  PROVE  Inv
<1>1. rail \in Rails
  BY DEF Init
<1>2. /\ closed = FALSE /\ ctlq = <<>> /\ dataq = <<>> /\ order = <<>> /\ ring = <<>>
      /\ reserved = 0 /\ holds = [m \in Msg |-> 0] /\ posts = [m \in Msg |-> 0]
      /\ pst = [p \in Packet |-> "idle"] /\ canceled = [p \in Packet |-> FALSE]
      /\ counted = [p \in Packet |-> FALSE] /\ group = [p \in Packet |-> 0] /\ raw = NoRaw
      /\ free = FrameCount /\ inflight = 0 /\ credits = CreditMax /\ held = 0
      /\ scheduling = FALSE /\ sched = IdleSched /\ kicks = 0 /\ decs = 0 /\ retiring = 0
      /\ hwdone = 0 /\ running = TRUE /\ wire = NoMsg /\ q = "open"
  BY DEF Init
<1>3. /\ FrameCount \in Nat /\ CreditMax \in Nat /\ QueueLimit \in Nat
      /\ \A m \in Msg : Len(Shape[m]) \in Nat
  BY <1>1, MsgFacts
<1>4. TypeOK
  <2>1. QueueTypes
    BY <1>2, SmallFacts DEF QueueTypes
  <2>2. PacketTypes
    BY <1>2 DEF PacketTypes, PStates
  <2>3. SchedTypes
    BY <1>2, IdleFacts DEF SchedTypes
  <2>4. CountTypes
    BY <1>2, <1>3 DEF CountTypes
  <2>5. RingTypes
    <3> Len(<<>>) = 0
      OBVIOUS
    <3> QED
      BY <1>2, SmallFacts DEF RingTypes
  <2> QED
    BY <1>1, <1>2, <2>1, <2>2, <2>3, <2>4, <2>5 DEF TypeOK, QStates
<1>5. QueuesOK /\ RingOK /\ OrderOK
  BY <1>2, SmallFacts DEF QueuesOK, RingOK, OrderOK
<1>6. SchedOK
  BY <1>2, IdleFacts DEF SchedOK, InHand
<1>7. HoldsOK
  BY <1>1, <1>2, <1>3, PacketFacts DEF HoldsOK, Indices
<1>8. InOrder
  <2>1. \A x, y : ~Before(<<>>, x, y)
    BY SmallFacts, BeforeIn
  <2> QED
    BY <1>2, <2>1 DEF InOrder, Ahead
<1>9. Accounts
  <2>1. \A D : D \subseteq Packet => /\ {x \in D : pst[x] \in Fly} = {}
                                     /\ {x \in D : pst[x] \in Stg} = {}
                                     /\ {x \in D : pst[x] \in Hnd} = {}
    BY <1>2 DEF Fly, Stg, Hnd
  <2>2. Plain \subseteq Packet /\ PlainData \subseteq Packet /\ Chargeable \subseteq Packet
    BY DEF Plain, PlainData, Chargeable
  <2>3. Flying = 0 /\ Staged = 0 /\ StagedData = 0 /\ ChargedInHand = 0
    BY <2>1, <2>2, FS_EmptySet DEF Flying, Staged, StagedData, ChargedInHand, CountIn
  <2>4. ControlFrameReserve \in Nat /\ ControlFrameReserve <= FrameCount
    BY <1>1, ReserveFacts
  <2>5. sched.pc = "idle"
    BY <1>2, IdleFacts
  <2> QED
    BY <1>2, <1>3, <2>3, <2>4, <2>5 DEF Accounts
<1>10. RoomOK
  <2> sched.pc = "idle" /\ Len(<<>>) = 0
    BY <1>2, IdleFacts
  <2> QED
    BY <1>2, <1>3 DEF RoomOK
<1> QED
  BY <1>4, <1>5, <1>6, <1>7, <1>8, <1>9, <1>10, AccountForm DEF Inv

\* ... and every step of every thread keeps it.
LEMMA NextInv ==
  ASSUME Inv, [Next]_vars
  PROVE  Inv'
<1>1. CASE UNCHANGED vars
  <2>1. UNCHANGED <<rail, closed, ctlq, dataq, reserved, holds, pst, canceled, group, counted, raw,
                    free, inflight, credits, held, scheduling, sched, kicks, decs, retiring, ring,
                    hwdone, running, q, order, wire, posts>>
    BY <1>1 DEF vars, queues, rawvars, cvars, svars, hwvars
  <2>2. UNCHANGED AccountVars /\ kicks' \in Nat
    BY <2>1 DEF AccountVars, Inv, TypeOK, CountTypes
  <2>3. UNCHANGED SchedVars /\ UNCHANGED queues
    BY <2>1 DEF SchedVars, queues
  <2>4. SchedTypes' /\ SchedOK'
    BY <2>1, <2>3, SchedSame
  <2>5. Accounts' /\ CountTypes'
    BY <2>1, <2>2, AccountsKept
  <2>6. /\ closed' \in BOOLEAN /\ q' \in QStates /\ hwdone' \in 0..Len(ring) /\ running' \in BOOLEAN
        /\ wire' \in Msg \cup {NoMsg}
    BY <2>1 DEF Inv, TypeOK, RingTypes
  <2> QED
    BY <2>1, <2>3, <2>4, <2>5, <2>6, StepInv
<1>2. CASE Next
  <2>0. rail' = rail
    BY <1>2 DEF Next
  <2>1. CASE Post
    <3> PICK m \in Msg : \/ EnqueueControl(m) \/ EnqueueData(m) \/ EnqueueDataList(m) \/ ReserveData(m)
                         \/ EnqueueReservedDataList(m) \/ EnqueueReservedOne(m)
                         \/ ReleaseDataReservation(m)
      BY <2>1 DEF Post
    <3>1. CASE EnqueueControl(m)
      BY <3>1, <2>0, EnqueueControlInv
    <3>2. CASE EnqueueData(m) \/ EnqueueDataList(m) \/ EnqueueReservedDataList(m)
      BY <3>2, <2>0, EnqueueInv
    <3>3. CASE EnqueueReservedOne(m)
      BY <3>3, <2>0, EnqueueOneInv
    <3>4. CASE ReserveData(m) \/ ReleaseDataReservation(m)
      BY <3>4, <2>0, ReserveInv
    <3> QED
      BY <3>1, <3>2, <3>3, <3>4
  <2>2. CASE Scheduler \/ ScheduleTxRequeue
    <3>1. CASE ScheduleTxEnter \/ ScheduleTxStop \/ FailExit
      BY <3>1, <2>0, LoopInv
    <3>2. CASE ScheduleTxTake
      BY <3>2, <2>0, TakeInv
    <3>3. CASE ScheduleTxAttach
      BY <3>3, <2>0, AttachInv
    <3>4. CASE ScheduleTxPosted
      BY <3>4, <2>0, PostedInv
    <3>5. CASE ScheduleTxRequeue
      BY <3>5, <2>0, RequeueInv
    <3>6. CASE ScheduleTxFail
      BY <3>6, <2>0, FailInv
    <3>7. CASE FailRelease
      BY <3>7, <2>0, FailReleaseInv
    <3>8. CASE RequeueDec \/ FailDec
      BY <3>8, <2>0, DecInv
    <3> QED
      BY <2>2, <3>1, <3>2, <3>3, <3>4, <3>5, <3>6, <3>7, <3>8 DEF Scheduler
  <2>3. CASE Callback
    <3>1. CASE TxComplete
      BY <3>1, <2>0, CompleteInv
    <3>2. CASE TxRetireOne
      BY <3>2, <2>0, DecInv
    <3>3. CASE \E p \in Packet : TxCompleteRelease(p)
      BY <3>3, <2>0, CompleteReleaseInv
    <3> QED
      BY <2>3, <3>1, <3>2, <3>3 DEF Callback
  <2>4. CASE PeerCredit
    BY <2>4, <2>0, PeerCreditInv DEF PeerCredit
  <2>5. CASE Cancel
    BY <2>5, <2>0, CancelInv DEF Cancel
  <2>6. CASE HwConsume \/ Quiesce
    <3>1. CASE RingStopCallback
      BY <3>1, <2>0, RingStopInv
    <3>2. CASE QuiesceCancelQueued
      BY <3>2, <2>0, CancelQueuedInv
    <3>3. CASE \/ HwConsume \/ QuiesceClose \/ QuiesceDrained \/ QuiesceBarrierStop
               \/ QuiesceBarrier \/ QuarantineLift
      BY <3>3, <2>0, QuietQuiesceInv
    <3> QED
      BY <2>6, <3>1, <3>2, <3>3 DEF Quiesce
  <2> QED
    BY <1>2, <2>1, <2>2, <2>3, <2>4, <2>5, <2>6 DEF Next, Step
<1> QED
  BY <1>1, <1>2

\* The inductive invariant: queues, ring, hands and order describe the same
\* packets, and every counter counts them.
THEOREM PathTxInvariant == Spec => []Inv
<1>1. Init => Inv
  BY InitInv
<1>2. Inv /\ [Next]_vars => Inv'
  BY NextInv
<1> QED
  BY <1>1, <1>2, PTL DEF Spec

\* Every counter the scheduler, the callbacks and the drain decide by is exact
\* on every rail: tx_inflight, the staging frames and their control reserve, the
\* queue bound and the credit window, whatever the interleaving of posters,
\* scheduler, completions and cancellations.
THEOREM CountersExactThm == Spec => []CountersExact
<1>1. Inv => CountersExact
  <2> SUFFICES ASSUME Inv
               PROVE  QueueBound
    BY DEF Inv, CountersExact
  <2>1. reserved \in Nat /\ QueueLimit \in Nat /\ Len(dataq) \in Nat
    BY MsgFacts DEF Inv, TypeOK, QueueTypes
  <2> QED
    BY <2>1 DEF Inv, RoomOK, QueueBound
<1> QED
  BY <1>1, PathTxInvariant, PTL

\* A packet whose descriptor the NHI owns is not released: cancellation only
\* marks it (tbv_path_cancel_data_match()).
THEOREM DmaKeepsOwnerThm == Spec => []DmaKeepsOwner
<1>1. Inv => DmaKeepsOwner
  <2> SUFFICES ASSUME Inv, NEW i \in Indices(ring)
               PROVE  pst[ring[i]] = "hw"
    BY DEF DmaKeepsOwner
  <2>1. ring \in Seq(Packet)
    BY DEF Inv, TypeOK, RingTypes
  <2>2. ring[i] \in Packet /\ ring[i] \in InSeq(ring)
    BY <2>1 DEF Indices, InSeq
  <2> QED
    BY <2>2 DEF Inv, RingOK
<1> QED
  BY <1>1, PathTxInvariant, PTL

-----------------------------------------------------------------------------
(* Quiesce.                                                                *)

Live == {"queued", "hand", "attached", "hw", "completing"}

\* An in-flight count of zero and empty queues leave no packet anywhere.
LEMMA ZeroIsQuiet ==
  ASSUME Inv, inflight = 0, ctlq = <<>>, dataq = <<>>
  PROVE  \A p \in Packet : pst[p] \notin Live
<1>1. rail \in Rails /\ Accounts /\ decs \in Nat /\ retiring \in Nat
  BY AccountForm DEF Inv, TypeOK, CountTypes
<1>2. Flying \in Nat
  BY <1>1, CountBounds
<1>3. Flying = 0
  BY <1>1, <1>2 DEF Accounts
<1>4. {x \in Packet : pst[x] \in Fly} = {}
  <2> DEFINE F == {x \in Packet : pst[x] \in Fly}
  <2>1. IsFiniteSet(Packet) /\ F \in SUBSET Packet
    BY <1>1, PacketFacts
  <2>2. IsFiniteSet(F)
    BY <2>1, FS_Subset
  <2> QED
    BY <1>3, <2>2, FS_EmptySet DEF Flying, CountIn
<1>5. \A p \in Packet : pst[p] # "queued"
  BY SmallFacts DEF Inv, QueuesOK
<1> QED
  BY <1>4, <1>5 DEF Live, Fly

\* The two verdicts, packet by packet.
LEMMA QuietForm ==
  /\ QuarantinedIsQuiet <=> (q = "quarantined" => \A p \in Packet : pst[p] \notin Live)
  /\ QuarantinedIsQuiet' <=> (q' = "quarantined" => \A p \in Packet' : pst'[p] \notin Live)
  /\ RetiredIsQuiet <=> (TxRetired => \A p \in Packet : pst[p] \notin Live)
BY DEF QuarantinedIsQuiet, RetiredIsQuiet, InState, Live

\* Steps that leave the quiesce, the queues and the packets' places alone, or
\* only take packets away.
LEMMA QuiesceKept ==
  ASSUME rail' = rail, QuiesceOK, q' = q, closed' = closed,
         q \in {"drain", "stopping", "failed", "quarantined"} => ctlq' = <<>> /\ dataq' = <<>>,
         q = "quarantined" => \A p \in Packet : pst[p] \notin Live => pst'[p] \notin Live
  PROVE  QuiesceOK'
<1> USE RailSame
<1>1. QuarantinedIsQuiet'
  BY QuietForm DEF QuiesceOK
<1> QED
  BY <1>1 DEF QuiesceOK

\* A new path is open.
LEMMA QuiesceOKInit ==
  ASSUME Init
  PROVE  QuiesceOK
BY DEF Init, QuiesceOK, QuarantinedIsQuiet

\* A rail that is quiesced does not put packets back.
LEMMA QuiesceOKNext ==
  ASSUME NoLateRequeue, Inv, QuiesceOK, [Next]_vars
  PROVE  QuiesceOK'
<1>1. CASE UNCHANGED vars
  <2>1. UNCHANGED <<rail, closed, ctlq, dataq, pst, q>>
    BY <1>1 DEF vars, queues
  <2> QED
    BY <2>1, QuiesceKept DEF QuiesceOK
<1>2. CASE Next
  <2>0. rail' = rail
    BY <1>2 DEF Next
  <2>a. q # "open" => closed /\ Quiesces
    BY DEF QuiesceOK
  <2>b. q \in {"drain", "stopping", "failed", "quarantined"} => ctlq = <<>> /\ dataq = <<>>
    BY DEF QuiesceOK
  <2>c. pst \in [Packet -> PStates]
    BY DEF Inv, TypeOK, PacketTypes
  <2>1. CASE Post
    <3> PICK m \in Msg : \/ EnqueueControl(m) \/ EnqueueData(m) \/ EnqueueDataList(m) \/ ReserveData(m)
                         \/ EnqueueReservedDataList(m) \/ EnqueueReservedOne(m)
                         \/ ReleaseDataReservation(m)
      BY <2>1 DEF Post
    <3>1. CASE ReserveData(m) \/ ReleaseDataReservation(m)
      <4>1. UNCHANGED <<closed, ctlq, dataq, pst, q>>
        BY <3>1 DEF ReserveData, ReleaseDataReservation
      <4> QED
        BY <4>1, <2>0, <2>b, QuiesceKept
    <3>2. CASE ~(ReserveData(m) \/ ReleaseDataReservation(m))
      <4>1. ~closed /\ UNCHANGED <<closed, q>>
        BY <3>2 DEF EnqueueControl, EnqueueData, EnqueueDataList, EnqueueReservedDataList,
                    EnqueueReservedOne, Admits
      <4>2. q = "open"
        BY <4>1, <2>a
      <4> QED
        BY <4>1, <4>2, <2>0, QuiesceKept
    <3> QED
      BY <3>1, <3>2
  <2>2. CASE Scheduler \/ ScheduleTxRequeue
    <3>1. CASE ScheduleTxEnter \/ ScheduleTxStop \/ FailExit \/ RequeueDec \/ FailDec
      <4>1. UNCHANGED <<closed, ctlq, dataq, pst, q>>
        BY <3>1 DEF ScheduleTxEnter, ScheduleTxStop, FailExit, RequeueDec, FailDec, queues
      <4> QED
        BY <4>1, <2>0, <2>b, QuiesceKept
    <3>2. CASE ScheduleTxTake
      <4>1. ~closed /\ UNCHANGED <<closed, q>>
        BY <3>2 DEF ScheduleTxTake, Sendable, Admits
      <4>2. q = "open"
        BY <4>1, <2>a
      <4> QED
        BY <4>1, <4>2, <2>0, QuiesceKept
    <3>3. CASE ScheduleTxRequeue
      <4>1. RingRefuses /\ UNCHANGED <<closed, q>>
        BY <3>3 DEF ScheduleTxRequeue
      <4>2. ~Quiesces
        BY <4>1 DEF NoLateRequeue, Inv, TypeOK, RingRefuses, Quiesces
      <4>3. q = "open"
        BY <4>2, <2>a
      <4> QED
        BY <4>1, <4>3, <2>0, QuiesceKept
    <3>4. CASE ScheduleTxAttach \/ ScheduleTxPosted \/ ScheduleTxFail \/ FailRelease
      <4>1. UNCHANGED <<closed, ctlq, dataq, q>>
        BY <3>4 DEF ScheduleTxAttach, ScheduleTxPosted, ScheduleTxFail, FailRelease, queues
      <4>2. sched.pc \in DOMAIN InHand
        BY <3>4 DEF ScheduleTxAttach, ScheduleTxPosted, ScheduleTxFail, FailRelease, InHand
      <4>3. sched.p \in Packet /\ \A x \in Packet \ {sched.p} : pst'[x] = pst[x]
        BY <3>4, <4>2, <2>c, HandFacts
           DEF ScheduleTxAttach, ScheduleTxPosted, ScheduleTxFail, FailRelease
      <4>4. pst[sched.p] \notin Live => pst'[sched.p] \notin Live
        <5>1. CASE FailRelease
          BY <5>1, <4>3, <2>c DEF FailRelease, Live
        <5>2. CASE ScheduleTxAttach \/ ScheduleTxPosted \/ ScheduleTxFail
          <6>1. sched.pc \in {"take", "ring"}
            BY <5>2 DEF ScheduleTxAttach, ScheduleTxPosted, ScheduleTxFail
          <6>2. pst[sched.p] \in {"hand", "attached"}
            BY <6>1, <4>2 DEF Inv, SchedOK, InHand
          <6> QED
            BY <6>2 DEF Live
        <5> QED
          BY <3>4, <5>1, <5>2
      <4> QED
        BY <4>1, <4>3, <4>4, <2>0, <2>b, QuiesceKept
    <3> QED
      BY <2>2, <3>1, <3>2, <3>3, <3>4 DEF Scheduler
  <2>3. CASE Callback
    <3>1. CASE TxRetireOne
      <4>1. UNCHANGED <<closed, ctlq, dataq, pst, q>>
        BY <3>1 DEF TxRetireOne, queues
      <4> QED
        BY <4>1, <2>0, <2>b, QuiesceKept
    <3>2. CASE TxComplete
      <4>1. UNCHANGED <<closed, ctlq, dataq, q>> /\ pst' = [pst EXCEPT ![Head(ring)] = "completing"]
            /\ hwdone > 0 /\ ring' = Tail(ring)
        BY <3>2 DEF TxComplete, queues
      <4>2. ring # <<>>
        BY <4>1 DEF Inv, TypeOK, RingTypes
      <4>3. Head(ring) \in Packet /\ pst[Head(ring)] = "hw"
        BY <4>1, <4>2, RingPop
      <4>4. \A p \in Packet : pst[p] \notin Live => pst'[p] \notin Live
        <5> PICK h : h = Head(ring)
          OBVIOUS
        <5>1. h \in Packet /\ pst[h] = "hw" /\ pst' = [pst EXCEPT ![h] = "completing"]
          BY <4>1, <4>3
        <5> QED
          BY <5>1, <2>c DEF Live
      <4> QED
        BY <4>1, <4>4, <2>0, <2>b, QuiesceKept
    <3>3. CASE \E p \in Packet : TxCompleteRelease(p)
      <4> PICK p \in Packet : TxCompleteRelease(p)
        BY <3>3
      <4>1. UNCHANGED <<closed, ctlq, dataq, q>> /\ pst' = [pst EXCEPT ![p] = "idle"]
        BY DEF TxCompleteRelease
      <4>2. \A x \in Packet : pst[x] \notin Live => pst'[x] \notin Live
        BY <4>1, <2>c DEF Live
      <4> QED
        BY <4>1, <4>2, <2>0, <2>b, QuiesceKept
    <3> QED
      BY <2>3, <3>1, <3>2, <3>3 DEF Callback
  <2>4. CASE PeerCredit \/ HwConsume
    <3>1. UNCHANGED <<closed, ctlq, dataq, pst, q>>
      BY <2>4 DEF PeerCredit, AddRemoteRxCredits, HwConsume, queues
    <3> QED
      BY <3>1, <2>0, <2>b, QuiesceKept
  <2>5. CASE Cancel
    <3> PICK m \in Msg : CancelDataOwner(m)
      BY <2>5 DEF Cancel
    <3> PICK G : /\ UNCHANGED <<closed, ctlq, q>> /\ dataq' = Without(dataq, G)
                 /\ pst' = [p \in Packet |-> IF p \in G THEN "idle" ELSE pst[p]]
      BY DEF CancelDataOwner
    <3>1. dataq = <<>> => dataq' = <<>>
      <4>1. dataq \in Seq(Packet)
        BY DEF Inv, TypeOK, QueueTypes
      <4>2. dataq' \in Seq(Packet) /\ InSeq(dataq') = InSeq(dataq) \ G
        BY <4>1, WithoutFacts
      <4> QED
        BY <4>2, SmallFacts
    <3>2. \A x \in Packet : pst[x] \notin Live => pst'[x] \notin Live
      BY DEF Live
    <3> QED
      BY <3>1, <3>2, <2>0, <2>b, QuiesceKept
  <2>6. CASE Quiesce
    <3> USE RailSame
    <3>1. CASE RingStopCallback
      <4>1. UNCHANGED <<closed, ctlq, dataq, q>> /\ q = "stopping"
        BY <3>1 DEF RingStopCallback
      <4> QED
        BY <4>1, <2>0, <2>b, QuiesceKept
    <3>2. CASE QuiesceClose \/ QuiesceDrained \/ QuarantineLift
      <4>1. q' = "open" \/ (q' = "cancel" /\ closed' /\ Quiesces)
        BY <3>2 DEF QuiesceClose, QuiesceDrained, QuarantineLift
      <4> QED
        BY <4>1, <2>0 DEF QuiesceOK, QuarantinedIsQuiet
    <3>3. CASE QuiesceCancelQueued
      <4>1. q = "cancel" /\ q' = "drain" /\ closed' = closed /\ ctlq' = <<>> /\ dataq' = <<>>
        BY <3>3 DEF QuiesceCancelQueued
      <4> QED
        BY <4>1, <2>0, <2>a DEF QuiesceOK, QuarantinedIsQuiet
    <3>4. CASE QuiesceBarrierStop
      <4>1. q = "drain" /\ q' = "stopping" /\ UNCHANGED <<closed, ctlq, dataq>>
        BY <3>4 DEF QuiesceBarrierStop, queues
      <4> QED
        BY <4>1, <2>0, <2>a, <2>b DEF QuiesceOK, QuarantinedIsQuiet
    <3>5. CASE QuiesceBarrier
      <4>1. /\ q = "stopping" /\ UNCHANGED <<closed, ctlq, dataq, pst>>
            /\ q' = "failed" \/ (q' = "quarantined" /\ inflight = 0)
        BY <3>5 DEF QuiesceBarrier, queues
      <4>2. q' = "quarantined" => \A p \in Packet : pst'[p] \notin Live
        BY <4>1, <2>b, ZeroIsQuiet
      <4>3. QuarantinedIsQuiet'
        BY <2>0, <4>2, QuietForm
      <4> QED
        BY <4>1, <4>3, <2>0, <2>a, <2>b DEF QuiesceOK
    <3> QED
      BY <2>6, <3>1, <3>2, <3>3, <3>4, <3>5 DEF Quiesce
  <2> QED
    BY <1>2, <2>1, <2>2, <2>3, <2>4, <2>5, <2>6 DEF Next, Step
<1> QED
  BY <1>1, <1>2

\* The drain's verdict: tbv_path_tx_retired() holds only when no packet of the
\* path can still reach the wire, on every rail.
THEOREM RetiredIsQuietThm == Spec => []RetiredIsQuiet
<1>1. Inv => RetiredIsQuiet
  BY ZeroIsQuiet, QuietForm DEF TxRetired
<1> QED
  BY <1>1, PathTxInvariant, PTL

\* Both verdicts that let a rail be bound again: nothing queued, in the
\* scheduler's hands or in the ring survives the drain or the forced barrier,
\* provided the rings of the rails that are quiesced take what they are given
\* while they run (a refused frame would be put back after the cancel).
THEOREM QuiescedIsQuietThm ==
  ASSUME NoLateRequeue
  PROVE  Spec => []QuiescedIsQuiet
<1>1. Init => QuiesceOK
  BY QuiesceOKInit
<1>2. Inv /\ QuiesceOK /\ [Next]_vars => QuiesceOK'
  BY QuiesceOKNext
<1>3. QuiesceOK /\ RetiredIsQuiet => QuiescedIsQuiet
  BY DEF QuiesceOK, QuiescedIsQuiet
<1> QED
  BY <1>1, <1>2, <1>3, PathTxInvariant, RetiredIsQuietThm, PTL DEF Spec

-----------------------------------------------------------------------------
(* The order on the wire.                                                  *)

\* The place of an element is the number of those before it.
LEMMA Position ==
  ASSUME NEW S, NEW s \in Seq(S), Distinct(s), NEW i \in 1..Len(s)
  PROVE  Cardinality({x \in InSeq(s) : Before(s, x, s[i])}) = i - 1
<1> DEFINE B == {x \in InSeq(s) : Before(s, x, s[i])}
           f == [j \in 1..(i - 1) |-> s[j]]
<1>1. Len(s) \in Nat /\ i \in Nat /\ i >= 1 /\ i - 1 \in Nat
  OBVIOUS
<1>2. \A j \in 1..(i - 1) : j \in 1..Len(s) /\ j < i
  BY <1>1
<1>3. \A j \in 1..(i - 1) : s[j] \in B
  BY <1>2 DEF Before, InSeq, Indices
<1>4. \A j, k \in 1..(i - 1) : s[j] = s[k] => j = k
  BY <1>2 DEF Distinct, Indices
<1>5. ASSUME NEW x \in B
      PROVE  \E j \in 1..(i - 1) : s[j] = x
  <2> PICK j \in 1..Len(s), k \in 1..Len(s) : j < k /\ s[j] = x /\ s[k] = s[i]
    BY DEF Before, Indices
  <2>1. k = i
    BY DEF Distinct, Indices
  <2>2. j \in 1..(i - 1)
    BY <1>1, <2>1
  <2> QED
    BY <2>2
<1> HIDE DEF B
<1>6. f \in Bijection(1..(i - 1), B)
  BY <1>3, <1>4, <1>5 DEF Bijection, Injection, Surjection, IsInjective
<1>7. ExistsBijection(1..(i - 1), B)
  BY <1>6 DEF ExistsBijection
<1>9. IsFiniteSet(1..(i - 1)) /\ Cardinality(1..(i - 1)) = i - 1
  <2> PICK n \in Nat : n = i - 1
    BY <1>1
  <2>1. IsFiniteSet(1..n) /\ Cardinality(1..n) = n
    BY FS_Interval
  <2> QED
    BY <2>1
<1>10. Cardinality(B) = i - 1
  BY <1>7, <1>9, FS_Bijection
<1> QED
  BY <1>10 DEF B

\* Members of a sequence are ordered, one way.
LEMMA BeforeTotal ==
  ASSUME NEW S, NEW s \in Seq(S), Distinct(s), NEW x \in InSeq(s), NEW y \in InSeq(s)
  PROVE  /\ x # y => Before(s, x, y) \/ Before(s, y, x)
         /\ ~(Before(s, x, y) /\ Before(s, y, x)) /\ ~Before(s, x, x)
<1>1. Len(s) \in Nat /\ \A i \in 1..Len(s) : i \in Nat
  OBVIOUS
<1>2. PICK i \in 1..Len(s), j \in 1..Len(s) : s[i] = x /\ s[j] = y
  BY DEF InSeq, Indices
<1>3. x # y => i < j \/ j < i
  BY <1>1, <1>2
<1>4. Before(s, x, y) => i < j
  BY <1>1, <1>2 DEF Before, Distinct, Indices
<1>5. Before(s, y, x) => j < i
  BY <1>1, <1>2 DEF Before, Distinct, Indices
<1>6. ~Before(s, x, x)
  BY <1>1, <1>2 DEF Before, Distinct, Indices
<1> QED
  BY <1>1, <1>2, <1>3, <1>4, <1>5, <1>6 DEF Before, Indices

\* Two sequences without repetition that have the same members in the same
\* order are equal.
LEMMA SameOrder ==
  ASSUME NEW S, NEW s \in Seq(S), NEW t \in Seq(S), Distinct(s), Distinct(t),
         InSeq(s) = InSeq(t), \A x, y \in InSeq(s) : Before(s, x, y) => Before(t, x, y)
  PROVE  s = t
<1> DEFINE At(u, x) == Cardinality({y \in InSeq(u) : Before(u, y, x)})
<1>1. \A x, y \in InSeq(s) : Before(s, x, y) <=> Before(t, x, y)
  <2> TAKE x, y \in InSeq(s)
  <2>1. /\ x # y => Before(s, x, y) \/ Before(s, y, x)
        /\ ~(Before(t, x, y) /\ Before(t, y, x)) /\ (x = y => ~Before(t, x, y))
    BY BeforeTotal
  <2> QED
    BY <2>1
<1>2. \A x \in InSeq(s) : At(s, x) = At(t, x)
  <2> TAKE x \in InSeq(s)
  <2> {y \in InSeq(s) : Before(s, y, x)} = {y \in InSeq(t) : Before(t, y, x)}
    BY <1>1
  <2> QED
    OBVIOUS
<1>3. /\ \A i \in 1..Len(s) : s[i] \in InSeq(s) /\ At(s, s[i]) = i - 1
      /\ \A i \in 1..Len(t) : t[i] \in InSeq(t) /\ At(t, t[i]) = i - 1
  BY Position DEF InSeq, Indices
<1> HIDE DEF At
<1>4. Len(s) \in Nat /\ Len(t) \in Nat
  OBVIOUS
<1>5. \A i \in 1..Len(s) : i \in 1..Len(t) /\ t[i] = s[i]
  <2> TAKE i \in 1..Len(s)
  <2> PICK j \in 1..Len(t) : t[j] = s[i]
    BY <1>3 DEF InSeq, Indices
  <2>1. i - 1 = j - 1
    BY <1>2, <1>3
  <2>2. i = j
    BY <1>4, <2>1
  <2> QED
    BY <2>2
<1>6. \A i \in 1..Len(t) : i \in 1..Len(s)
  <2> TAKE i \in 1..Len(t)
  <2> PICK j \in 1..Len(s) : s[j] = t[i]
    BY <1>3 DEF InSeq, Indices
  <2>1. i - 1 = j - 1
    BY <1>2, <1>3
  <2>2. i = j
    BY <1>4, <2>1
  <2> QED
    BY <2>2
<1>7. Len(s) = Len(t)
  <2>1. Len(s) > 0 => Len(s) \in 1..Len(t)
    BY <1>4, <1>5
  <2>2. Len(t) > 0 => Len(t) \in 1..Len(s)
    BY <1>4, <1>6
  <2> QED
    BY <1>4, <2>1, <2>2
<1> QED
  BY <1>5, <1>7

\* Data packets reach the wire in the order in which the queue accepted them.
LEMMA WireOrderInv ==
  ASSUME Inv
  PROVE  WireOrder
<1> DEFINE C == {p \in Packet : IsControl(p)}
           data == Without(ring, C)
           hand == IF sched.pc \in {"take", "ring"} /\ ~IsControl(sched.p) THEN <<sched.p>> ELSE <<>>
           front == data \o hand
           path == front \o dataq
           rest == Without(order, Packet \ InSeq(path))
<1>1. /\ rail \in Rails /\ ring \in Seq(Packet) /\ dataq \in Seq(Packet) /\ order \in Seq(Packet)
      /\ Distinct(ring) /\ Distinct(dataq) /\ Distinct(order)
  BY DEF Inv, TypeOK, QueueTypes, RingTypes, RingOK, QueuesOK, OrderOK
<1>2. /\ data \in Seq(Packet) /\ InSeq(data) = InSeq(ring) \ C /\ Distinct(data)
      /\ \A x, y : Before(data, x, y) => Before(ring, x, y)
  BY <1>1, WithoutFacts
<1>3. /\ hand \in Seq(Packet) /\ Distinct(hand) /\ \A x, y : ~Before(hand, x, y)
      /\ \A x \in InSeq(hand) : x \in Packet /\ ~IsControl(x) /\ pst[x] \in {"hand", "attached"}
  <2>1. CASE sched.pc \in {"take", "ring"} /\ ~IsControl(sched.p)
    <3>1. hand = <<sched.p>> /\ sched.pc \in DOMAIN InHand
      BY <2>1 DEF InHand
    <3>2. sched.p \in Packet /\ pst[sched.p] = InHand[sched.pc]
      BY <3>1, HandFacts
    <3>3. pst[sched.p] \in {"hand", "attached"}
      BY <2>1, <3>2 DEF InHand
    <3>4. /\ <<sched.p>> \in Seq(Packet) /\ Distinct(<<sched.p>>) /\ InSeq(<<sched.p>>) = {sched.p}
          /\ Len(<<sched.p>>) = 1
      BY <3>2, SmallFacts
    <3>5. \A x, y : ~Before(<<sched.p>>, x, y)
      BY <3>4 DEF Before, Indices
    <3> QED
      BY <2>1, <3>1, <3>2, <3>3, <3>4, <3>5
  <2>2. CASE ~(sched.pc \in {"take", "ring"} /\ ~IsControl(sched.p))
    <3>1. hand = <<>>
      BY <2>2
    <3>2. \A x, y : ~Before(<<>>, x, y)
      BY SmallFacts, BeforeIn
    <3> QED
      BY <3>1, <3>2, SmallFacts
  <2> QED
    BY <2>1, <2>2
<1> HIDE DEF data, hand
<1>4. /\ \A x \in InSeq(data) : x \in Packet /\ ~IsControl(x) /\ pst[x] = "hw"
      /\ \A x \in InSeq(dataq) : x \in Packet /\ ~IsControl(x) /\ pst[x] = "queued"
  BY <1>1, <1>2, SmallFacts DEF Inv, RingOK, QueuesOK
<1>5. /\ front \in Seq(Packet) /\ InSeq(front) = InSeq(data) \cup InSeq(hand) /\ Distinct(front)
  <2> InSeq(data) \cap InSeq(hand) = {}
    BY <1>3, <1>4
  <2> QED
    BY <1>2, <1>3, ConcatFacts
<1>6. \A x, y : Before(front, x, y) => \/ Before(data, x, y)
                                       \/ x \in InSeq(data) /\ y \in InSeq(hand)
  BY <1>2, <1>3, BeforeConcat
<1> HIDE DEF front
<1>7. /\ path \in Seq(Packet) /\ Distinct(path)
      /\ InSeq(path) = InSeq(data) \cup InSeq(hand) \cup InSeq(dataq)
  <2>1. InSeq(front) \cap InSeq(dataq) = {}
    BY <1>3, <1>4, <1>5
  <2>2. /\ path \in Seq(Packet) /\ Distinct(path) /\ InSeq(path) = InSeq(front) \cup InSeq(dataq)
    BY <1>1, <1>5, <2>1, ConcatFacts
  <2> QED
    BY <1>5, <2>2
<1>8. \A x, y : Before(path, x, y) => \/ Before(front, x, y) \/ Before(dataq, x, y)
                                      \/ x \in InSeq(front) /\ y \in InSeq(dataq)
  BY <1>1, <1>5, BeforeConcat
<1> HIDE DEF path
<1>9. \A x \in InSeq(path) : x \in Packet /\ ~IsControl(x) /\ x \in InSeq(order)
  <2>1. \A x \in InSeq(path) : x \in Packet /\ ~IsControl(x) /\ pst[x] # "idle"
    BY <1>3, <1>4, <1>7
  <2> QED
    BY <2>1 DEF Inv, OrderOK
<1>10. \A x, y \in InSeq(path) : Before(path, x, y) => Before(order, x, y)
  <2> SUFFICES ASSUME NEW x \in InSeq(path), NEW y \in InSeq(path), Before(path, x, y)
               PROVE  Ahead(x, y)
    BY <1>9 DEF Inv, InOrder
  <2>1. CASE Before(front, x, y)
    BY <2>1, <1>2, <1>3, <1>4, <1>6 DEF Ahead
  <2>2. CASE Before(dataq, x, y)
    BY <2>2 DEF Ahead
  <2>3. CASE x \in InSeq(front) /\ y \in InSeq(dataq)
    BY <2>3, <1>3, <1>4, <1>5 DEF Ahead
  <2> QED
    BY <1>8, <2>1, <2>2, <2>3
<1>11. /\ rest \in Seq(Packet) /\ InSeq(rest) = InSeq(path) /\ Distinct(rest)
       /\ \A x, y \in InSeq(path) : Before(order, x, y) => Before(rest, x, y)
  <2>1. /\ rest \in Seq(Packet) /\ InSeq(rest) = InSeq(order) \ (Packet \ InSeq(path))
        /\ Distinct(rest)
        /\ \A x, y : Before(rest, x, y) <=> /\ Before(order, x, y) /\ x \notin Packet \ InSeq(path)
                                            /\ y \notin Packet \ InSeq(path)
    BY <1>1, WithoutFacts
  <2>2. InSeq(order) \subseteq Packet
    BY <1>1, SmallFacts
  <2> HIDE DEF rest
  <2> QED
    BY <1>9, <2>1, <2>2
<1> HIDE DEF rest
<1>12. path = rest
  BY <1>7, <1>10, <1>11, SameOrder
<1> QED
  BY <1>12 DEF WireOrder, path, front, rest, data, hand, C

\* Data packets reach the ring in the order in which they were accepted, on
\* every rail, also when the ring refuses a frame and the scheduler puts it back
\* at the head of the queue while others post, complete and cancel.
THEOREM WireOrderThm == Spec => []WireOrder
<1>1. Inv => WireOrder
  BY WireOrderInv
<1> QED
  BY <1>1, PathTxInvariant, PTL
-----------------------------------------------------------------------------
(* Page streams.                                                           *)

\* The last page of m's stream.
LastOf(m) == <<m, Len(Shape[m])>>

\* tx_raw_stream_{active,owner,end_seen} keep the path to m's stream.
RawIs(r, m) == r.active = TRUE /\ r.owner = m /\ r.end = FALSE

\* The scheduler is about to submit a packet.
Submits == sched.pc \in {"take", "ring"}

\* It is the header of m's stream, whose pages are all queued.
Heads(m) == Submits /\ sched.p = <<m, 1>> /\ Mode[m] = "list" /\ StreamWhole(m)

\* A stream whose header was submitted, or is about to be, keeps the path until
\* its last page is submitted.
StreamOK ==
  /\ Quiesces => wire = NoMsg
  /\ ~Quiesces => running = TRUE /\ q = "open"
  /\ \A m \in Msg : Heads(m) => RawIs(raw, m) /\ wire = NoMsg
  /\ \A m \in Msg : wire = m =>
       /\ Mode[m] = "list" /\ RawIs(raw, m)
       /\ pst[LastOf(m)] \in {"queued", "hand", "attached"}
       /\ Submits => sched.p[1] = m /\ RawIs(sched.raw, m)

\* A page stream is a header, pages and a last page, posted as one list.
LEMMA StreamFacts ==
  ASSUME rail \in Rails
  PROVE  /\ Quiesces \in BOOLEAN
         /\ \A m \in Msg : Mode[m] = "list" =>
              /\ ~Quiesces /\ LastOf(m) \in Packet /\ <<m, 1>> \in Packet
              /\ KindOf(LastOf(m)) = "end" /\ Len(Shape[m]) \in 2..Len(Shape[m])
         /\ \A p \in Packet : KindOf(p) \in {"start", "page", "end"} => Mode[p[1]] = "list"
         /\ \A p \in Packet : KindOf(p) = "start" => p = <<p[1], 1>>
         /\ \A p \in Packet : KindOf(p) = "end" => p = LastOf(p[1])
<1> USE MsgFacts, PacketFacts
<1>1. IsRail(rail)
  BY PathTxAssumption
<1>2. Quiesces \in BOOLEAN
  BY <1>1 DEF IsRail, Quiesces
<1>3. /\ \A m \in Msg : Mode[m] = "list" => IsStream(Shape[m]) /\ ~Quiesces
      /\ \A m \in Msg : Mode[m] # "list" =>
           \A i \in 1..Len(Shape[m]) : Shape[m][i] \in {"control", "data"}
  BY <1>1 DEF IsRail, Msg, Shape, Mode, Quiesces
<1>4. ASSUME NEW m \in Msg, Mode[m] = "list"
      PROVE  /\ LastOf(m) \in Packet /\ <<m, 1>> \in Packet /\ KindOf(LastOf(m)) = "end"
             /\ Len(Shape[m]) \in 2..Len(Shape[m]) /\ ~Quiesces
             /\ \A i \in 1..Len(Shape[m]) : Shape[m][i] = "start" => i = 1
             /\ \A i \in 1..Len(Shape[m]) : Shape[m][i] = "end" => i = Len(Shape[m])
  <2> PICK n : n = Len(Shape[m])
    OBVIOUS
  <2>1. /\ n \in Nat /\ n > 1 /\ Shape[m][1] = "start" /\ Shape[m][n] = "end"
        /\ \A i \in 2..(n - 1) : Shape[m][i] = "page"
    BY <1>3, <1>4 DEF IsStream
  <2>2. \A i \in 1..n : i = 1 \/ i = n \/ i \in 2..(n - 1)
    BY <2>1
  <2>3. n \in 1..n /\ 1 \in 1..n /\ n \in 2..n
    BY <2>1
  <2>4. <<m, n>> \in Packet /\ <<m, 1>> \in Packet /\ <<m, n>>[1] = m /\ <<m, n>>[2] = n
    BY <2>3
  <2>5. /\ \A i \in 1..n : Shape[m][i] = "start" => i = 1
        /\ \A i \in 1..n : Shape[m][i] = "end" => i = n
    BY <2>1, <2>2
  <2> QED
    BY <1>3, <1>4, <2>1, <2>3, <2>4, <2>5 DEF LastOf, KindOf
<1>5. ASSUME NEW p \in Packet, KindOf(p) \in {"start", "page", "end"}
      PROVE  /\ Mode[p[1]] = "list" /\ (KindOf(p) = "start" => p = <<p[1], 1>>)
             /\ KindOf(p) = "end" => p = LastOf(p[1])
  <2>1. p[1] \in Msg /\ p[2] \in 1..Len(Shape[p[1]]) /\ p = <<p[1], p[2]>>
    OBVIOUS
  <2>2. Mode[p[1]] = "list"
    BY <1>3, <1>5, <2>1 DEF KindOf
  <2> PICK m, i : m = p[1] /\ i = p[2]
    OBVIOUS
  <2>3. /\ m \in Msg /\ i \in 1..Len(Shape[m]) /\ p = <<m, i>> /\ Mode[m] = "list"
        /\ KindOf(p) = Shape[m][i] /\ p[1] = m
    BY <2>1, <2>2 DEF KindOf
  <2>4. (Shape[m][i] = "start" => i = 1) /\ (Shape[m][i] = "end" => i = Len(Shape[m]))
    BY <1>4, <2>3
  <2> QED
    BY <2>2, <2>3, <2>4 DEF LastOf
<1> QED
  BY <1>2, <1>4, <1>5

\* A step that submits nothing and leaves the streams alone.
LEMMA StreamKept ==
  ASSUME Inv, Inv', StreamOK, rail' = rail, ~Quiesces, UNCHANGED <<running, q>>,
         wire' \in {wire, NoMsg},
         Submits' => Submits /\ sched'.p = sched.p /\ sched'.raw = sched.raw,
         \A m \in Msg : Mode[m] = "list" /\ wire' = m => pst'[LastOf(m)] \in {"queued", "hand", "attached"},
         \A m \in Msg : Heads(m)' => Heads(m),
         \A m \in Msg : /\ wire' = m \/ Heads(m)'
                        /\ RawIs(raw, m) /\ Mode[m] = "list" /\ pst[LastOf(m)] # "completing"
                        => RawIs(raw', m)
  PROVE  StreamOK'
<1> USE RailSame
<1>0. rail \in Rails /\ NoMsg \notin Msg
  BY MsgFacts DEF Inv, TypeOK
<1>1. \A m \in Msg : (LastOf(m))' = LastOf(m)
  BY DEF LastOf
<1>2. ASSUME NEW m \in Msg, Heads(m)' PROVE RawIs(raw', m) /\ wire' = NoMsg
  <2>1. Heads(m) /\ Mode[m] = "list"
    BY <1>2 DEF Heads
  <2>2. pst[LastOf(m)] = "queued"
    <3>1. Len(Shape[m]) \in 2..Len(Shape[m])
      BY <1>0, <2>1, StreamFacts
    <3> QED
      BY <2>1, <3>1 DEF Heads, StreamWhole, LastOf
  <2> QED
    BY <1>2, <2>1, <2>2 DEF StreamOK
<1>3. ASSUME NEW m \in Msg, wire' = m
      PROVE  /\ Mode[m] = "list" /\ RawIs(raw', m)
             /\ pst'[LastOf(m)] \in {"queued", "hand", "attached"}
             /\ Submits' => sched'.p[1] = m /\ RawIs(sched'.raw, m)
  <2>1. wire = m
    BY <1>0, <1>3
  <2> QED
    BY <1>3, <2>1 DEF StreamOK
<1>4. running' = TRUE /\ q' = "open"
  BY DEF StreamOK
<1>5. \A m \in Msg' : Heads(m)' => (RawIs(raw, m))' /\ wire' = NoMsg
  BY <1>2 DEF RawIs
<1>6. \A m \in Msg' : wire' = m =>
        /\ Mode'[m] = "list" /\ (RawIs(raw, m))'
        /\ pst'[(LastOf(m))'] \in {"queued", "hand", "attached"}
        /\ Submits' => sched'.p[1] = m /\ (RawIs(sched.raw, m))'
  BY <1>1, <1>3 DEF RawIs
<1> QED
  BY <1>4, <1>5, <1>6 DEF StreamOK

\* A rail that is quiesced has no page streams.
LEMMA StreamQuiesced ==
  ASSUME Inv, Inv', StreamOK, rail' = rail, Quiesces, wire' \in {wire, NoMsg}
  PROVE  StreamOK'
<1> USE RailSame
<1>1. wire' = NoMsg /\ Quiesces'
  BY DEF StreamOK
<1>2. rail \in Rails /\ NoMsg \notin Msg
  BY MsgFacts DEF Inv, TypeOK
<1>3. \A m \in Msg : Mode[m] # "list"
  BY <1>2, StreamFacts
<1> QED
  BY <1>1, <1>2, <1>3 DEF StreamOK, Heads

\* A stream that is whole after a step that queues nothing was whole before.
LEMMA WholeBefore ==
  ASSUME rail \in Rails, rail' = rail, \A x \in Packet : pst'[x] = "queued" => pst[x] = "queued"
  PROVE  \A m \in Msg : StreamWhole(m)' => StreamWhole(m)
<1> USE RailSame
<1> SUFFICES ASSUME NEW m \in Msg, StreamWhole(m)' PROVE StreamWhole(m)
  OBVIOUS
<1>1. \A i \in 2..Len(Shape[m]) : pst'[<<m, i>>] = "queued"
  BY DEF StreamWhole
<1>2. ASSUME NEW i \in 2..Len(Shape[m]) PROVE <<m, i>> \in Packet
  <2>1. i \in 1..Len(Shape[m])
    BY MsgFacts
  <2> QED
    BY <2>1, PacketFacts
<1> QED
  BY <1>1, <1>2 DEF StreamWhole

\* A step that leaves raw stream, wire and scheduler alone and queues or
\* releases packets of messages whose stream is not under way.
LEMMA StreamPst ==
  ASSUME Inv, Inv', StreamOK, rail' = rail, ~Quiesces, UNCHANGED <<running, q, wire, raw, sched>>,
         \A m \in Msg : Mode[m] = "list" /\ pst[LastOf(m)] \in {"queued", "hand", "attached"}
                          => pst'[LastOf(m)] \in {"queued", "hand", "attached"},
         \A m \in Msg : Mode[m] = "list" /\ pst[<<m, 1>>] # "idle" /\ StreamWhole(m)' => StreamWhole(m)
  PROVE  StreamOK'
<1> USE RailSame
<1>0. rail \in Rails
  BY DEF Inv, TypeOK
<1>1. ASSUME NEW m \in Msg, Heads(m)' PROVE Heads(m)
  <2>1. Submits /\ sched.p = <<m, 1>> /\ Mode[m] = "list" /\ StreamWhole(m)'
    BY <1>1 DEF Heads, Submits
  <2>2. pst[sched.p] # "idle"
    BY <2>1 DEF Inv, SchedOK, InHand, Submits
  <2> QED
    BY <2>1, <2>2 DEF Heads
<1>2. \A m \in Msg : Mode[m] = "list" /\ wire' = m => pst'[LastOf(m)] \in {"queued", "hand", "attached"}
  BY DEF StreamOK
<1>3. Submits' => Submits /\ sched'.p = sched.p /\ sched'.raw = sched.raw
  BY DEF Submits
<1> QED
  BY <1>1, <1>2, <1>3, StreamKept

\* Posting: a stream is posted when none of its packets is under way.
LEMMA StreamPost ==
  ASSUME Inv, Inv', StreamOK, rail' = rail, ~Quiesces, Post
  PROVE  StreamOK'
<1> USE RailSame
<1>0. rail \in Rails /\ pst \in [Packet -> PStates]
  BY DEF Inv, TypeOK, PacketTypes
<1> PICK x \in Msg : \/ EnqueueControl(x) \/ EnqueueData(x) \/ EnqueueDataList(x) \/ ReserveData(x)
                     \/ EnqueueReservedDataList(x) \/ EnqueueReservedOne(x)
                     \/ ReleaseDataReservation(x)
  BY DEF Post
<1>1. UNCHANGED <<running, q, wire, raw, sched>>
  BY DEF EnqueueControl, EnqueueData, EnqueueDataList, ReserveData, EnqueueReservedDataList,
         EnqueueReservedOne, ReleaseDataReservation, hwvars, rawvars, svars
<1>2. ASSUME NEW m \in Msg, Mode[m] = "list", m # x \/ Mode[x] # "list"
      PROVE  \A i \in 1..Len(Shape[m]) : pst'[<<m, i>>] = pst[<<m, i>>]
  <2> SUFFICES ASSUME NEW i \in 1..Len(Shape[m]) PROVE pst'[<<m, i>>] = pst[<<m, i>>]
    OBVIOUS
  <2>0. m # x /\ <<m, i>> \in Packet
    BY <1>0, <1>2, PacketFacts
  <2>1. CASE ReserveData(x) \/ ReleaseDataReservation(x)
    BY <2>1 DEF ReserveData, ReleaseDataReservation
  <2>2. CASE EnqueueControl(x)
    BY <2>0, <2>2, <1>0 DEF EnqueueControl
  <2>3. CASE EnqueueData(x) \/ EnqueueDataList(x) \/ EnqueueReservedDataList(x)
    <3>1. Accept(Frames(x)) /\ InSeq(Frames(x)) = PacketsOf(x)
      BY <2>3, <1>0, FramesFacts DEF EnqueueData, EnqueueDataList, EnqueueReservedDataList
    <3>2. <<m, i>> \notin PacketsOf(x)
      BY <2>0 DEF PacketsOf
    <3> QED
      BY <2>0, <3>1, <3>2 DEF Accept
  <2>4. CASE EnqueueReservedOne(x)
    <3> PICK j : Accept(<<<<x, j>>>>)
      BY <2>4 DEF EnqueueReservedOne
    <3>1. <<m, i>> \notin InSeq(<<<<x, j>>>>)
      BY <2>0 DEF InSeq, Indices
    <3> QED
      BY <2>0, <3>1 DEF Accept
  <2> QED
    BY <2>1, <2>2, <2>3, <2>4
<1>3. ASSUME Mode[x] = "list", ~UNCHANGED pst
      PROVE  \A i \in 1..Len(Shape[x]) : pst[<<x, i>>] = "idle"
  <2>1. Fresh(x)
    BY <1>3 DEF EnqueueControl, EnqueueData, EnqueueDataList, ReserveData, EnqueueReservedDataList,
           EnqueueReservedOne, ReleaseDataReservation
  <2> QED
    BY <2>1 DEF Fresh, PacketsOf
<1>4. ASSUME NEW m \in Msg, Mode[m] = "list", pst[LastOf(m)] \in {"queued", "hand", "attached"}
      PROVE  pst'[LastOf(m)] \in {"queued", "hand", "attached"}
  <2>1. Len(Shape[m]) \in 1..Len(Shape[m])
    BY MsgFacts, <1>0
  <2> QED
    BY <1>2, <1>3, <1>4, <2>1 DEF LastOf
<1>5. ASSUME NEW m \in Msg, Mode[m] = "list", pst[<<m, 1>>] # "idle", StreamWhole(m)'
      PROVE  StreamWhole(m)
  <2>1. 1 \in 1..Len(Shape[m]) /\ \A i \in 2..Len(Shape[m]) : i \in 1..Len(Shape[m])
    BY MsgFacts, <1>0
  <2>2. \A i \in 2..Len(Shape[m]) : pst'[<<m, i>>] = "queued"
    BY <1>5 DEF StreamWhole
  <2>3. \A i \in 1..Len(Shape[m]) : pst'[<<m, i>>] = pst[<<m, i>>]
    BY <1>2, <1>3, <1>5, <2>1
  <2> QED
    BY <2>1, <2>2, <2>3 DEF StreamWhole
<1> QED
  BY <1>1, <1>4, <1>5, StreamPst

\* The scheduler's steps that submit nothing.
LEMMA StreamSched ==
  ASSUME Inv, Inv', StreamOK, rail' = rail, ~Quiesces,
         \/ ScheduleTxEnter \/ ScheduleTxStop \/ RequeueDec \/ FailDec \/ FailExit
         \/ ScheduleTxAttach \/ FailRelease
  PROVE  StreamOK'
<1> USE RailSame
<1>0. /\ rail \in Rails /\ pst \in [Packet -> PStates]
      /\ sched \in [pc : SchedPcs, p : Packet \cup {NoPacket}, group : Nat, raw : RawStates]
  BY DEF Inv, TypeOK, PacketTypes, SchedTypes
<1>1. UNCHANGED <<running, q, wire, raw>>
  BY DEF ScheduleTxEnter, ScheduleTxStop, RequeueDec, FailDec, FailExit, ScheduleTxAttach,
         FailRelease, hwvars, rawvars
<1>2. CASE ScheduleTxEnter \/ ScheduleTxStop \/ RequeueDec \/ FailDec \/ FailExit
  <2>1. UNCHANGED pst
    BY <1>2 DEF ScheduleTxEnter, ScheduleTxStop, RequeueDec, FailDec, FailExit
  <2>2. sched' = sched \/ sched'.pc \notin {"take", "ring"}
    BY <1>0, <1>2, IdleFacts DEF ScheduleTxEnter, ScheduleTxStop, RequeueDec, FailDec, FailExit
  <2>3. Submits' => Submits /\ sched'.p = sched.p /\ sched'.raw = sched.raw
    BY <2>2 DEF Submits
  <2>4. \A m \in Msg : Heads(m)' => Heads(m)
    BY <2>1, <2>2, <2>3 DEF Heads, StreamWhole
  <2>5. \A m \in Msg : Mode[m] = "list" /\ wire' = m => pst'[LastOf(m)] \in {"queued", "hand", "attached"}
    BY <1>1, <2>1 DEF StreamOK
  <2> QED
    BY <1>1, <2>3, <2>4, <2>5, StreamKept
<1>3. CASE ScheduleTxAttach
  <2>1. /\ sched.pc = "take" /\ pst' = [pst EXCEPT ![sched.p] = "attached"]
        /\ sched'.pc = "ring" /\ sched'.p = sched.p /\ sched'.raw = sched.raw
    BY <1>0, <1>3 DEF ScheduleTxAttach
  <2>2. sched.p \in Packet /\ pst[sched.p] = "hand"
    BY <2>1 DEF Inv, SchedOK, InHand
  <2>3. \A x \in Packet : pst'[x] = IF x = sched.p THEN "attached" ELSE pst[x]
    BY <1>0, <2>1
  <2>4. \A x \in Packet : pst'[x] = "queued" => pst[x] = "queued"
    BY <2>3
  <2>5. Submits /\ Submits'
    BY <2>1 DEF Submits
  <2>6. \A m \in Msg : StreamWhole(m)' => StreamWhole(m)
    BY <1>0, <2>4, WholeBefore
  <2>7. \A m \in Msg : Heads(m)' => Heads(m)
    BY <2>1, <2>5, <2>6 DEF Heads
  <2>8. \A m \in Msg : Mode[m] = "list" /\ wire' = m => pst'[LastOf(m)] \in {"queued", "hand", "attached"}
    BY <1>0, <1>1, <2>3, StreamFacts DEF StreamOK
  <2> QED
    BY <1>1, <2>1, <2>5, <2>7, <2>8, StreamKept
<1>4. CASE FailRelease
  <2>1. /\ sched.pc = "errrel" /\ pst' = [pst EXCEPT ![sched.p] = "idle"]
        /\ sched'.pc = "errexit"
    BY <1>0, <1>4 DEF FailRelease
  <2>2. sched.p \in Packet /\ pst[sched.p] = "failing"
    BY <2>1 DEF Inv, SchedOK, InHand
  <2>3. \A x \in Packet : pst'[x] = IF x = sched.p THEN "idle" ELSE pst[x]
    BY <1>0, <2>1
  <2>4. ~Submits'
    BY <2>1 DEF Submits
  <2>5. \A m \in Msg : ~Heads(m)'
    BY <2>4 DEF Heads
  <2>6. \A m \in Msg : Mode[m] = "list" /\ wire' = m => pst'[LastOf(m)] \in {"queued", "hand", "attached"}
    BY <1>0, <1>1, <2>2, <2>3, StreamFacts DEF StreamOK
  <2> QED
    BY <1>1, <2>4, <2>5, <2>6, StreamKept
<1> QED
  BY <1>2, <1>3, <1>4

\* Inside a stream the scheduler takes its pages only; a header is taken when
\* no stream is under way.
LEMMA StreamTake ==
  ASSUME Inv, Inv', StreamOK, rail' = rail, ~Quiesces, ScheduleTxTake
  PROVE  StreamOK'
<1> USE RailSame
<1> PICK p : p = Candidate
  OBVIOUS
<1>0. /\ rail \in Rails /\ pst \in [Packet -> PStates] /\ raw \in RawStates /\ NoMsg \notin Msg
      /\ wire \in Msg \cup {NoMsg}
  BY MsgFacts DEF Inv, TypeOK, PacketTypes, SchedTypes, RingTypes
<1>1. /\ UNCHANGED <<running, q, wire>> /\ raw' = RawAfter(p) /\ pst' = [pst EXCEPT ![p] = "hand"]
      /\ sched'.pc = "take" /\ sched'.p = p /\ sched'.raw = raw /\ p # NoPacket
  BY DEF ScheduleTxTake, Sendable, hwvars
<1>2. p \in Packet /\ pst[p] = "queued" /\ p[1] \in Msg
  BY <1>0, <1>1, CandidateFacts, PacketFacts
<1>3. raw.active => Zcopy(p) /\ p[1] = raw.owner
  BY <1>1, <1>2, PacketFacts DEF Candidate, OwnerOf
<1>4. \A x \in Packet : pst'[x] = IF x = p THEN "hand" ELSE pst[x]
  BY <1>0, <1>1
<1>5. running' = TRUE /\ q' = "open" /\ ~Quiesces'
  BY <1>1 DEF StreamOK
<1>6. ASSUME NEW m \in Msg, Heads(m)' PROVE RawIs(raw', m) /\ wire' = NoMsg
  <2>1. p = <<m, 1>> /\ Mode[m] = "list"
    BY <1>1, <1>6 DEF Heads
  <2>2. KindOf(p) = "start" /\ p[1] = m
    <3>1. IsRail(rail)
      BY <1>0, PathTxAssumption
    <3>2. IsStream(Shape[m])
      BY <2>1, <3>1 DEF IsRail, Msg, Shape, Mode
    <3> QED
      BY <2>1, <3>2 DEF IsStream, KindOf
  <2>3. ~Zcopy(p)
    BY <2>2 DEF Zcopy
  <2>4. \A n \in Msg : wire # n
    BY <1>3, <2>3 DEF StreamOK, RawIs
  <2>5. raw' = [[active |-> TRUE, owner |-> m, end |-> FALSE, inflight |-> 0] EXCEPT !.inflight = @ + 1]
    BY <1>1, <2>2 DEF RawAfter, OwnerOf
  <2> QED
    BY <1>0, <1>1, <2>4, <2>5 DEF RawIs
<1>7. ASSUME NEW m \in Msg, wire' = m
      PROVE  /\ Mode[m] = "list" /\ RawIs(raw', m)
             /\ pst'[LastOf(m)] \in {"queued", "hand", "attached"}
             /\ p[1] = m /\ RawIs(raw, m)
  <2>1. Mode[m] = "list" /\ RawIs(raw, m) /\ pst[LastOf(m)] \in {"queued", "hand", "attached"}
    BY <1>1, <1>7 DEF StreamOK
  <2>2. Zcopy(p) /\ p[1] = m /\ LastOf(m) \in Packet
    BY <1>0, <1>3, <2>1, StreamFacts DEF RawIs
  <2>3. raw' = [raw EXCEPT !.inflight = @ + 1]
    BY <1>1, <2>1, <2>2 DEF RawAfter, OwnerOf, RawIs, Zcopy
  <2>4. RawIs(raw', m)
    BY <1>0, <2>1, <2>3 DEF RawIs, RawStates
  <2> QED
    BY <1>4, <2>1, <2>2, <2>4
<1>8. \A m \in Msg : (LastOf(m))' = LastOf(m)
  BY DEF LastOf
<1>9. \A m \in Msg' : Heads(m)' => (RawIs(raw, m))' /\ wire' = NoMsg
  BY <1>6 DEF RawIs
<1>10. ASSUME NEW m \in Msg', wire' = m
       PROVE  /\ Mode'[m] = "list" /\ (RawIs(raw, m))'
              /\ pst'[(LastOf(m))'] \in {"queued", "hand", "attached"}
              /\ sched'.p[1] = m /\ (RawIs(sched.raw, m))'
  <2>1. m \in Msg
    OBVIOUS
  <2>2. /\ Mode[m] = "list" /\ RawIs(raw', m) /\ p[1] = m /\ RawIs(raw, m)
        /\ pst'[LastOf(m)] \in {"queued", "hand", "attached"}
    BY <1>7, <1>10, <2>1
  <2>3. (RawIs(raw, m))'
    BY <2>2 DEF RawIs
  <2>4. (RawIs(sched.raw, m))'
    BY <1>1, <2>2 DEF RawIs
  <2> QED
    BY <1>1, <1>8, <2>1, <2>2, <2>3, <2>4
<1> QED
  BY <1>5, <1>9, <1>10 DEF StreamOK

\* A stream's header gives it the wire, its last page gives it back.
LEMMA StreamPosted ==
  ASSUME Inv, Inv', StreamOK, rail' = rail, ~Quiesces, ScheduleTxPosted
  PROVE  StreamOK'
<1> USE RailSame
<1> PICK p : p = sched.p
  OBVIOUS
<1>0. rail \in Rails /\ pst \in [Packet -> PStates] /\ NoMsg \notin Msg /\ wire \in Msg \cup {NoMsg}
  BY MsgFacts DEF Inv, TypeOK, PacketTypes, RingTypes
<1>1. /\ UNCHANGED <<running, q, raw>> /\ pst' = [pst EXCEPT ![p] = "hw"]
      /\ sched.pc = "ring" /\ sched'.pc = "loop"
      /\ wire' = CASE KindOf(p) = "start" /\ StreamWhole(OwnerOf(p)) -> OwnerOf(p)
                   [] KindOf(p) = "end" /\ wire = OwnerOf(p) -> NoMsg
                   [] OTHER -> wire
  BY IdleFacts DEF ScheduleTxPosted, rawvars
<1>2. p \in Packet /\ pst[p] = "attached" /\ p[1] \in Msg /\ Submits /\ ~Submits'
  BY <1>0, <1>1, PacketFacts DEF Inv, SchedOK, InHand, Submits
<1>3. \A x \in Packet : pst'[x] = IF x = p THEN "hw" ELSE pst[x]
  BY <1>0, <1>1
<1>4. running' = TRUE /\ q' = "open" /\ ~Quiesces'
  BY <1>1 DEF StreamOK
<1>5. ASSUME NEW m \in Msg, wire' = m
      PROVE  Mode[m] = "list" /\ RawIs(raw, m) /\ pst'[LastOf(m)] \in {"queued", "hand", "attached"}
  <2>1. CASE KindOf(p) = "start" /\ StreamWhole(OwnerOf(p))
    <3>1. m = p[1] /\ p = <<m, 1>> /\ Mode[m] = "list" /\ StreamWhole(m)
      BY <1>0, <1>1, <1>2, <1>5, <2>1, StreamFacts DEF OwnerOf
    <3>2. Heads(m)
      BY <1>2, <3>1 DEF Heads
    <3>3. RawIs(raw, m)
      BY <3>2 DEF StreamOK
    <3>4. pst[LastOf(m)] = "queued" /\ LastOf(m) \in Packet
      BY <1>0, <3>1, StreamFacts DEF StreamWhole, LastOf
    <3> QED
      BY <1>2, <1>3, <3>1, <3>3, <3>4
  <2>2. CASE ~(KindOf(p) = "start" /\ StreamWhole(OwnerOf(p)))
    <3>1. wire = m /\ ~(KindOf(p) = "end" /\ wire = OwnerOf(p))
      BY <1>0, <1>1, <1>5, <2>2
    <3>2. Mode[m] = "list" /\ RawIs(raw, m) /\ p[1] = m
          /\ pst[LastOf(m)] \in {"queued", "hand", "attached"}
      BY <1>2, <3>1 DEF StreamOK
    <3>3. LastOf(m) \in Packet /\ KindOf(LastOf(m)) = "end"
      BY <1>0, <3>2, StreamFacts
    <3>4. LastOf(m) # p
      BY <3>1, <3>2, <3>3 DEF OwnerOf
    <3> QED
      BY <1>3, <3>2, <3>3, <3>4
  <2> QED
    BY <2>1, <2>2
<1>6. \A m \in Msg : (LastOf(m))' = LastOf(m)
  BY DEF LastOf
<1>7. \A m \in Msg' : ~Heads(m)'
  BY <1>2 DEF Heads
<1>8. \A m \in Msg' : wire' = m =>
        /\ Mode'[m] = "list" /\ (RawIs(raw, m))'
        /\ pst'[(LastOf(m))'] \in {"queued", "hand", "attached"}
  BY <1>1, <1>5, <1>6 DEF RawIs
<1> QED
  BY <1>2, <1>4, <1>7, <1>8 DEF StreamOK

\* A refused page goes back under the stream's own snapshot; a page is never
\* dropped on a rail that is not quiesced.
LEMMA StreamUndo ==
  ASSUME Inv, Inv', StreamOK, rail' = rail, ~Quiesces, ScheduleTxRequeue \/ ScheduleTxFail
  PROVE  StreamOK'
<1> USE RailSame
<1> PICK p : p = sched.p
  OBVIOUS
<1>0. /\ rail \in Rails /\ pst \in [Packet -> PStates] /\ NoMsg \notin Msg /\ wire \in Msg \cup {NoMsg}
      /\ sched \in [pc : SchedPcs, p : Packet \cup {NoPacket}, group : Nat, raw : RawStates]
  BY MsgFacts DEF Inv, TypeOK, PacketTypes, SchedTypes, RingTypes
<1>1. /\ UNCHANGED <<running, q, wire>> /\ raw' = sched.raw /\ sched.pc = "ring"
      /\ sched'.pc \notin {"take", "ring"}
      /\ \/ pst' = [pst EXCEPT ![p] = "queued"]
         \/ (~running \/ ~Tracked(p)) /\ pst' = [pst EXCEPT ![p] = "failing"]
  BY <1>0, IdleFacts DEF ScheduleTxRequeue, ScheduleTxFail, Undo, hwvars
<1>2. p \in Packet /\ Submits /\ ~Submits'
  BY <1>1 DEF Inv, SchedOK, InHand, Submits
<1>3. running' = TRUE /\ running = TRUE /\ q' = "open" /\ ~Quiesces'
  BY <1>1 DEF StreamOK
<1>4. ASSUME NEW m \in Msg, wire' = m
      PROVE  Mode[m] = "list" /\ RawIs(raw', m) /\ pst'[LastOf(m)] \in {"queued", "hand", "attached"}
  <2>1. /\ Mode[m] = "list" /\ RawIs(raw', m) /\ p[1] = m
        /\ pst[LastOf(m)] \in {"queued", "hand", "attached"}
    BY <1>1, <1>2, <1>4 DEF StreamOK
  <2>2. Tracked(p) /\ LastOf(m) \in Packet
    BY <1>0, <2>1, StreamFacts DEF Tracked
  <2>3. \A x \in Packet : pst'[x] = IF x = p THEN "queued" ELSE pst[x]
    BY <1>0, <1>1, <1>3, <2>2
  <2> QED
    BY <2>1, <2>2, <2>3
<1>5. \A m \in Msg : (LastOf(m))' = LastOf(m)
  BY DEF LastOf
<1>6. \A m \in Msg' : ~Heads(m)'
  BY <1>2 DEF Heads
<1>7. \A m \in Msg' : wire' = m =>
        /\ Mode'[m] = "list" /\ (RawIs(raw, m))'
        /\ pst'[(LastOf(m))'] \in {"queued", "hand", "attached"}
  BY <1>4, <1>5 DEF RawIs
<1> QED
  BY <1>2, <1>3, <1>6, <1>7 DEF StreamOK

\* A completion ends the stream of its page only with the stream's last page.
LEMMA StreamRelease ==
  ASSUME Inv, Inv', StreamOK, rail' = rail, ~Quiesces, NEW p \in Packet, TxCompleteRelease(p)
  PROVE  StreamOK'
<1> USE RailSame
<1>0. rail \in Rails /\ pst \in [Packet -> PStates] /\ raw \in RawStates
  BY DEF Inv, TypeOK, PacketTypes, SchedTypes
<1>1. /\ UNCHANGED <<running, q, wire, sched>> /\ raw' = RawFinished(p)
      /\ pst[p] = "completing" /\ pst' = [pst EXCEPT ![p] = "idle"]
  BY DEF TxCompleteRelease, hwvars, svars
<1>2. \A x \in Packet : pst'[x] = IF x = p THEN "idle" ELSE pst[x]
  BY <1>0, <1>1
<1>3. \A m \in Msg : StreamWhole(m)' => StreamWhole(m)
  BY <1>0, <1>2, WholeBefore
<1>4. Submits' => Submits /\ sched'.p = sched.p /\ sched'.raw = sched.raw
  BY <1>1 DEF Submits
<1>5. \A m \in Msg : Heads(m)' => Heads(m)
  BY <1>1, <1>3, <1>4 DEF Heads
<1>6. \A m \in Msg : Mode[m] = "list" /\ wire' = m => pst'[LastOf(m)] \in {"queued", "hand", "attached"}
  BY <1>0, <1>1, <1>2, StreamFacts DEF StreamOK
<1>7. ASSUME NEW m \in Msg, RawIs(raw, m), Mode[m] = "list", pst[LastOf(m)] # "completing"
      PROVE  RawIs(raw', m)
  <2>1. p[1] = m => KindOf(p) # "end"
    BY <1>0, <1>1, <1>7, StreamFacts
  <2>2. CASE ~counted[p] \/ p[1] # m
    BY <1>1, <1>7, <2>2 DEF RawFinished, RawIs, OwnerOf
  <2>3. CASE counted[p] /\ p[1] = m
    <3> PICK n : n = IF raw.inflight > 0 THEN raw.inflight - 1 ELSE 0
      OBVIOUS
    <3>1. raw' = [raw EXCEPT !.end = FALSE, !.inflight = n]
      BY <1>0, <1>1, <1>7, <2>1, <2>3 DEF RawFinished, RawIs, OwnerOf, RawStates
    <3> QED
      BY <1>0, <1>7, <3>1 DEF RawIs, RawStates
  <2> QED
    BY <2>2, <2>3
<1> QED
  BY <1>1, <1>4, <1>5, <1>6, <1>7, StreamKept

\* The other steps of the callbacks, of the NHI and of the peer.
LEMMA StreamAside ==
  ASSUME Inv, Inv', StreamOK, rail' = rail, ~Quiesces,
         TxComplete \/ TxRetireOne \/ HwConsume \/ PeerCredit
  PROVE  StreamOK'
<1> USE RailSame
<1>0. rail \in Rails /\ pst \in [Packet -> PStates]
  BY DEF Inv, TypeOK, PacketTypes
<1>1. UNCHANGED <<running, q, wire, raw, sched>>
  BY DEF TxComplete, TxRetireOne, HwConsume, PeerCredit, AddRemoteRxCredits, hwvars, svars, rawvars
<1>2. \A x \in Packet : pst'[x] = pst[x] \/ (pst[x] = "hw" /\ pst'[x] = "completing")
  <2>1. CASE TxComplete
    <3>1. /\ pst' = [pst EXCEPT ![Head(ring)] = "completing"] /\ ring # <<>>
          /\ ring' = Tail(ring)
      BY <2>1 DEF TxComplete, Inv, TypeOK, RingTypes
    <3>2. pst[Head(ring)] = "hw"
      BY <3>1, RingPop
    <3> QED
      BY <1>0, <3>1, <3>2
  <2>2. CASE TxRetireOne \/ HwConsume \/ PeerCredit
    BY <2>2 DEF TxRetireOne, HwConsume, PeerCredit, AddRemoteRxCredits
  <2> QED
    BY <2>1, <2>2
<1>3. \A m \in Msg : StreamWhole(m)' => StreamWhole(m)
  BY <1>0, <1>2, WholeBefore
<1>4. \A m \in Msg : Mode[m] = "list" /\ pst[LastOf(m)] \in {"queued", "hand", "attached"}
        => pst'[LastOf(m)] \in {"queued", "hand", "attached"}
  BY <1>0, <1>2, StreamFacts
<1> QED
  BY <1>1, <1>3, <1>4, StreamPst

\* Cancelling an owner ends its own stream only.
LEMMA StreamCancel ==
  ASSUME Inv, Inv', StreamOK, rail' = rail, ~Quiesces, NEW x \in Msg, CancelDataOwner(x)
  PROVE  StreamOK'
<1> USE RailSame
<1>0. /\ rail \in Rails /\ pst \in [Packet -> PStates] /\ NoMsg \notin Msg
      /\ \A y \in PacketsOf(x) : y[1] = x
  BY MsgFacts DEF Inv, TypeOK, PacketTypes, PacketsOf
<1> PICK gone : gone = {y \in PacketsOf(x) : Tracked(y) /\ pst[y] = "queued"}
  OBVIOUS
<1>1. /\ UNCHANGED <<running, q, sched>>
      /\ raw' = IF raw.active /\ raw.owner = x THEN NoRaw ELSE raw
      /\ wire' = IF wire = x THEN NoMsg ELSE wire
  BY DEF CancelDataOwner
<1>2. \A y \in Packet : pst'[y] = IF y \in gone THEN "idle" ELSE pst[y]
  BY DEF CancelDataOwner
<1>3. \A m \in Msg : StreamWhole(m)' => StreamWhole(m)
  BY <1>0, <1>2, WholeBefore
<1>4. Submits' => Submits /\ sched'.p = sched.p /\ sched'.raw = sched.raw
  BY <1>1 DEF Submits
<1>5. \A m \in Msg : Heads(m)' => Heads(m)
  BY <1>1, <1>3, <1>4 DEF Heads
<1>6. wire' \in {wire, NoMsg} /\ wire' # x
  BY <1>0, <1>1
<1>7. ASSUME NEW m \in Msg, Mode[m] = "list"
      PROVE  LastOf(m) \in gone <=> m = x /\ pst[LastOf(m)] = "queued"
  <2>1. LastOf(m)[1] = m /\ (m = x => LastOf(m) \in PacketsOf(x))
    BY <1>0, <1>7, MsgFacts DEF LastOf, PacketsOf
  <2>2. Tracked(LastOf(m))
    BY <1>7, <2>1 DEF Tracked
  <2> QED
    BY <1>0, <2>1, <2>2
<1>8. ASSUME NEW m \in Msg, Mode[m] = "list", wire' = m
      PROVE  pst'[LastOf(m)] \in {"queued", "hand", "attached"}
  BY <1>0, <1>2, <1>6, <1>7, <1>8, StreamFacts DEF StreamOK
<1>9. ~Heads(x)'
  <2> SUFFICES ASSUME Heads(x)' PROVE FALSE
    OBVIOUS
  <2>1. Mode[x] = "list" /\ StreamWhole(x)'
    BY DEF Heads
  <2>2. LastOf(x) \in Packet /\ pst'[LastOf(x)] = "queued"
    BY <1>0, <2>1, StreamFacts DEF StreamWhole, LastOf
  <2> QED
    BY <1>2, <1>7, <2>1, <2>2
<1>10. \A m \in Msg : (wire' = m \/ Heads(m)') /\ RawIs(raw, m) => RawIs(raw', m)
  BY <1>1, <1>6, <1>9 DEF RawIs
<1> QED
  BY <1>1, <1>4, <1>5, <1>6, <1>8, <1>10, StreamKept

\* The wire changes hands only where a header or a last page is submitted,
\* a stream is cancelled or a path reopened; never on a rail that is quiesced.
LEMMA QuiescedWire ==
  ASSUME Inv, StreamOK, Quiesces, Step
  PROVE  wire' \in {wire, NoMsg}
<1>0. rail \in Rails
  BY DEF Inv, TypeOK
<1>1. CASE Post
  BY <1>1 DEF Post, EnqueueControl, EnqueueData, EnqueueDataList, ReserveData,
     EnqueueReservedDataList, EnqueueReservedOne, ReleaseDataReservation, hwvars
<1>2. CASE ScheduleTxPosted
  <2> PICK p : p = sched.p
    OBVIOUS
  <2>1. /\ sched.pc = "ring"
        /\ wire' = CASE KindOf(p) = "start" /\ StreamWhole(OwnerOf(p)) -> OwnerOf(p)
                     [] KindOf(p) = "end" /\ wire = OwnerOf(p) -> NoMsg
                     [] OTHER -> wire
    BY <1>2 DEF ScheduleTxPosted
  <2>2. p \in Packet /\ p[1] \in Msg
    BY <1>0, <2>1, PacketFacts DEF Inv, SchedOK, InHand
  <2>3. KindOf(p) # "start"
    BY <1>0, <2>2, StreamFacts
  <2> QED
    BY <2>1, <2>3
<1>3. CASE (Scheduler /\ ~ScheduleTxPosted) \/ ScheduleTxRequeue
  BY <1>3 DEF Scheduler, ScheduleTxEnter, ScheduleTxStop, ScheduleTxTake, ScheduleTxAttach,
     RequeueDec, ScheduleTxFail, FailDec, FailRelease, FailExit, ScheduleTxRequeue, hwvars
<1>4. CASE Callback \/ HwConsume \/ PeerCredit
  BY <1>4 DEF Callback, TxComplete, TxRetireOne, TxCompleteRelease, HwConsume, PeerCredit,
     AddRemoteRxCredits, hwvars
<1>5. CASE Cancel
  BY <1>5 DEF Cancel, CancelDataOwner
<1>6. CASE Quiesce
  BY <1>6 DEF Quiesce, QuiesceClose, QuiesceCancelQueued, QuiesceDrained, QuiesceBarrierStop,
     RingStopCallback, QuiesceBarrier, QuarantineLift, hwvars
<1> QED
  BY <1>1, <1>2, <1>3, <1>4, <1>5, <1>6 DEF Step

\* Every step keeps StreamOK.
LEMMA StreamNext ==
  ASSUME Inv, Inv', StreamOK, rail' = rail, Step
  PROVE  StreamOK'
<1>0. rail \in Rails
  BY DEF Inv, TypeOK
<1>1. CASE Quiesces
  BY <1>1, QuiescedWire, StreamQuiesced
<1>2. CASE ~Quiesces
  <2>1. CASE Post
    BY <1>2, <2>1, StreamPost
  <2>2. CASE Scheduler
    BY <1>2, <2>2, StreamSched, StreamTake, StreamPosted, StreamUndo DEF Scheduler
  <2>3. CASE ScheduleTxRequeue
    BY <1>2, <2>3, StreamUndo
  <2>4. CASE Callback
    BY <1>2, <2>4, StreamRelease, StreamAside DEF Callback
  <2>5. CASE HwConsume \/ PeerCredit
    BY <1>2, <2>5, StreamAside
  <2>6. CASE Cancel
    BY <1>2, <2>6, StreamCancel DEF Cancel
  <2>7. CASE Quiesce
    BY <1>2, <2>7 DEF StreamOK, Quiesce, QuiesceClose, QuiesceCancelQueued, QuiesceDrained,
       QuiesceBarrierStop, RingStopCallback, QuiesceBarrier, QuarantineLift
  <2> QED
    BY <2>1, <2>2, <2>3, <2>4, <2>5, <2>6, <2>7 DEF Step
<1> QED
  BY <1>1, <1>2

\* Only a submission lengthens the ring, and it appends the packet in hand.
LEMMA OnlyPosting ==
  ASSUME Inv, Step, Len(ring') > Len(ring)
  PROVE  Submits /\ ring'[Len(ring')] = sched.p
<1>0. rail \in Rails /\ ring \in Seq(Packet)
  BY DEF Inv, TypeOK, RingTypes
<1>1. ring # <<>> => Len(Tail(ring)) <= Len(ring)
  BY <1>0
<1>2. ASSUME UNCHANGED ring \/ (ring # <<>> /\ ring' = Tail(ring)) PROVE FALSE
  BY <1>0, <1>1, <1>2
<1>3. CASE Post
  <2>1. UNCHANGED ring
    BY <1>3 DEF Post, EnqueueControl, EnqueueData, EnqueueDataList, ReserveData,
       EnqueueReservedDataList, EnqueueReservedOne, ReleaseDataReservation, hwvars
  <2> QED
    BY <1>2, <2>1
<1>4. CASE ScheduleTxPosted
  <2>1. ring' = Append(ring, sched.p) /\ sched.pc = "ring"
    BY <1>4 DEF ScheduleTxPosted
  <2>2. sched.p \in Packet
    BY <2>1 DEF Inv, SchedOK, InHand
  <2> QED
    BY <1>0, <2>1, <2>2 DEF Submits
<1>5. CASE (Scheduler /\ ~ScheduleTxPosted) \/ ScheduleTxRequeue
  <2>1. UNCHANGED ring
    BY <1>5 DEF Scheduler, ScheduleTxEnter, ScheduleTxStop, ScheduleTxTake, ScheduleTxAttach,
       RequeueDec, ScheduleTxFail, FailDec, FailRelease, FailExit, ScheduleTxRequeue, hwvars
  <2> QED
    BY <1>2, <2>1
<1>6. CASE Callback \/ HwConsume \/ PeerCredit \/ Cancel
  <2>1. UNCHANGED ring \/ (TxComplete /\ ring' = Tail(ring))
    BY <1>6 DEF Callback, TxComplete, TxRetireOne, TxCompleteRelease, HwConsume, PeerCredit,
       AddRemoteRxCredits, Cancel, CancelDataOwner, hwvars
  <2>2. TxComplete => ring # <<>>
    BY DEF TxComplete, Inv, TypeOK, RingTypes
  <2> QED
    BY <1>2, <2>1, <2>2
<1>7. CASE Quiesce
  <2>1. UNCHANGED ring \/ (ring # <<>> /\ ring' = Tail(ring))
    BY <1>7 DEF Quiesce, QuiesceClose, QuiesceCancelQueued, QuiesceDrained, QuiesceBarrierStop,
       RingStopCallback, QuiesceBarrier, QuarantineLift, hwvars
  <2> QED
    BY <1>2, <2>1
<1> QED
  BY <1>3, <1>4, <1>5, <1>6, <1>7 DEF Step

\* Once a page stream's header is in the ring (tbv_path_send_page_stream()),
\* the scheduler puts nothing but its pages there until the last one, in every
\* interleaving with other posters, refused submissions, completions and the
\* cancellation of other owners: the peer takes every frame as raw payload.
THEOREM RawStreamUnbrokenThm == Spec => RawStreamUnbroken
<1>1. Init => Inv /\ StreamOK
  <2> SUFFICES ASSUME Init PROVE Inv /\ StreamOK
    OBVIOUS
  <2>1. rail \in Rails /\ NoMsg \notin Msg
    BY MsgFacts DEF Init
  <2>2. wire = NoMsg /\ running = TRUE /\ q = "open" /\ ~Submits
    BY IdleFacts DEF Init, Submits
  <2> QED
    BY <2>1, <2>2, InitInv DEF StreamOK, Heads
<1>2. Inv /\ StreamOK /\ [Next]_vars => Inv' /\ StreamOK'
  <2> SUFFICES ASSUME Inv, StreamOK, [Next]_vars PROVE Inv' /\ StreamOK'
    OBVIOUS
  <2>1. Inv'
    BY NextInv
  <2>2. CASE Next
    BY <2>1, <2>2, StreamNext DEF Next
  <2>3. CASE UNCHANGED vars
    <3>1. UNCHANGED <<rail, wire, running, q, raw, sched, pst>>
      BY <2>3 DEF vars, svars, rawvars, hwvars
    <3>2. rail \in Rails /\ \A m \in Msg : StreamWhole(m)' => StreamWhole(m)
      BY <3>1, WholeBefore DEF Inv, TypeOK
    <3>3. Quiesces \in BOOLEAN
      BY <3>2, StreamFacts
    <3> QED
      BY <2>1, <3>1, <3>2, <3>3, StreamPst, StreamQuiesced
  <2> QED
    BY <2>1, <2>2, <2>3
<1>3. Inv /\ StreamOK /\ [Next]_vars =>
        [Len(ring') > Len(ring) /\ wire # NoMsg => OwnerOf(ring'[Len(ring')]) = wire]_vars
  <2> SUFFICES ASSUME Inv, StreamOK, Step, Len(ring') > Len(ring), wire # NoMsg
               PROVE  OwnerOf(ring'[Len(ring')]) = wire
    BY DEF Next
  <2>1. Submits /\ ring'[Len(ring')] = sched.p
    BY OnlyPosting
  <2>2. wire \in Msg
    BY DEF Inv, TypeOK, RingTypes
  <2> QED
    BY <2>1, <2>2 DEF StreamOK, OwnerOf
<1> QED
  BY <1>1, <1>2, <1>3, PTL DEF Spec, RawStreamUnbroken
=============================================================================
