-------------------------- MODULE AppleQpOkProofs --------------------------
(***************************************************************************)
(* A send of an Apple queue pair that is reported as successful was        *)
(* transmitted, and sends are reported in their order (OkMeansSent).  Two  *)
(* more layers rest on Inv1 and SendInv of AppleQpProofs:                  *)
(*   FifoInv    frames leave the path in the order of their sends;         *)
(*   OkInv      a listed send waits for exactly its frames on the path and *)
(*              those the worker owes, the others were transmitted.        *)
(***************************************************************************)
EXTENDS AppleQpProofs

-----------------------------------------------------------------------------
(* What is reported.                                                       *)

\* The sends that were reported as successful.
OkSet(T) == {T.cq[k].w : k \in {j \in DOMAIN T.cq : T.cq[j].ok}}

\* A send is reported once, after it was done, as what it is, and the successes
\* in their order unless they are put off.
CqT(d, T) ==
  /\ \A k \in DOMAIN T.cq : T.snd[T.cq[k].w].done /\ (T.cq[k].ok => T.snd[T.cq[k].w].ok)
  /\ \A j, k \in DOMAIN T.cq : j # k => T.cq[j].w # T.cq[k].w
  /\ ~d => \A j, k \in DOMAIN T.cq : j < k /\ T.cq[j].ok /\ T.cq[k].ok => T.cq[j].w < T.cq[k].w

\* Sends wait on the list in their order, behind those that succeeded.
ListT(d, T) ==
  /\ CqT(d, T) /\ Rising(T.list)
  /\ \A v \in Ran(T.list) : T.snd[v].ok = FALSE
  /\ \A v \in T.late : T.snd[v].ok
  /\ ~d => T.late = {} /\ \A a \in OkSet(T), v \in Ran(T.list) : a < v

\* One more completion.
LEMMA PushCq ==
  ASSUME NEW d, NEW T \in TxRec, CqT(d, T), NEW w \in WR, NEW ok \in BOOLEAN, NEW t, NEW U,
         DoneTo(t, T, w, ok, U), ~T.snd[w].done, ok => T.snd[w].ok,
         ok /\ ~d => \A a \in OkSet(T) : a <= w
  PROVE  CqT(d, U) /\ OkSet(U) \subseteq OkSet(T) \cup {x \in {w} : ok}
<1> PICK q \in Seq(CqRec) : q = T.cq
  BY DEF TxRec
<1> PICK n \in Nat : n = Len(q)
  OBVIOUS
<1> PICK e \in CqRec : e = [w |-> w, ok |-> ok]
  BY DEF CqRec
<1> PICK r : r = U.cq
  OBVIOUS
<1>0. e.w = w /\ e.ok = ok
  OBVIOUS
<1>1. DOMAIN q = 1..n /\ DOMAIN r = 1..(n + 1) /\ r[n + 1] = e /\ \A k \in 1..n : r[k] = q[k]
  <2>1. r = Append(q, e)
    BY DEF DoneTo
  <2> QED
    BY ONLY <2>1, q \in Seq(CqRec), e \in CqRec, n = Len(q), n \in Nat
<1>2. \A k \in 1..n : q[k].w \in WR /\ q[k].ok \in BOOLEAN
  <2>1. \A k \in 1..n : q[k] \in CqRec
    BY ONLY q \in Seq(CqRec), n = Len(q), n \in Nat
  <2> QED
    BY ONLY <2>1 DEF CqRec
<1>3. \A k \in 1..n : T.snd[q[k].w].done /\ (q[k].ok => T.snd[q[k].w].ok) /\ q[k].w # w
  BY <1>1 DEF CqT
<1>4. /\ T.snd[w] \in SndRec /\ U.snd[w].done /\ (ok => U.snd[w].ok)
      /\ \A v \in WR : v # w => U.snd[v] = T.snd[v]
  BY DEF DoneTo, TxRec, SndRec
<1>5. \A k \in 1..n : U.snd[r[k].w].done /\ (r[k].ok => U.snd[r[k].w].ok)
  BY <1>1, <1>2, <1>3, <1>4
<1>6. \A k \in DOMAIN r : k \in 1..n \/ (k = n + 1 /\ r[k].w = w /\ r[k].ok = ok)
  BY <1>0, <1>1
<1>7. \A k \in DOMAIN r : U.snd[r[k].w].done /\ (r[k].ok => U.snd[r[k].w].ok)
  BY <1>4, <1>5, <1>6, Zenon
<1>8. ASSUME NEW j \in DOMAIN r, NEW k \in DOMAIN r, j # k PROVE r[j].w # r[k].w
  <2>1. \A i, m \in 1..n : i # m => q[i].w # q[m].w
    BY <1>1 DEF CqT
  <2> QED
    BY <1>1, <1>3, <1>6, <1>8, <2>1
<1>9. ASSUME ~d, NEW j \in DOMAIN r, NEW k \in DOMAIN r, j < k, r[j].ok, r[k].ok PROVE r[j].w < r[k].w
  <2>1. \A i, m \in 1..n : i < m /\ q[i].ok /\ q[m].ok => q[i].w < q[m].w
    BY <1>1, <1>9 DEF CqT
  <2>2. j \in 1..n /\ j \in Nat /\ k \in Nat
    BY ONLY <1>1, <1>9, n \in Nat
  <2>3. CASE k \in 1..n
    BY <1>1, <1>9, <2>1, <2>2, <2>3
  <2>4. CASE k = n + 1
    <3>1. q[j].w \in OkSet(T)
      BY <1>1, <1>9, <2>2 DEF OkSet
    <3>2. ok
      BY <1>6, <1>9, <2>4
    <3>3. q[j].w <= w /\ q[j].w # w /\ q[j].w \in WR
      BY <1>2, <1>3, <1>9, <2>2, <3>1, <3>2
    <3>4. \A x, y \in WR : x <= y /\ x # y => x < y
      BY SizeAssumption DEF WR
    <3> QED
      BY <1>0, <1>1, <2>2, <2>4, <3>3, <3>4
  <2> QED
    BY <1>6, <2>3, <2>4
<1>10. ASSUME NEW x \in OkSet(U) PROVE x \in OkSet(T) \/ (x = w /\ ok)
  <2> PICK k \in DOMAIN r : r[k].ok /\ x = r[k].w
    BY <1>10 DEF OkSet
  <2> QED
    BY <1>1, <1>6 DEF OkSet
<1>11. CqT(d, U)
  BY <1>7, <1>8, <1>9 DEF CqT
<1> QED
  BY <1>10, <1>11

\* What a completion of a send that is off the list leaves as it was.
Calm(M, T, U) ==
  /\ U \in TxRec /\ U.list = T.list /\ OkSet(U) \subseteq OkSet(T) \cup M
  /\ \A v \in WR : U.snd[v].ok = T.snd[v].ok /\ U.snd[v].ready = T.snd[v].ready
  /\ \A v \in Ran(T.list) : U.snd[v] = T.snd[v] /\ FramesOf(U.pq, v) = FramesOf(T.pq, v)

\* A send that is off the list is completed.
LEMMA CompleteCalm ==
  ASSUME conf \in Conf, NEW d, NEW T \in TxRec, ListT(d, T), NEW w \in WR, w \notin Ran(T.list),
         NEW ok \in BOOLEAN, ok => T.snd[w].ok,
         ok /\ ~d => (\A a \in OkSet(T) : a <= w) /\ (\A v \in Ran(T.list) : w < v),
         NEW U, U = SendComplete(T, w, ok)
  PROVE  ListT(d, U) /\ Calm({x \in {w} : ok}, T, U)
<1>0. T.snd[w] \in SndRec /\ T.list \in Seq(WR) /\ Ran(T.list) \subseteq WR
  BY RanFacts DEF TxRec
<1>1. CASE T.snd[w].done
  <2>1. U = T
    BY <1>1, DoneShape
  <2> QED
    BY <2>1 DEF Calm
<1>2. CASE ~T.snd[w].done
  <2>1. DoneTo(TakesWr, T, w, ok, U)
    BY <1>2, DoneShape
  <2>2. CqT(d, U) /\ OkSet(U) \subseteq OkSet(T) \cup {x \in {w} : ok}
    BY <1>2, <2>1, PushCq DEF ListT
  <2>3. /\ U \in TxRec /\ U.list = T.list /\ U.late = T.late
        /\ \A v \in WR : v # w => U.snd[v] = T.snd[v] /\ FramesOf(U.pq, v) = FramesOf(T.pq, v)
    BY <2>1 DEF DoneTo, Others
  <2>4. U.snd[w].ok = T.snd[w].ok /\ U.snd[w].ready = T.snd[w].ready
    BY <1>0, <2>1 DEF DoneTo, SndRec
  <2>5. \A v \in WR : U.snd[v].ok = T.snd[v].ok /\ U.snd[v].ready = T.snd[v].ready
    BY <2>3, <2>4
  <2>6. \A v \in Ran(T.list) : v \in WR /\ v # w
    BY <1>0
  <2>7. Calm({x \in {w} : ok}, T, U)
    BY <2>2, <2>3, <2>5, <2>6 DEF Calm
  <2>8. \A v \in T.late : v \in WR
    BY DEF TxRec
  <2>9. ~d => U.late = {} /\ \A a \in OkSet(U), v \in Ran(U.list) : a < v
    BY <2>2, <2>3 DEF ListT
  <2>10. ListT(d, U)
    BY <2>2, <2>3, <2>5, <2>6, <2>8, <2>9 DEF ListT
  <2> QED
    BY <2>7, <2>10
<1> QED
  BY <1>1, <1>2

\* So are those the timeout work or a flush took off the list, as failures,
LEMMA SendsCalm ==
  ASSUME conf \in Conf, NEW d, NEW T \in TxRec, ListT(d, T), NEW s \in Seq(WR),
         \A v \in Ran(s) : v \notin Ran(T.list) /\ T.snd[v].ok = FALSE,
         NEW U, U = Sends!Run(FALSE, T, s)
  PROVE  ListT(d, U) /\ Calm({}, T, U)
<1> PICK n \in Nat : n = Len(s)
  OBVIOUS
<1> PICK I : I = {X \in TxRec : ListT(d, X) /\ Calm({}, T, X)}
  OBVIOUS
<1>1. T \in I
  BY DEF Calm
<1>2. ASSUME NEW k \in 1..n, NEW X \in I PROVE Finish(FALSE, X, s[k]) \in I
  <2> PICK w \in WR : w = s[k]
    OBVIOUS
  <2>1. w \in Ran(s)
    BY DEF Ran
  <2>2. X \in TxRec /\ ListT(d, X) /\ Calm({}, T, X)
    OBVIOUS
  <2>3. X.snd[w].ok = FALSE /\ w \notin Ran(X.list)
    BY <2>1, <2>2 DEF Calm
  <2>4. Finish(FALSE, X, s[k]) = SendComplete(X, w, FALSE)
    BY <2>3 DEF Finish
  <2> PICK Y : Y = SendComplete(X, w, FALSE)
    OBVIOUS
  <2>5. ListT(d, Y) /\ Calm({x \in {w} : FALSE}, X, Y)
    BY <2>2, <2>3, CompleteCalm
  <2>6. Calm({}, T, Y) /\ Y \in TxRec
    BY <2>2, <2>5 DEF Calm
  <2> QED
    BY <2>4, <2>5, <2>6
<1>3. U \in I
  BY ONLY <1>1, <1>2, SendsStays, n \in Nat, n = Len(s), U = Sends!Run(FALSE, T, s)
<1> QED
  BY <1>3

\* and those that are ready at the head of the list, of which w alone may have
\* succeeded.
LEMMA OrderedCalm ==
  ASSUME conf \in Conf, NEW d \in BOOLEAN, NEW T \in TxRec, ListT(d, T), NEW s \in Seq(WR), NEW w \in WR,
         \A v \in Ran(s) : v \notin Ran(T.list) /\ (v # w => T.snd[v].ok = FALSE),
         T.snd[w].ok /\ ~d => (\A a \in OkSet(T) : a <= w) /\ (\A v \in Ran(T.list) : w < v),
         NEW M, M = {x \in {w} : T.snd[w].ok},
         NEW U, U = Ordered!Run(d, T, s)
  PROVE  ListT(d, U) /\ Calm(M, T, U)
<1> PICK n \in Nat : n = Len(s)
  OBVIOUS
<1> PICK I : I = {X \in TxRec : ListT(d, X) /\ Calm(M, T, X)}
  OBVIOUS
<1>0. T.snd[w] \in SndRec /\ w <= w
  BY SizeAssumption DEF TxRec, WR
<1>1. T \in I
  BY DEF Calm
<1>2. ASSUME NEW k \in 1..n, NEW X \in I PROVE CompleteOrdered(d, X, s[k]) \in I
  <2> PICK v \in WR : v = s[k]
    OBVIOUS
  <2>1. v \in Ran(s)
    BY DEF Ran
  <2>2. X \in TxRec /\ ListT(d, X) /\ Calm(M, T, X) /\ X.snd[v] \in SndRec
    BY DEF TxRec
  <2> PICK ok \in BOOLEAN : ok = X.snd[v].ok
    BY <2>2 DEF SndRec
  <2>3. v \notin Ran(X.list) /\ (ok => v = w /\ T.snd[w].ok)
    BY <2>1, <2>2 DEF Calm
  <2>4. CASE ok /\ d
    <3>2. X.late \cup {v} \in SUBSET WR
      BY <2>2 DEF TxRec
    <3> PICK l \in SUBSET WR : l = X.late \cup {v}
      BY <3>2
    <3> PICK Y : Y = [X EXCEPT !.late = l]
      OBVIOUS
    <3>1. CompleteOrdered(d, X, s[k]) = Y
      BY <2>4 DEF CompleteOrdered
    <3>3. /\ Y \in TxRec /\ Y.snd = X.snd /\ Y.list = X.list /\ Y.pq = X.pq
          /\ Y.late = X.late \cup {v} /\ Y.cq = X.cq
      <4>1. /\ Y \in TxRec /\ Y.snd = X.snd /\ Y.list = X.list /\ Y.pq = X.pq
            /\ Y.late = l /\ Y.cq = X.cq
        <5>1. X \in TxRec
          BY <2>2
        <5> QED
          BY ONLY <5>1, l \in SUBSET WR, Y = [X EXCEPT !.late = l] DEF TxRec
      <4> QED
        BY ONLY <4>1, l = X.late \cup {v}
    <3>4. OkSet(Y) = OkSet(X) /\ CqT(d, Y)
      BY <2>2, <3>3 DEF OkSet, CqT, ListT
    <3>5. ListT(d, Y)
      <4>1. X.snd[v].ok
        BY <2>4
      <4> QED
        BY ONLY <2>2, <2>4, <3>3, <3>4, <4>1 DEF ListT
    <3>6. Calm(M, T, Y)
      BY ONLY <2>2, <3>3, <3>4 DEF Calm
    <3> QED
      BY <3>1, <3>3, <3>5, <3>6
  <2>5. CASE ~(ok /\ d)
    <3> PICK Y : Y = SendComplete(X, v, ok)
      OBVIOUS
    <3>1. CompleteOrdered(d, X, s[k]) = Y
      BY <2>5 DEF CompleteOrdered
    <3>2. ok /\ ~d => (\A a \in OkSet(X) : a <= v) /\ (\A u \in Ran(X.list) : v < u)
      BY <1>0, <2>2, <2>3 DEF Calm
    <3>3. ListT(d, Y) /\ Calm({x \in {v} : ok}, X, Y)
      BY ONLY <2>2, <2>3, <3>2, CompleteCalm, conf \in Conf, v \in WR, ok \in BOOLEAN, ok = X.snd[v].ok,
              Y = SendComplete(X, v, ok)
    <3> PICK N : N = {x \in {v} : ok}
      OBVIOUS
    <3>4. N \subseteq M
      BY <2>3
    <3>5. Calm(M, T, Y) /\ Y \in TxRec
      BY ONLY <2>2, <3>3, <3>4, N = {x \in {v} : ok} DEF Calm
    <3> QED
      BY <3>1, <3>3, <3>5
  <2> QED
    BY <2>4, <2>5
<1>3. U \in I
  BY ONLY <1>1, <1>2, OrderedStays, n \in Nat, n = Len(s), U = Ordered!Run(d, T, s)
<1> QED
  BY <1>3

\* Entries leave the list.
LEMMA ListCut ==
  ASSUME NEW d, NEW T \in TxRec, ListT(d, T), NEW l \in Seq(WR), Ran(l) \subseteq Ran(T.list),
         Rising(T.list) => Rising(l), NEW U, U = [T EXCEPT !.list = l]
  PROVE  ListT(d, U) /\ OkSet(U) = OkSet(T)
<1>1. U.snd = T.snd /\ U.list = l /\ U.late = T.late /\ U.cq = T.cq
  BY ListShape
<1>2. OkSet(U) = OkSet(T) /\ CqT(d, U)
  BY <1>1 DEF OkSet, CqT, ListT
<1> QED
  BY <1>1, <1>2 DEF ListT

\* What the failure of sends leaves of those that stay on the list.
Kept(T, U) ==
  /\ U \in TxRec /\ Ran(U.list) \subseteq Ran(T.list)
  /\ \A v \in WR : U.snd[v].ok => T.snd[v].ok
  /\ \A v \in Ran(U.list) : \/ U.snd[v].ready
                            \/ U.snd[v] = T.snd[v] /\ FramesOf(U.pq, v) = FramesOf(T.pq, v)

\* One failure after the other.
LEMMA KeptTrans ==
  ASSUME NEW T, NEW U, NEW V, Kept(T, U), Kept(U, V)
  PROVE  Kept(T, V)
BY DEF Kept

\* A send is taken off the list and completed.
LEMMA UnqueueOk ==
  ASSUME conf \in Conf, NEW d, NEW T \in TxRec, ListT(d, T), NEW w \in WR,
         NEW U, U = Unqueue(FALSE, T, w)
  PROVE  ListT(d, U) /\ Kept(T, U) /\ w \notin Ran(U.list)
<1>0. T.list \in Seq(WR)
  BY DEF TxRec
<1>1. CASE ~Contains(T.list, w)
  <2>1. U = T /\ w \notin Ran(T.list)
    BY <1>0, <1>1, RanFacts DEF Unqueue
  <2> QED
    BY <2>1 DEF Kept
<1>2. CASE Contains(T.list, w)
  <2> PICK l : l = Drop(T.list, w)
    OBVIOUS
  <2>1. l \in Seq(WR) /\ Ran(l) \subseteq Ran(T.list) /\ Rising(l) /\ w \notin Ran(l)
    BY <1>0, <1>2, DropFacts DEF ListT
  <2> PICK V : V = [T EXCEPT !.list = l]
    OBVIOUS
  <2>2. U = SendComplete(V, w, FALSE)
    BY <1>2 DEF Unqueue
  <2>3. V \in TxRec /\ V.list = l /\ V.snd = T.snd /\ V.pq = T.pq
    BY <2>1, ListShape
  <2>4. ListT(d, V)
    BY <2>1, ListCut
  <2>5. ListT(d, U) /\ Calm({x \in {w} : FALSE}, V, U)
    BY <2>1, <2>2, <2>3, <2>4, CompleteCalm
  <2> QED
    BY <2>1, <2>3, <2>5 DEF Calm, Kept
<1> QED
  BY <1>1, <1>2

\* A flush fails everything.
LEMMA FlushOk ==
  ASSUME conf \in Conf, NEW d, NEW T \in TxRec, ListT(d, T), NEW U, U = Flush(T)
  PROVE  ListT(d, U) /\ \A v \in WR : U.snd[v].ok => T.snd[v].ok
<1>0. <<>> \in Seq(WR)
  OBVIOUS
<1> PICK e \in Seq(WR) : e = <<>>
  BY <1>0
<1> PICK S : S = [T EXCEPT !.sq = e]
  OBVIOUS
<1> PICK s \in Seq(WR) : s = T.sq
  BY DEF TxRec
<1>1. S \in TxRec /\ S.snd = T.snd /\ S.list = T.list /\ S.late = T.late /\ S.cq = T.cq /\ S.pq = T.pq
  BY ONLY T \in TxRec, e \in Seq(WR), S = [T EXCEPT !.sq = e], SqShape
<1>2. ListT(d, S) /\ Kept(S, S)
  BY <1>1 DEF ListT, CqT, OkSet, Kept
<1> PICK V : V = Entries!Run(FALSE, S, s)
  OBVIOUS
<1> PICK n \in Nat : n = Len(s)
  OBVIOUS
<1> PICK I : I = {X \in TxRec : ListT(d, X) /\ Kept(S, X)}
  OBVIOUS
<1>3. S \in I
  BY <1>1, <1>2
<1>4. ASSUME NEW k \in 1..n, NEW X \in I PROVE Unqueue(FALSE, X, s[k]) \in I
  <2> PICK w \in WR : w = s[k]
    OBVIOUS
  <2> PICK Y : Y = Unqueue(FALSE, X, w)
    OBVIOUS
  <2>1. ListT(d, Y) /\ Kept(X, Y)
    BY UnqueueOk
  <2>2. Kept(S, Y) /\ Y \in TxRec
    <3>1. Kept(S, X)
      OBVIOUS
    <3> QED
      BY ONLY <2>1, <3>1, KeptTrans DEF Kept
  <2> QED
    BY <2>1, <2>2
<1>5. V \in I
  BY ONLY <1>3, <1>4, EntriesStays, n \in Nat, n = Len(s), V = Entries!Run(FALSE, S, s)
<1>6. V \in TxRec /\ ListT(d, V) /\ Kept(S, V) /\ V.list \in Seq(WR)
  BY <1>5 DEF TxRec
<1> PICK W : W = [V EXCEPT !.list = e]
  OBVIOUS
<1>7. W \in TxRec /\ W.list = e /\ W.snd = V.snd /\ ListT(d, W) /\ Ran(e) = {}
  <2>1. Ran(e) = {} /\ Rising(e)
    BY DEF Ran, Rising
  <2>2. W \in TxRec /\ W.list = e /\ W.snd = V.snd
    BY ONLY <1>6, ListShape, e \in Seq(WR), W = [V EXCEPT !.list = e]
  <2> QED
    BY ONLY <1>6, <2>1, <2>2, ListCut, e \in Seq(WR), W = [V EXCEPT !.list = e]
<1>8. \A v \in Ran(V.list) : v \notin Ran(W.list) /\ W.snd[v].ok = FALSE
  <2>1. \A v \in Ran(V.list) : V.snd[v].ok = FALSE
    BY <1>6 DEF ListT
  <2> QED
    BY ONLY <1>7, <2>1
<1>9. U = Sends!Run(FALSE, W, V.list)
  BY DEF Flush, FlushSends, FlushAppleSq
<1>10. ListT(d, U) /\ Calm({}, W, U)
  BY <1>6, <1>7, <1>8, <1>9, SendsCalm
<1> QED
  BY <1>1, <1>6, <1>7, <1>10 DEF Calm, Kept

\* Sends whose success only grows, off the list, keep the completions in order.
LEMMA CqSame ==
  ASSUME NEW d, NEW T, CqT(d, T), NEW U, U.cq = T.cq, T.cq \in Seq(CqRec),
         \A v \in WR : (T.snd[v].done => U.snd[v].done) /\ (T.snd[v].ok => U.snd[v].ok)
  PROVE  CqT(d, U) /\ OkSet(U) = OkSet(T)
<1>1. \A k \in DOMAIN T.cq : T.cq[k] \in CqRec
  OBVIOUS
<1>2. \A k \in DOMAIN T.cq : T.cq[k].w \in WR
  BY ONLY <1>1 DEF CqRec
<1> QED
  BY <1>2 DEF CqT, OkSet

\* What one frame's way off the path makes of the sends.
TxOk(d, T, w, ok, U) ==
  /\ ListT(d, U) /\ U \in TxRec /\ Ran(U.list) \subseteq Ran(T.list)
  /\ \A v \in WR : U.snd[v].ok =>
       T.snd[v].ok \/ (v = w /\ ok /\ w \in Ran(T.list) /\ ~T.snd[w].ready /\ T.snd[w].left = 1)
  /\ \A v \in Ran(U.list) : v # w => U.snd[v] = T.snd[v] /\ FramesOf(U.pq, v) = FramesOf(T.pq, v)
  /\ w \in Ran(U.list) => \/ U.snd[w].ready
                          \/ /\ ok /\ T.snd[w].left # 1 /\ U.snd[w] = LeftLess(T.snd[w])
                             /\ FramesOf(U.pq, w) = FramesOf(T.pq, w)

\* The send of the frame is at the head of those that are not ready.
LEMMA HeadReady ==
  ASSUME NEW T \in TxRec, Rising(T.list), NEW w \in Ran(T.list), T.snd[w].ready,
         \A v \in Ran(T.list) : v < w => T.snd[v].ready,
         NEW n \in Nat, n <= Len(T.list), n = Len(T.list) \/ ~T.snd[T.list[n + 1]].ready
  PROVE  w \in Ran(SubSeq(T.list, 1, n)) /\ \A v \in Ran(SubSeq(T.list, n + 1, Len(T.list))) : w < v
<1> PICK l \in Seq(WR) : l = T.list
  BY DEF TxRec
<1> PICK m \in Nat : m = Len(l)
  OBVIOUS
<1> PICK j \in 1..m : w = l[j]
  BY DEF Ran
<1>1. ASSUME j > n PROVE FALSE
  <2>1. n + 1 \in 1..m /\ n # m /\ (n + 1 = j \/ n + 1 < j)
    BY ONLY <1>1, n \in Nat, m \in Nat, j \in 1..m
  <2>2. ~T.snd[l[n + 1]].ready
    BY <2>1
  <2>3. n + 1 # j
    BY <2>2
  <2>4. l[n + 1] < w /\ l[n + 1] \in Ran(l)
    BY <2>1, <2>3 DEF Rising, Ran
  <2> QED
    BY <2>2, <2>4
<1>2. j \in 1..n
  BY ONLY <1>1, j \in 1..m, m \in Nat, n \in Nat
<1> PICK p : p = SubSeq(l, 1, n)
  OBVIOUS
<1> PICK r : r = SubSeq(l, n + 1, Len(l))
  OBVIOUS
<1>3. /\ p \in Seq(WR) /\ Len(p) = n /\ (\A k \in 1..n : p[k] = l[k])
      /\ \A x \in Ran(p), y \in Ran(r) : x < y
  BY ONLY SubRising, l \in Seq(WR), l = T.list, Rising(T.list), p = SubSeq(l, 1, n), r = SubSeq(l, n + 1, Len(l)),
          n \in Nat, n <= Len(T.list)
<1>4. w \in Ran(p)
  <2>1. DOMAIN p = 1..n
    BY ONLY <1>3
  <2>2. p[j] = w
    BY <1>2, <1>3
  <2> QED
    BY ONLY <1>2, <2>1, <2>2 DEF Ran
<1> QED
  BY <1>3, <1>4

\* One frame leaves the path: a success is the last frame of a send that has
\* only sends before it that are ready.
LEMMA TxDoneOk ==
  ASSUME conf \in Conf, NEW d, d = conf.delay, NEW T \in TxRec, ListT(d, T), NEW w \in WR, NEW ok \in BOOLEAN,
         ok /\ w \in Ran(T.list) /\ ~T.snd[w].ready /\ T.snd[w].left = 1 =>
           \A v \in Ran(T.list) : v < w => T.snd[v].ready,
         NEW U, U = TxDone(T, w, ok)
  PROVE  TxOk(d, T, w, ok, U)
<1> PICK S : S = [T EXCEPT !.snd[w].left = @ - 1]
  OBVIOUS
<1>0. /\ \A v \in WR : T.snd[v] \in SndRec
      /\ T.list \in Seq(WR) /\ Ran(T.list) \subseteq WR /\ T.cq \in Seq(CqRec) /\ T.late \subseteq WR
      /\ d \in BOOLEAN
  BY RanFacts, ConfFacts DEF TxRec
<1>1. /\ S \in TxRec /\ S.list = T.list /\ S.pq = T.pq /\ S.late = T.late /\ S.cq = T.cq
      /\ S.snd[w] = LeftLess(T.snd[w]) /\ \A v \in WR : v # w => S.snd[v] = T.snd[v]
  BY LeftShape DEF SndTo, SameQueues
<1>2. /\ S.snd[w].left = T.snd[w].left - 1 /\ S.snd[w].ok = T.snd[w].ok /\ S.snd[w].ready = T.snd[w].ready
      /\ S.snd[w].done = T.snd[w].done /\ S.snd[w] \in SndRec /\ T.snd[w].left \in Int
  <2> PICK s \in SndRec : s = T.snd[w]
    BY <1>0
  <2>1. LeftLess(s).left = s.left - 1 /\ LeftLess(s).ok = s.ok /\ LeftLess(s).ready = s.ready
        /\ LeftLess(s).done = s.done /\ LeftLess(s) \in SndRec /\ s.left \in Int
    BY DEF LeftLess, SndRec
  <2> QED
    BY <1>1, <2>1
<1>3. \A v \in WR : S.snd[v].ok = T.snd[v].ok /\ S.snd[v].done = T.snd[v].done
  BY <1>1, <1>2
<1>4. CASE (ok /\ S.snd[w].left # 0) \/ ~Contains(T.list, w)
  <2>1. U = S
    BY <1>4 DEF TxDone
  <2>2. CqT(d, S) /\ OkSet(S) = OkSet(T)
    <3>1. CqT(d, T)
      BY DEF ListT
    <3> QED
      BY ONLY <1>0, <1>1, <1>3, <3>1, CqSame
  <2>3. ListT(d, S)
    BY <1>0, <1>1, <1>3, <2>2 DEF ListT
  <2>4. w \in Ran(T.list) => ok /\ T.snd[w].left # 1
    BY <1>0, <1>2, <1>4, RanFacts
  <2> QED
    BY <1>1, <1>3, <2>1, <2>3, <2>4 DEF TxOk
<1>5. CASE ~((ok /\ S.snd[w].left # 0) \/ ~Contains(T.list, w))
  <2> PICK V : V = Ready(S, w, ok)
    OBVIOUS
  <2>1. w \in Ran(T.list) /\ (ok => T.snd[w].left = 1)
    BY <1>0, <1>2, <1>5, RanFacts
  <2>2. T.snd[w].ok = FALSE /\ \A v \in Ran(T.list) : T.snd[v].ok = FALSE
    BY <2>1 DEF ListT
  <2>3. /\ V \in TxRec /\ V.list = T.list /\ V.pq = T.pq /\ V.late = T.late /\ V.cq = T.cq
        /\ \A v \in WR : v # w => V.snd[v] = T.snd[v]
        /\ V.snd[w].ready /\ V.snd[w].done = T.snd[w].done
        /\ V.snd[w].ok => ok /\ ~T.snd[w].ready
        /\ V.snd[w] \in SndRec
    <3>1. CASE S.snd[w].ready
      <4>1. V = S
        BY <1>1, <3>1, ReadyShape
      <4> QED
        BY <1>1, <1>2, <2>2, <3>1, <4>1
    <3>2. CASE ~S.snd[w].ready
      <4>1. SndTo(S, w, ReadyWith(S.snd[w], ok), V)
        BY ONLY <1>1, <3>2, ReadyShape, w \in WR, ok \in BOOLEAN, V = Ready(S, w, ok)
      <4>2. /\ ReadyWith(S.snd[w], ok).ready /\ ReadyWith(S.snd[w], ok).done = S.snd[w].done
            /\ ReadyWith(S.snd[w], ok).ok = ok /\ ReadyWith(S.snd[w], ok) \in SndRec
        BY ONLY <1>2, ok \in BOOLEAN DEF ReadyWith, SndRec
      <4> QED
        BY <1>1, <1>2, <3>2, <4>1, <4>2 DEF SndTo, SameQueues
    <3> QED
      BY <3>1, <3>2
  <2>4. PICK n \in Nat : /\ n <= Len(V.list) /\ ReadyPrefix(V) = SubSeq(V.list, 1, n) /\ Len(ReadyPrefix(V)) = n
                         /\ n = Len(V.list) \/ ~V.snd[V.list[n + 1]].ready
    BY ONLY <2>3, PrefixFacts
  <2> PICK p : p = ReadyPrefix(V)
    OBVIOUS
  <2> PICK l : l = SubSeq(V.list, n + 1, Len(V.list))
    OBVIOUS
  <2>5. /\ p \in Seq(WR) /\ l \in Seq(WR) /\ Ran(T.list) = Ran(p) \cup Ran(l) /\ Rising(l)
        /\ \A x \in Ran(p), y \in Ran(l) : x < y
    BY ONLY <1>0, <2>3, <2>4, SubRising, p = ReadyPrefix(V), l = SubSeq(V.list, n + 1, Len(V.list)), n \in Nat,
            ListT(d, T) DEF ListT
  <2>6. V.snd[w].ok => w \in Ran(p) /\ \A v \in Ran(l) : w < v
    <3> SUFFICES ASSUME V.snd[w].ok PROVE w \in Ran(p) /\ \A v \in Ran(l) : w < v
      OBVIOUS
    <3>0. \A v \in Ran(T.list) : v < w => T.snd[v].ready
      BY <2>1, <2>3
    <3>1. \A v \in Ran(V.list) : v < w => V.snd[v].ready
      BY ONLY <1>0, <2>3, <3>0
    <3>2. Rising(V.list) /\ w \in Ran(V.list) /\ V.snd[w].ready
      BY <2>1, <2>3 DEF ListT
    <3> QED
      BY ONLY <2>3, <2>4, <3>1, <3>2, HeadReady, n \in Nat, p = ReadyPrefix(V),
              l = SubSeq(V.list, n + 1, Len(V.list))
  <2>7. \A x \in WR : ~(x < x)
    BY SizeAssumption DEF WR
  <2>8. V.snd[w].ok => w \notin Ran(l)
    BY <2>6, <2>7
  <2> PICK W : W = [V EXCEPT !.list = l]
    OBVIOUS
  <2>9. W \in TxRec /\ W.snd = V.snd /\ W.list = l /\ W.pq = T.pq /\ W.late = T.late /\ W.cq = T.cq
    BY ONLY <2>3, <2>5, ListShape, W = [V EXCEPT !.list = l]
  <2>10. \A v \in WR : (T.snd[v].done => W.snd[v].done) /\ (T.snd[v].ok => W.snd[v].ok)
    BY ONLY <2>2, <2>3, <2>9
  <2>11. CqT(d, W) /\ OkSet(W) = OkSet(T)
    <3>1. CqT(d, T)
      BY DEF ListT
    <3> QED
      BY ONLY <1>0, <2>9, <2>10, <3>1, CqSame
  <2>12. \A v \in Ran(T.list) : v # w => W.snd[v].ok = FALSE
    BY ONLY <1>0, <2>2, <2>3, <2>9
  <2>13. \A v \in Ran(l) : W.snd[v].ok = FALSE
    <3>1. ASSUME NEW v \in Ran(l), v = w PROVE W.snd[v].ok = FALSE
      <4>1. ~V.snd[w].ok
        BY <2>8, <3>1
      <4> QED
        BY ONLY <2>3, <2>9, <3>1, <4>1 DEF SndRec
    <3> QED
      BY ONLY <2>5, <2>12, <3>1
  <2>14. ListT(d, W)
    <3>1. \A v \in W.late : W.snd[v].ok
      BY ONLY <1>0, <2>9, <2>10, ListT(d, T) DEF ListT
    <3>2. ~d => W.late = {} /\ \A a \in OkSet(W), v \in Ran(W.list) : a < v
      <4>1. ~d => T.late = {} /\ \A a \in OkSet(T), v \in Ran(T.list) : a < v
        BY DEF ListT
      <4>2. \A v \in Ran(W.list) : v \in Ran(T.list)
        BY ONLY <2>5, <2>9
      <4> QED
        BY ONLY <2>9, <2>11, <4>1, <4>2
    <3> QED
      BY ONLY <2>5, <2>9, <2>11, <2>13, <3>1, <3>2 DEF ListT
  <2>15. \A v \in Ran(p) : v \notin Ran(W.list) /\ (v # w => W.snd[v].ok = FALSE)
    BY ONLY <1>0, <2>5, <2>7, <2>9, <2>12
  <2>16. W.snd[w].ok /\ ~d => (\A a \in OkSet(W) : a <= w) /\ (\A v \in Ran(W.list) : w < v)
    <3>1. ~d => \A a \in OkSet(T) : a < w
      BY <2>1 DEF ListT
    <3>2. \A a \in OkSet(T) : a \in WR
      <4>1. \A k \in DOMAIN T.cq : T.cq[k] \in CqRec
        BY <1>0
      <4> QED
        BY <4>1 DEF OkSet, CqRec
    <3>3. \A x, y \in WR : x < y => x <= y
      BY ONLY SizeAssumption DEF WR
    <3> QED
      BY ONLY <2>6, <2>9, <2>11, <3>1, <3>2, <3>3, w \in WR
  <2>17. U = Ordered!Run(d, W, p)
    BY <1>5, <2>4, Zenon DEF TxDone
  <2> PICK M : M = {x \in {w} : W.snd[w].ok}
    OBVIOUS
  <2>18. ListT(d, U) /\ Calm(M, W, U)
    BY ONLY <1>0, <2>5, <2>9, <2>14, <2>15, <2>16, <2>17, OrderedCalm, conf \in Conf, w \in WR,
            M = {x \in {w} : W.snd[w].ok}
  <2>19. /\ U \in TxRec /\ U.list = l /\ \A v \in WR : U.snd[v].ok = W.snd[v].ok
         /\ U.snd[w].ready = W.snd[w].ready
         /\ \A v \in Ran(l) : U.snd[v] = W.snd[v] /\ FramesOf(U.pq, v) = FramesOf(W.pq, v)
    BY ONLY <2>9, <2>18, w \in WR DEF Calm
  <2>20. \A v \in WR : U.snd[v].ok => T.snd[v].ok \/ (v = w /\ ok /\ ~T.snd[w].ready)
    BY ONLY <2>3, <2>9, <2>19
  <2> QED
    <3>1. \A v \in WR : U.snd[v].ok =>
            T.snd[v].ok \/ (v = w /\ ok /\ w \in Ran(T.list) /\ ~T.snd[w].ready /\ T.snd[w].left = 1)
      BY ONLY <2>1, <2>20
    <3>2. Ran(U.list) \subseteq Ran(T.list)
      BY ONLY <2>5, <2>19
    <3>3. \A v \in Ran(U.list) : v # w => U.snd[v] = T.snd[v] /\ FramesOf(U.pq, v) = FramesOf(T.pq, v)
      BY ONLY <1>0, <2>3, <2>9, <2>19, <3>2
    <3>4. U.snd[w].ready
      BY ONLY <2>3, <2>9, <2>19
    <3> QED
      BY ONLY <2>18, <2>19, <3>1, <3>2, <3>3, <3>4 DEF TxOk
<1> QED
  BY <1>4, <1>5

\* All the frames of a queue leave the path as failures.
LEMMA FramesOk ==
  ASSUME conf \in Conf, NEW d, d = conf.delay, NEW T \in TxRec, ListT(d, T), NEW s \in Seq(FrameRec),
         NEW U, U = Frames!Run(FALSE, T, s)
  PROVE  /\ ListT(d, U) /\ Kept(T, U)
         /\ \A f \in Ran(s) : f[1] \notin Ran(U.list) \/ U.snd[f[1]].ready
<1> PICK n \in Nat : n = Len(s)
  OBVIOUS
<1> PICK J : J = [k \in 0..n |-> {X \in TxRec : ListT(d, X) /\ Kept(T, X)
                                     /\ \A j \in 1..k : s[j][1] \notin Ran(X.list) \/ X.snd[s[j][1]].ready}]
  OBVIOUS
<1>0. \A k \in 0..n : \A X : X \in J[k] <=>
        X \in TxRec /\ ListT(d, X) /\ Kept(T, X) /\ \A j \in 1..k : s[j][1] \notin Ran(X.list) \/ X.snd[s[j][1]].ready
  OBVIOUS
<1>1. T \in J[0]
  <2>1. 0 \in 0..n /\ 1..0 = {}
    OBVIOUS
  <2>2. Kept(T, T)
    BY DEF Kept
  <2> QED
    BY ONLY <1>0, <2>1, <2>2, T \in TxRec, ListT(d, T)
<1>2. ASSUME NEW k \in 1..n, NEW X \in J[k - 1] PROVE FrameDone(FALSE, X, s[k]) \in J[k]
  <2>0. k - 1 \in 0..n /\ k \in 0..n /\ \A j \in 1..k : j \in 1..(k - 1) \/ j = k
    OBVIOUS
  <2>1. /\ X \in TxRec /\ ListT(d, X) /\ Kept(T, X)
        /\ \A j \in 1..(k - 1) : s[j][1] \notin Ran(X.list) \/ X.snd[s[j][1]].ready
    BY <1>0, <2>0
  <2> PICK w \in WR : w = s[k][1]
    BY DEF FrameRec
  <2> PICK Y : Y = TxDone(X, w, FALSE)
    OBVIOUS
  <2>2. FrameDone(FALSE, X, s[k]) = Y
    BY DEF FrameDone
  <2>3. TxOk(d, X, w, FALSE, Y)
    BY <2>1, TxDoneOk
  <2>4. /\ ListT(d, Y) /\ Y \in TxRec /\ Ran(Y.list) \subseteq Ran(X.list)
        /\ (w \in Ran(Y.list) => Y.snd[w].ready)
        /\ (\A v \in WR : Y.snd[v].ok => X.snd[v].ok)
        /\ \A v \in Ran(Y.list) : v # w => Y.snd[v] = X.snd[v] /\ FramesOf(Y.pq, v) = FramesOf(X.pq, v)
    BY <2>3 DEF TxOk
  <2>5. Kept(X, Y)
    BY <2>4 DEF Kept
  <2>6. Kept(T, Y)
    BY <2>1, <2>5, KeptTrans
  <2>7. ASSUME NEW j \in 1..k PROVE s[j][1] \notin Ran(Y.list) \/ Y.snd[s[j][1]].ready
    BY <2>0, <2>1, <2>4
  <2> QED
    BY ONLY <1>0, <2>0, <2>2, <2>4, <2>6, <2>7
<1>3. U \in J[n]
  BY ONLY <1>1, <1>2, FramesRun, n \in Nat, n = Len(s), U = Frames!Run(FALSE, T, s)
<1>4. n \in 0..n
  OBVIOUS
<1>5. /\ ListT(d, U) /\ Kept(T, U)
      /\ \A j \in 1..n : s[j][1] \notin Ran(U.list) \/ U.snd[s[j][1]].ready
  BY ONLY <1>0, <1>3, <1>4
<1>6. ASSUME NEW f \in Ran(s) PROVE f[1] \notin Ran(U.list) \/ U.snd[f[1]].ready
  <2> PICK j \in 1..n : f = s[j]
    BY DEF Ran
  <2> QED
    BY ONLY <1>5, f = s[j], j \in 1..n
<1> QED
  BY <1>5, <1>6

-----------------------------------------------------------------------------
(* Frames in their order.                                                  *)

\* Frames leave in the order of their work requests, before those of a request
\* that the worker has not begun.
FifoInv ==
  /\ InOrder(tx.pq) /\ InOrder(tx.ring)
  /\ \A f \in Ran(tx.ring), g \in Ran(tx.pq) : f[1] <= g[1]
  /\ wk.pc \notin {"idle", "top"} => \A f \in Frs(tx) : f[1] <= wk.w
  /\ \A f \in Frs(tx), v \in Ran(tx.sq) : f[1] < v

\* A frame that is not before those of a queue goes to its end.
LEMMA OrderAppend ==
  ASSUME NEW s \in Seq(FrameRec), InOrder(s), NEW f \in FrameRec, \A g \in Ran(s) : g[1] <= f[1]
  PROVE  InOrder(Append(s, f))
<1> PICK n \in Nat : n = Len(s)
  OBVIOUS
<1> PICK r : r = Append(s, f)
  OBVIOUS
<1>1. DOMAIN s = 1..n /\ DOMAIN r = 1..(n + 1) /\ r[n + 1] = f /\ \A k \in 1..n : r[k] = s[k]
  BY ONLY s \in Seq(FrameRec), f \in FrameRec, n \in Nat, n = Len(s), r = Append(s, f)
<1>2. \A k \in 1..n : s[k] \in Ran(s)
  BY <1>1 DEF Ran
<1>3. ASSUME NEW j \in 1..(n + 1), NEW k \in 1..(n + 1), j < k PROVE r[j][1] <= r[k][1]
  <2>1. j \in 1..n /\ (k \in 1..n \/ k = n + 1)
    BY ONLY <1>3, n \in Nat
  <2> QED
    BY <1>1, <1>2, <1>3, <2>1 DEF InOrder
<1> QED
  BY <1>1, <1>3 DEF InOrder

\* The first frame leaves a queue.
LEMMA OrderTail ==
  ASSUME NEW s \in Seq(FrameRec), InOrder(s), s # <<>>
  PROVE  InOrder(Tail(s)) /\ \A g \in Ran(s) : Head(s)[1] <= g[1]
<1> PICK n \in Nat : n = Len(s)
  OBVIOUS
<1> PICK r : r = Tail(s)
  OBVIOUS
<1>1. n > 0 /\ DOMAIN s = 1..n /\ DOMAIN r = 1..(n - 1) /\ Head(s) = s[1] /\ \A k \in 1..(n - 1) : r[k] = s[k + 1]
  BY ONLY s \in Seq(FrameRec), s # <<>>, n \in Nat, n = Len(s), r = Tail(s)
<1>2. \A j, k \in 1..(n - 1) : j < k => j + 1 \in 1..n /\ k + 1 \in 1..n /\ j + 1 < k + 1
  BY ONLY n \in Nat
<1>3. InOrder(r)
  BY <1>1, <1>2 DEF InOrder
<1>4. ASSUME NEW k \in 1..n PROVE s[1][1] <= s[k][1]
  <2>1. k = 1 \/ (1 < k /\ 1 \in 1..n)
    BY ONLY n \in Nat, k \in 1..n
  <2>2. s[1] \in FrameRec
    BY <1>1
  <2>3. s[1][1] \in Nat
    BY <2>2, SizeAssumption DEF FrameRec, WR
  <2>4. s[1][1] <= s[1][1]
    BY ONLY <2>3
  <2> QED
    BY <1>1, <2>1, <2>4 DEF InOrder
<1> QED
  BY <1>1, <1>3, <1>4 DEF Ran

\* A step that puts no frame on the path.
LEMMA FifoKeep ==
  ASSUME FifoInv, InOrder(tx'.pq), InOrder(tx'.ring), Ran(tx'.pq) \subseteq Ran(tx.pq),
         Ran(tx'.ring) \subseteq Ran(tx.ring), Ran(tx'.sq) \subseteq Ran(tx.sq),
         wk'.pc \notin {"idle", "top"} => wk.pc \notin {"idle", "top"} /\ wk'.w = wk.w
  PROVE  FifoInv'
BY DEF FifoInv, Frs

\* A step that leaves the path alone.
LEMMA FifoSame ==
  ASSUME FifoInv, SamePath(tx, tx'), Ran(tx'.sq) \subseteq Ran(tx.sq),
         wk'.pc \notin {"idle", "top"} => wk.pc \notin {"idle", "top"} /\ wk'.w = wk.w
  PROVE  FifoInv'
BY FifoKeep DEF FifoInv, SamePath

\* So are completions,
LEMMA FifoLess ==
  ASSUME FifoInv, NEW T \in TxRec, Less(T, tx'), InOrder(T.pq), InOrder(T.ring), Ran(T.pq) \subseteq Ran(tx.pq),
         Ran(T.ring) \subseteq Ran(tx.ring), Ran(T.sq) \subseteq Ran(tx.sq),
         wk'.pc \notin {"idle", "top"} => wk.pc \notin {"idle", "top"} /\ wk'.w = wk.w
  PROVE  FifoInv'
<1>1. InOrder(tx'.pq) /\ Ran(tx'.pq) \subseteq Ran(T.pq) /\ tx'.ring = T.ring /\ tx'.sq = T.sq
  BY DEF Less
<1> QED
  BY <1>1, FifoKeep

\* a flush
LEMMA FifoFlush ==
  ASSUME Inv1, FifoInv, UNCHANGED wk, tx' = Flush(tx)
  PROVE  FifoInv'
<1> PICK T : T = [tx EXCEPT !.sq = <<>>]
  OBVIOUS
<1>0. tx \in TxRec /\ <<>> \in Seq(WR) /\ Ran(<<>>) = {}
  BY DEF Inv1, TxTypes, Ran
<1>1. T \in TxRec /\ T.pq = tx.pq /\ T.ring = tx.ring /\ T.sq = <<>>
  BY <1>0 DEF TxRec
<1>2. Less(T, tx')
  BY LoopTx DEF Inv1
<1>3. InOrder(T.pq) /\ InOrder(T.ring)
  BY <1>1 DEF FifoInv
<1> QED
  BY <1>0, <1>1, <1>2, <1>3, FifoLess

\* The worker.
LEMMA FifoWorker ==
  ASSUME Inv1, SendInv, FifoInv, Worker
  PROVE  FifoInv'
<1>0. /\ wk \in WkRec /\ tx \in TxRec /\ conf \in Conf /\ tx.pq \in Seq(FrameRec) /\ tx.sq \in Seq(WR)
      /\ Frs(tx) \subseteq FrameRec /\ \A f \in FrameRec : f[1] \in WR
  BY SendTypes
<1>1. CASE WorkerPop
  <2>1. CASE wk' = IdleWorker /\ tx' = tx
    <3>1. wk'.pc = "idle"
      BY <2>1 DEF IdleWorker
    <3> QED
      BY <2>1, <3>1, FifoSame DEF SamePath
  <2>2. CASE wk' = [IdleWorker EXCEPT !.pc = "popped", !.w = Head(tx.sq)] /\ ~(wk' = IdleWorker /\ tx' = tx)
    <3>1. /\ tx'.sq = Tail(tx.sq) /\ SamePath(tx, tx') /\ Ran(tx.sq) = Ran(Tail(tx.sq)) \cup {Head(tx.sq)}
          /\ Head(tx.sq) \in WR
      BY <1>1, <2>2, WorkerPopTx DEF Inv1
    <3>2. wk'.w = Head(tx.sq)
      BY ONLY <2>2 DEF IdleWorker
    <3>3. \A x, y \in WR : x < y => x <= y
      BY SizeAssumption DEF WR
    <3>4. \A f \in Frs(tx) : f[1] <= wk'.w
      BY <1>0, <3>1, <3>2, <3>3 DEF FifoInv
    <3>5. Frs(tx') = Frs(tx) /\ Ran(tx'.sq) \subseteq Ran(tx.sq)
      BY <3>1 DEF Frs, SamePath
    <3> QED
      BY <3>1, <3>4, <3>5 DEF FifoInv, SamePath
  <2> QED
    BY <1>1, <2>1, <2>2, WorkerPopTx DEF Inv1
<1>2. CASE WorkerGet \/ WorkerPath(BoundTo) \/ WorkerCheck \/ WorkerGroup
  <2>1. tx' = tx /\ wk.pc \notin {"idle", "top"} /\ wk'.w = wk.w
    BY <1>0, <1>2 DEF WorkerGet, WorkerPath, WorkerCheck, WorkerGroup, WkRec
  <2> QED
    BY <2>1, FifoSame DEF SamePath
<1>3. CASE WorkerWindow \/ WorkerReserve(rail.closed) \/ WorkerSet
  <2>1. wk.pc \notin {"idle", "top"} /\ wk'.w = wk.w
    BY <1>0, <1>3 DEF WorkerWindow, WorkerReserve, WorkerSet, WkRec
  <2>2. wk.w \in WR
    BY <2>1 DEF Inv1, TxTypes
  <2>3. CASE WorkerWindow \/ WorkerReserve(rail.closed)
    <3>1. SamePath(tx, tx') /\ tx'.sq = tx.sq
      BY <1>0, <2>2, <2>3, WindowTx DEF WorkerWindow, WorkerReserve, WindowTo, SamePath, SameLists
    <3> QED
      BY <2>1, <3>1, FifoSame
  <2>4. CASE WorkerSet
    <3>1. SamePath(tx, tx') /\ tx'.sq = tx.sq
      BY <2>4, WorkerSetTx DEF Inv1, SndTo, SameQueues, SamePath
    <3> QED
      BY <2>1, <3>1, FifoSame
  <2> QED
    BY <1>3, <2>3, <2>4
<1>4. CASE WorkerPost(rail.closed)
  <2>1. wk.pc = "frame" /\ wk'.w = wk.w /\ wk.w \in WR
    BY <1>0, <1>4 DEF WorkerPost, WkRec, Inv1, TxTypes
  <2>2. CASE rail.closed
    <3>1. tx' = tx
      BY <1>4, <2>2 DEF WorkerPost
    <3> QED
      BY <2>1, <3>1, FifoSame DEF SamePath
  <2>3. CASE ~rail.closed
    <3>1. /\ <<wk.w, qp.ep>> \in FrameRec /\ tx'.pq = Append(tx.pq, <<wk.w, qp.ep>>) /\ tx'.ring = tx.ring
          /\ tx'.sq = tx.sq
      BY <1>4, <2>3, WorkerPostTx DEF Inv1, SameLists
    <3> PICK f \in FrameRec : f = <<wk.w, qp.ep>>
      BY <3>1
    <3>2. tx'.pq = Append(tx.pq, f) /\ f[1] = wk.w
      BY <3>1
    <3>3. Ran(tx'.pq) = Ran(tx.pq) \cup {f}
      BY ONLY <1>0, <3>2, f \in FrameRec, RanAppend
    <3>4. \A g \in Frs(tx) : g[1] <= f[1]
      BY <2>1, <3>2 DEF FifoInv
    <3>5. \A g \in Ran(tx.pq) : g[1] <= f[1]
      BY <3>4 DEF Frs
    <3>6. InOrder(tx.pq)
      BY DEF FifoInv
    <3>7. InOrder(tx'.pq)
      BY ONLY <1>0, <3>2, <3>5, <3>6, OrderAppend, f \in FrameRec
    <3>8. \A v \in Ran(tx.sq) : f[1] < v
      BY <2>1, <3>2 DEF SendInv, OrderInv
    <3>9. f[1] <= wk.w
      BY ONLY <2>1, <3>2, SizeAssumption DEF WR
    <3>10. \A g \in Frs(tx') : g \in Frs(tx) \/ g = f
      BY <3>1, <3>3 DEF Frs
    <3>11. \A g \in Frs(tx') : g[1] <= wk.w
      BY <2>1, <3>9, <3>10 DEF FifoInv
    <3>12. \A g \in Frs(tx'), v \in Ran(tx.sq) : g[1] < v
      BY <3>8, <3>10 DEF FifoInv
    <3>13. \A g \in Ran(tx.ring), h \in Ran(tx'.pq) : g[1] <= h[1]
      BY <3>3, <3>4 DEF FifoInv, Frs
    <3> QED
      BY <2>1, <3>1, <3>7, <3>11, <3>12, <3>13 DEF FifoInv
  <2> QED
    BY <2>2, <2>3
<1>5. CASE WorkerEnd
  <2>1. wk'.pc = "top"
    BY <1>5 DEF WorkerEnd, IdleWorker
  <2>2. Less(tx, tx')
    BY <1>5, LoopTx DEF Inv1
  <2> QED
    BY <1>0, <2>1, <2>2, FifoLess DEF FifoInv
<1> QED
  BY <1>1, <1>2, <1>3, <1>4, <1>5 DEF Worker

\* Posting: the request is after all that have a frame on the path.
LEMMA FifoPost ==
  ASSUME Inv1, SendInv, FifoInv, Post \/ PostStep
  PROVE  FifoInv'
<1>0. /\ tx \in TxRec /\ tx.sq \in Seq(WR) /\ Frs(tx) \subseteq FrameRec /\ \A f \in FrameRec : f[1] \in WR
  BY SendTypes
<1>1. UNCHANGED wk
  BY DEF Post, PostStep, PostGetLive, PostSlot, PostQueueSend, PostQueueEntry
<1>2. CASE Post \/ PostSlot \/ PostQueueSend
  <2>1. SamePath(tx, tx') /\ tx'.sq = tx.sq
    <3>1. CASE Post
      <4>1. PICK w \in WR : PostGetLive(w)
        BY <3>1 DEF Post
      <4> QED
        BY <4>1, PostGetLiveTx DEF Inv1, SndTo, SameQueues, SamePath
    <3>2. CASE PostSlot
      BY <3>2, PostSlotTx DEF Inv1, SndTo, SameQueues, SamePath, SameLists
    <3>3. CASE PostQueueSend
      BY <3>3, PostQueueSendTx DEF Inv1
    <3> QED
      BY <1>2, <3>1, <3>2, <3>3
  <2> QED
    BY <1>1, <2>1, FifoSame
<1>3. CASE PostQueueEntry
  <2> PICK w : w = poster.w
    OBVIOUS
  <2>1. tx'.sq = Append(tx.sq, w) /\ SamePath(tx, tx') /\ w \in WR /\ poster.pc = "entry"
    BY <1>3, PostQueueEntryTx DEF Inv1, PostQueueEntry
  <2>2. Ran(tx'.sq) = Ran(tx.sq) \cup {w}
    BY <1>0, <2>1, RanAppend
  <2>3. w \in Early
    BY <2>1 DEF Early
  <2>4. ASSUME NEW f \in Frs(tx) PROVE f[1] < w
    <3>1. f[1] \in WR /\ f[1] # w
      BY <1>0, <2>3 DEF SendInv, AccInv, Acc, Clean, Frs
    <3>2. tx.snd[f[1]].qp = qp.inc
      BY DEF Inv1, OwnInv, OwnT, Frs
    <3>3. qp.inc # 0
      BY <2>1, IncUsed
    <3>4. f[1] <= w
      BY <2>1, <3>1, <3>2, <3>3 DEF SendInv, OrderInv
    <3>5. \A x, y \in WR : x <= y /\ x # y => x < y
      BY SizeAssumption DEF WR
    <3> QED
      BY <2>1, <3>1, <3>4, <3>5
  <2>5. Frs(tx') = Frs(tx)
    BY <2>1 DEF Frs, SamePath
  <2> QED
    BY <1>1, <2>1, <2>2, <2>4, <2>5 DEF FifoInv, SamePath
<1> QED
  BY <1>2, <1>3 DEF PostStep

\* The path, the NHI, delayed completions and the timeout scan.
LEMMA FifoMoves ==
  ASSUME Inv1, FifoInv, Path \/ Nhi \/ Late \/ Expire
  PROVE  FifoInv'
<1>0. tx \in TxRec /\ conf \in Conf /\ tx.pq \in Seq(FrameRec) /\ tx.ring \in Seq(FrameRec)
  BY DEF Inv1, TxTypes, TxRec, RailInv, RailTypes
<1>1. UNCHANGED wk
  BY DEF Path, Nhi, Late, Expire, PathSchedule, NhiSend, SendCompleteWork, TimerExpire
<1>2. CASE Path
  <2>1. PathSchedule(rail.closed)
    BY <1>2 DEF Path
  <2>2. /\ tx.pq # <<>> /\ Head(tx.pq) \in FrameRec
        /\ tx'.ring = Append(tx.ring, Head(tx.pq)) /\ tx'.pq = Tail(tx.pq) /\ tx'.sq = tx.sq
    BY <2>1, PathScheduleTx DEF Inv1, SameLists
  <2> PICK f \in FrameRec : f = Head(tx.pq)
    BY <2>2
  <2>3. Ran(tx'.ring) = Ran(tx.ring) \cup {f} /\ Ran(tx.pq) = Ran(tx'.pq) \cup {f}
    BY <1>0, <2>2, RanAppend, RanTail
  <2>4. InOrder(tx'.pq) /\ \A g \in Ran(tx.pq) : f[1] <= g[1]
    BY <1>0, <2>2, OrderTail DEF FifoInv
  <2>5. \A g \in Ran(tx.ring) : g[1] <= f[1]
    BY <2>3 DEF FifoInv
  <2>6. InOrder(tx.ring)
    BY DEF FifoInv
  <2>7. InOrder(tx'.ring)
    BY ONLY <1>0, <2>2, <2>5, <2>6, OrderAppend, f \in FrameRec, f = Head(tx.pq)
  <2>8. Frs(tx') = Frs(tx)
    BY <2>3 DEF Frs
  <2>9. \A g \in Ran(tx'.ring), h \in Ran(tx'.pq) : g[1] <= h[1]
    BY <2>3, <2>4 DEF FifoInv
  <2> QED
    BY <1>1, <2>2, <2>4, <2>7, <2>8, <2>9 DEF FifoInv
<1>3. CASE Nhi
  <2> PICK w : w = Head(tx.ring)[1]
    OBVIOUS
  <2>1. tx.ring # <<>> /\ w \in WR /\ \E U : SentTo(tx, w, U) /\ tx' = TxDone(U, w, TRUE)
    BY <1>3, NhiSendTx DEF Nhi, Inv1
  <2> PICK U : SentTo(tx, w, U) /\ tx' = TxDone(U, w, TRUE)
    BY <2>1
  <2>2. U \in TxRec /\ U.pq = tx.pq /\ U.ring = Tail(tx.ring) /\ U.sq = tx.sq
    BY DEF SentTo, SameLists
  <2>3. Less(U, tx')
    BY <1>0, <2>1, <2>2, TxDoneLess
  <2>4. Ran(tx.ring) = Ran(U.ring) \cup {Head(tx.ring)}
    BY <1>0, <2>1, <2>2, RanTail
  <2>5. InOrder(U.ring) /\ InOrder(U.pq)
    BY <1>0, <2>1, <2>2, OrderTail DEF FifoInv
  <2> QED
    BY <1>1, <2>2, <2>3, <2>4, <2>5, FifoLess
<1>4. CASE Late
  <2>1. PICK w \in tx.late : SendCompleteWork(w)
    BY <1>4 DEF Late
  <2>2. w \in WR /\ LateTo(SendComplete(tx, w, TRUE), w, tx')
    BY <2>1, LateTx DEF Inv1
  <2> PICK U : U = SendComplete(tx, w, TRUE)
    OBVIOUS
  <2>3. Less(tx, U)
    BY <1>0, <2>2, DoneLess
  <2>4. tx'.pq = U.pq /\ tx'.ring = U.ring /\ tx'.sq = U.sq
    BY <2>2 DEF LateTo, SamePath
  <2>5. InOrder(tx'.pq) /\ Ran(tx'.pq) \subseteq Ran(tx.pq) /\ tx'.ring = tx.ring /\ tx'.sq = tx.sq
    BY <2>3, <2>4 DEF Less, FifoInv
  <2>6. InOrder(tx'.ring)
    BY <2>5 DEF FifoInv
  <2> QED
    BY <1>1, <2>5, <2>6, FifoKeep
<1>5. CASE Expire
  <2>1. PICK w \in WR : TimerExpire(w)
    BY <1>5 DEF Expire
  <2>2. SamePath(tx, tx') /\ tx'.sq = tx.sq
    BY <2>1, ExpireTx DEF Inv1, ExpireTo
  <2> QED
    BY <1>1, <2>2, FifoSame
<1> QED
  BY <1>2, <1>3, <1>4, <1>5

\* Every step keeps the order of the frames.
LEMMA FifoStep ==
  ASSUME Inv1, SendInv, FifoInv, [Next]_vars
  PROVE  FifoInv'
<1>0. tx \in TxRec /\ conf \in Conf /\ Ran(<<>>) = {} /\ InOrder(<<>>)
  BY DEF Inv1, TxTypes, RailInv, RailTypes, Ran, InOrder
<1>1. CASE Post \/ PostStep
  BY <1>1, FifoPost
<1>2. CASE Worker
  BY <1>2, FifoWorker
<1>3. CASE Path \/ Nhi \/ Late \/ Expire
  BY <1>3, FifoMoves
<1>4. CASE TimerFlush \/ ModifyFlush \/ QFlush \/ QStop
  <2>1. UNCHANGED wk /\ tx' = Flush(tx)
    BY <1>4 DEF TimerFlush, ModifyFlush, QFlush, QStop, FlushError, flushOthers
  <2> QED
    BY <2>1, FifoFlush
<1>5. CASE Create
  <2>1. SamePath(tx, tx') /\ tx'.sq = tx.sq /\ UNCHANGED wk
    BY <1>5, CreateTx DEF Inv1, SameLists, Create, CreateQp
  <2> QED
    BY <2>1, FifoSame
<1>6. CASE QCancel
  <2>1. UNCHANGED wk /\ Less(PqEmptied(tx), tx')
    BY <1>6, LoopTx DEF Inv1, QCancel
  <2>2. /\ PqEmptied(tx) \in TxRec /\ PqEmptied(tx).pq = <<>> /\ PqEmptied(tx).ring = tx.ring
        /\ PqEmptied(tx).sq = tx.sq
    BY <1>0, EmptiedTx DEF SameLists
  <2> QED
    BY <1>0, <2>1, <2>2, FifoLess DEF FifoInv
<1>7. CASE Barrier
  <2>1. UNCHANGED wk /\ Less(RingEmptied(tx), tx')
    BY <1>7, LoopTx DEF Inv1, Barrier, QBarrier
  <2>2. /\ RingEmptied(tx) \in TxRec /\ RingEmptied(tx).ring = <<>> /\ RingEmptied(tx).pq = tx.pq
        /\ RingEmptied(tx).sq = tx.sq
    BY <1>0, EmptiedTx DEF SameLists
  <2> QED
    BY <1>0, <2>1, <2>2, FifoLess DEF FifoInv
<1>8. CASE TimerComplete
  <2>1. UNCHANGED wk /\ Less(tx, tx')
    BY <1>8, LoopTx DEF Inv1, TimerComplete
  <2> QED
    BY <1>0, <2>1, FifoLess DEF FifoInv
<1>9. CASE \/ TimerError \/ Modify \/ ModifyStep \/ Destroy \/ Destroyed \/ Watchdog \/ RemoveRail
           \/ (\E t \in {"user", "wd", "rm"} : QClose(t)) \/ QMark \/ QCancelWorker \/ QDrained
           \/ QRefs(RxHolds) \/ QEnd \/ RxCheck \/ RxLookup \/ RxDeliver \/ PostRecv
  <2>1. UNCHANGED <<tx, wk>>
    BY <1>9, SendOther DEF sendVars
  <2> QED
    BY <2>1, FifoSame DEF SamePath
<1>10. CASE UNCHANGED vars
  BY <1>10, FifoSame DEF vars, SamePath
<1> QED
  BY <1>1, <1>2, <1>3, <1>4, <1>5, <1>6, <1>7, <1>8, <1>9, <1>10
     DEF Next, TimerStep, Quiesce

\* Initially there is no frame.
LEMMA FifoInit == Init => FifoInv
<1> SUFFICES ASSUME Init PROVE FifoInv
  OBVIOUS
<1>1. tx.pq = <<>> /\ tx.ring = <<>>
  BY DEF Init, TxInit
<1>2. Ran(<<>>) = {} /\ InOrder(<<>>)
  BY DEF Ran, InOrder
<1> QED
  BY <1>1, <1>2 DEF FifoInv, Frs

-----------------------------------------------------------------------------
(* A success means that everything was sent.                               *)

\* The sends the worker has not armed, the frames it owes of the one it posts.
Unsent == {w \in WR : \/ w \in Ran(tx.sq)
                      \/ wk.pc \in EarlyPc \cup {"fail"} /\ wk.w = w
                      \/ poster.pc = "entry" /\ poster.w = w}
Owing == [w \in WR |-> IF wk.w = w /\ wk.pc \in Posting \cup {"fail"} THEN conf.len[w] - wk.posted ELSE 0]
Due(H, T, w) == FramesOf(T.pq, w) + FramesOf(T.ring, w) + H[w]

\* A send waits for exactly the frames it has on the path and those that are owed,
\* and all the others were transmitted.
Exact(H, T, w) ==
  T.snd[w].left = Due(H, T, w) /\ T.snd[w].left > 0 /\ T.snd[w].left + T.snd[w].sent = conf.len[w]
Waits(S, H, T, w) ==
  IF T.snd[w].armed THEN T.snd[w].ready \/ Exact(H, T, w) ELSE w \in S /\ T.snd[w].left = 0
Sent(T, w) == T.snd[w].ok => T.snd[w].sent = conf.len[w] /\ T.snd[w].left = 0

OkInv ==
  /\ ListT(conf.delay, tx)
  /\ \A w \in WR : Sent(tx, w)
  /\ \A w \in Ran(tx.list) : Waits(Unsent, Owing, tx, w)
  /\ \A w \in Ran(timer.taken) : tx.snd[w].ready /\ tx.snd[w].ok = FALSE /\ w \notin Ran(tx.list)
  /\ poster.pc \in {"slot", "queue"} => poster.w \notin Ran(tx.list)

\* What the types say of the sends.
LEMMA OkTypes ==
  ASSUME Inv1, SendInv
  PROVE  /\ conf \in Conf /\ tx \in TxRec /\ conf.delay \in BOOLEAN
         /\ tx.list \in Seq(WR) /\ Ran(tx.list) \subseteq WR /\ tx.late \subseteq WR /\ tx.cq \in Seq(CqRec)
         /\ timer \in TimerRec /\ Ran(timer.taken) \subseteq WR
         /\ tx.pq \in Seq(FrameRec) /\ tx.ring \in Seq(FrameRec) /\ tx.sq \in Seq(WR)
         /\ \A v \in WR : /\ tx.snd[v] \in SndRec /\ tx.snd[v].left \in Int /\ conf.len[v] \in Nat
                          /\ FramesOf(tx.pq, v) \in Nat /\ FramesOf(tx.ring, v) \in Nat
<1>1. /\ conf \in Conf /\ tx \in TxRec /\ tx.pq \in Seq(FrameRec) /\ tx.ring \in Seq(FrameRec)
      /\ tx.sq \in Seq(WR) /\ tx.list \in Seq(WR) /\ \A v \in WR : tx.snd[v] \in SndRec /\ conf.len[v] \in Nat
  BY SendTypes
<1>2. \A v \in WR : /\ tx.snd[v].left \in Int
                    /\ FramesOf(tx.pq, v) \in Nat /\ FramesOf(tx.ring, v) \in Nat
  BY <1>1, CountFacts DEF SndRec
<1>3. timer \in TimerRec /\ timer.taken \in Seq(WR)
  BY DEF Inv1, TxTypes, TimerRec
<1>4. tx.late \subseteq WR /\ tx.cq \in Seq(CqRec) /\ conf.delay \in BOOLEAN
  BY <1>1, ConfFacts DEF TxRec
<1> QED
  BY <1>1, <1>2, <1>3, <1>4, RanFacts

\* A step that completes nothing and moves no frame but from one account to another.
SameSnd(T, U) ==
  \A v \in WR : /\ T.snd[v].done => U.snd[v].done
                /\ U.snd[v].ok = T.snd[v].ok /\ U.snd[v].ready = T.snd[v].ready
                /\ U.snd[v].armed = T.snd[v].armed /\ U.snd[v].sent = T.snd[v].sent
                /\ U.snd[v].left = T.snd[v].left

\* Such a step keeps what a success means.
LEMMA OkMove ==
  ASSUME Inv1, SendInv, OkInv, conf' = conf, timer'.taken = timer.taken, SameSnd(tx, tx'),
         tx'.list = tx.list, tx'.late = tx.late, tx'.cq = tx.cq,
         \A v \in Ran(tx.list) : v \in Unsent /\ ~tx.snd[v].armed => v \in Unsent',
         \A v \in Ran(tx.list) : tx.snd[v].armed /\ ~tx.snd[v].ready => Due(Owing', tx', v) = Due(Owing, tx, v),
         poster'.pc \in {"slot", "queue"} => poster'.w \notin Ran(tx.list)
  PROVE  OkInv'
<1>0. Ran(tx.list) \subseteq WR /\ tx.late \subseteq WR /\ tx.cq \in Seq(CqRec) /\ Ran(timer.taken) \subseteq WR
  BY OkTypes
<1>1. CqT(conf.delay, tx') /\ OkSet(tx') = OkSet(tx)
  <2>1. CqT(conf.delay, tx)
    BY DEF OkInv, ListT
  <2>2. \A v \in WR : (tx.snd[v].done => tx'.snd[v].done) /\ (tx.snd[v].ok => tx'.snd[v].ok)
    BY DEF SameSnd
  <2> QED
    BY <1>0, <2>1, <2>2, CqSame
<1>2. ListT(conf.delay, tx')
  BY <1>0, <1>1 DEF OkInv, ListT, SameSnd
<1>3. ASSUME NEW w \in WR PROVE Sent(tx, w)'
  <2>1. Sent(tx, w)
    BY DEF OkInv
  <2> QED
    BY <2>1 DEF Sent, SameSnd
<1>4. ASSUME NEW w \in Ran(tx.list) PROVE Waits(Unsent, Owing, tx, w)'
  <2>1. Waits(Unsent, Owing, tx, w) /\ w \in WR
    BY <1>0 DEF OkInv
  <2>2. /\ tx'.snd[w].ready = tx.snd[w].ready /\ tx'.snd[w].armed = tx.snd[w].armed
        /\ tx'.snd[w].sent = tx.snd[w].sent /\ tx'.snd[w].left = tx.snd[w].left
    BY <2>1 DEF SameSnd
  <2> QED
    BY <2>1, <2>2 DEF Waits, Exact
<1>5. \A w \in Ran(timer.taken) : tx'.snd[w].ready /\ tx'.snd[w].ok = FALSE /\ w \notin Ran(tx'.list)
  BY <1>0 DEF OkInv, SameSnd
<1> QED
  BY <1>2, <1>3, <1>4, <1>5 DEF OkInv

\* What is left of a send is a number of frames,
LEMMA LeftNat ==
  ASSUME NEW H \in [WR -> Nat], NEW T \in TxRec, LeftOK(H, T)
  PROVE  \A v \in WR : T.snd[v].left \in Nat /\ T.snd[v].left >= FramesOf(T.pq, v) + FramesOf(T.ring, v)
<1> TAKE v \in WR
<1>1. T.snd[v].left \in Int /\ T.pq \in Seq(FrameRec) /\ T.ring \in Seq(FrameRec)
  BY DEF TxRec, SndRec
<1>2. FramesOf(T.pq, v) \in Nat /\ FramesOf(T.ring, v) \in Nat
  BY <1>1, CountFacts
<1> PICK a \in Nat, b \in Nat, h \in Nat, l \in Int :
      a = FramesOf(T.pq, v) /\ b = FramesOf(T.ring, v) /\ h = H[v] /\ l = T.snd[v].left
  BY <1>1, <1>2
<1>3. l >= a + b + h
  BY DEF LeftOK
<1>4. l \in Nat /\ l >= a + b
  BY ONLY <1>3, a \in Nat, b \in Nat, h \in Nat, l \in Int
<1> QED
  BY <1>4

\* and stays one.
LEMMA LeftStays ==
  ASSUME Inv1, SendInv, SendInv', conf' = conf, wk' = wk \/ wk'.pc = "top", tx' \in TxRec
  PROVE  \A v \in WR : tx'.snd[v].left \in Nat
<1>1. Unposted \in [WR -> Nat]
  BY SendTypes
<1>2. CASE wk' = wk
  <2>1. Unposted' = Unposted
    BY <1>2 DEF Unposted
  <2> PICK H \in [WR -> Nat] : H = Unposted'
    BY <1>1, <2>1
  <2>2. LeftOK(H, tx')
    BY DEF SendInv, AccInv, Acc
  <2> QED
    BY <2>2, LeftNat
<1>3. CASE wk'.pc = "top"
  <2>1. Unposted' = [w \in WR |-> 0]
    BY <1>3 DEF Unposted, Posting
  <2> PICK H \in [WR -> Nat] : H = Unposted'
    BY <2>1
  <2>2. LeftOK(H, tx')
    BY DEF SendInv, AccInv, Acc
  <2> QED
    BY <2>2, LeftNat
<1> QED
  BY <1>2, <1>3

\* A step of completions that fail sends, or report what succeeded before.
LEMMA OkLoop ==
  ASSUME Inv1, SendInv, SendInv', OkInv, conf' = conf, poster' = poster, wk' = wk \/ wk'.pc = "top",
         Ran(timer'.taken) \subseteq Ran(timer.taken),
         NEW T \in TxRec, T.snd = tx.snd, T.list = tx.list, Less(T, tx'), ListT(conf.delay, tx'), Kept(T, tx'),
         \A v \in Ran(tx'.list) : v \in Unsent /\ ~tx.snd[v].armed => v \in Unsent',
         \A v \in Ran(tx'.list) : tx.snd[v].armed /\ ~tx'.snd[v].ready => Due(Owing', tx', v) = Due(Owing, tx, v)
  PROVE  OkInv'
<1>0. Ran(tx.list) \subseteq WR /\ Ran(timer.taken) \subseteq WR /\ \A v \in WR : tx.snd[v] \in SndRec
  BY OkTypes
<1>1. \A v \in WR : tx'.snd[v].left \in Nat
  BY LeftStays DEF Less
<1>2. \A v \in WR : /\ tx'.snd[v].armed = tx.snd[v].armed /\ tx'.snd[v].sent = tx.snd[v].sent
                    /\ tx'.snd[v].left <= tx.snd[v].left
                    /\ tx.snd[v].ready => tx'.snd[v].ready /\ tx'.snd[v].ok = tx.snd[v].ok
                    /\ tx'.snd[v].ok => tx.snd[v].ok
  BY DEF Less, SndLess, Kept
<1>3. \A v \in WR : tx.snd[v].left = 0 => tx'.snd[v].left = 0
  BY ONLY <1>1, <1>2
<1>4. Ran(tx'.list) \subseteq Ran(tx.list)
  BY DEF Kept
<1>5. ASSUME NEW w \in WR PROVE Sent(tx, w)'
  <2>1. Sent(tx, w)
    BY DEF OkInv
  <2> QED
    BY <1>2, <1>3, <2>1 DEF Sent
<1>6. ASSUME NEW w \in Ran(tx'.list) PROVE Waits(Unsent, Owing, tx, w)'
  <2>1. Waits(Unsent, Owing, tx, w) /\ w \in WR /\ w \in Ran(tx.list)
    BY <1>0, <1>4 DEF OkInv
  <2>2. CASE ~tx.snd[w].armed
    BY <1>2, <1>3, <2>1, <2>2 DEF Waits
  <2>3. CASE tx.snd[w].armed /\ tx'.snd[w].ready
    BY <1>2, <2>1, <2>3 DEF Waits
  <2>4. CASE tx.snd[w].armed /\ ~tx'.snd[w].ready
    <3>1. tx'.snd[w] = tx.snd[w]
      BY <2>4 DEF Kept
    <3>2. ~tx.snd[w].ready
      BY <2>4, <3>1
    <3>3. Exact(Owing, tx, w)
      BY <2>1, <2>4, <3>2 DEF Waits
    <3>4. Due(Owing', tx', w) = Due(Owing, tx, w)
      BY <2>4
    <3> QED
      BY <1>2, <2>1, <2>4, <3>1, <3>3, <3>4 DEF Waits, Exact
  <2> QED
    BY <2>2, <2>3, <2>4
<1>7. \A w \in Ran(timer'.taken) : tx'.snd[w].ready /\ tx'.snd[w].ok = FALSE /\ w \notin Ran(tx'.list)
  BY <1>0, <1>2, <1>4 DEF OkInv
<1>8. poster'.pc \in {"slot", "queue"} => poster'.w \notin Ran(tx'.list)
  BY <1>4 DEF OkInv
<1> QED
  BY <1>5, <1>6, <1>7, <1>8 DEF OkInv

\* The worker gives up or goes on to the next send.
LEMMA OkEnd ==
  ASSUME Inv1, SendInv, SendInv', OkInv, WorkerEnd
  PROVE  OkInv'
<1>0. conf \in Conf /\ tx \in TxRec
  BY OkTypes
<1>1. wk'.pc = "top" /\ UNCHANGED <<conf, poster, timer>> /\ wk.pc \in {"end", "fail"} /\ wk.w \in WR
  BY DEF WorkerEnd, IdleWorker, Inv1, TxTypes
<1>2. Less(tx, tx')
  BY LoopTx DEF Inv1
<1>3. ListT(conf.delay, tx') /\ Kept(tx, tx') /\ (wk.pc = "fail" => wk.w \notin Ran(tx'.list))
  <2>1. ListT(conf.delay, tx)
    BY DEF OkInv
  <2>2. CASE wk.pc = "fail"
    <3>1. tx' = Unqueue(FALSE, tx, wk.w)
      BY <2>2 DEF WorkerEnd
    <3> QED
      BY ONLY <1>0, <1>1, <2>1, <3>1, UnqueueOk
  <2>3. CASE wk.pc # "fail"
    <3>1. tx' = tx
      BY <2>3 DEF WorkerEnd
    <3> QED
      BY <1>0, <2>1, <2>3, <3>1 DEF Kept
  <2> QED
    BY <2>2, <2>3
<1>4. ASSUME NEW v \in Ran(tx'.list) PROVE Owing'[v] = Owing[v] /\ (v \in Unsent => v \in Unsent') /\ v \in WR
  <2>1. v \in WR
    BY <1>3, OkTypes DEF Kept
  <2>2. wk.pc = "fail" => v # wk.w
    BY <1>3
  <2>3. Owing'[v] = 0 /\ Owing[v] = 0
    BY <1>1, <2>1, <2>2 DEF Owing, Posting
  <2>4. tx'.sq = tx.sq
    BY <1>2 DEF Less
  <2> QED
    BY <1>1, <2>1, <2>2, <2>3, <2>4 DEF Unsent, EarlyPc
<1>5. ASSUME NEW v \in Ran(tx'.list), ~tx'.snd[v].ready PROVE Due(Owing', tx', v) = Due(Owing, tx, v)
  <2>1. FramesOf(tx'.pq, v) = FramesOf(tx.pq, v) /\ tx'.ring = tx.ring
    BY <1>2, <1>3, <1>5 DEF Kept, Less
  <2> QED
    BY <1>4, <2>1 DEF Due
<1> QED
  BY <1>0, <1>1, <1>2, <1>3, <1>4, <1>5, OkLoop

\* Steps that take nothing from the worker.
LEMMA SameWorker ==
  ASSUME UNCHANGED <<conf, wk, poster>>
  PROVE  Owing' = Owing /\ (tx'.sq = tx.sq => Unsent' = Unsent)
BY DEF Owing, Unsent

\* The timeout work completes what it took,
LEMMA OkComplete ==
  ASSUME Inv1, SendInv, SendInv', OkInv, TimerComplete
  PROVE  OkInv'
<1>0. conf \in Conf /\ tx \in TxRec
  BY OkTypes
<1>1. UNCHANGED <<conf, wk, poster>> /\ timer' = IdleTimer
  BY DEF TimerComplete
<1>2. Less(tx, tx') /\ tx' = Sends!Run(FALSE, tx, timer.taken)
  BY LoopTx DEF Inv1
<1>3. ListT(conf.delay, tx) /\ timer.taken \in Seq(WR)
  BY DEF OkInv, Inv1, TxTypes, TimerRec
<1>4. \A v \in Ran(timer.taken) : v \notin Ran(tx.list) /\ tx.snd[v].ok = FALSE
  BY DEF OkInv
<1>5. ListT(conf.delay, tx') /\ Calm({}, tx, tx')
  BY ONLY <1>0, <1>2, <1>3, <1>4, SendsCalm
<1>6. Kept(tx, tx')
  BY <1>5 DEF Calm, Kept
<1>7. Owing' = Owing /\ Unsent' = Unsent
  BY <1>1, <1>2, SameWorker DEF Less
<1>8. \A v \in Ran(tx'.list) : Due(Owing', tx', v) = Due(Owing, tx, v)
  BY <1>2, <1>5, <1>7 DEF Due, Less, Calm
<1>9. Ran(timer'.taken) = {}
  BY <1>1 DEF IdleTimer, Ran
<1> QED
  BY <1>0, <1>1, <1>2, <1>5, <1>6, <1>7, <1>8, <1>9, OkLoop

\* a flush empties the list,
LEMMA OkFlush ==
  ASSUME Inv1, SendInv, SendInv', OkInv, UNCHANGED <<conf, wk, poster>>, timer'.taken = timer.taken, tx' = Flush(tx)
  PROVE  OkInv'
<1>0. conf \in Conf /\ tx \in TxRec /\ <<>> \in Seq(WR)
  BY OkTypes
<1> PICK T : T = [tx EXCEPT !.sq = <<>>]
  OBVIOUS
<1>1. T \in TxRec /\ T.snd = tx.snd /\ T.list = tx.list
  BY <1>0 DEF TxRec
<1>2. Less(T, tx') /\ tx'.list = <<>>
  BY LoopTx DEF Inv1
<1>3. ListT(conf.delay, tx)
  BY DEF OkInv
<1>4. ListT(conf.delay, tx') /\ \A v \in WR : tx'.snd[v].ok => tx.snd[v].ok
  BY ONLY <1>0, <1>3, tx' = Flush(tx), FlushOk
<1>5. Ran(tx'.list) = {}
  BY <1>2 DEF Ran
<1>6. Kept(T, tx')
  BY <1>1, <1>2, <1>4, <1>5 DEF Kept, Less
<1> QED
  BY <1>1, <1>2, <1>4, <1>5, <1>6, OkLoop

\* a queue of the path is cancelled.
LEMMA OkFrames ==
  ASSUME Inv1, SendInv, SendInv', OkInv, UNCHANGED <<conf, wk, poster, timer>>,
         NEW T, NEW s, \/ T = PqEmptied(tx) /\ s = tx.pq /\ T.pq = <<>> /\ T.ring = tx.ring
                       \/ T = RingEmptied(tx) /\ s = tx.ring /\ T.pq = tx.pq /\ T.ring = <<>>,
         tx' = Frames!Run(FALSE, T, s), Less(T, tx')
  PROVE  OkInv'
<1>0. conf \in Conf /\ tx \in TxRec /\ s \in Seq(FrameRec)
  BY OkTypes
<1>1. T \in TxRec /\ T.snd = tx.snd /\ SameLists(tx, T)
  BY <1>0, EmptiedTx
<1>2. ListT(conf.delay, T)
  <2>1. CqT(conf.delay, T) /\ OkSet(T) = OkSet(tx)
    BY <1>1 DEF OkInv, ListT, CqT, OkSet, SameLists
  <2> QED
    BY <1>1, <2>1 DEF OkInv, ListT, SameLists
<1>3. /\ ListT(conf.delay, tx') /\ Kept(T, tx')
      /\ \A f \in Ran(s) : f[1] \notin Ran(tx'.list) \/ tx'.snd[f[1]].ready
  BY ONLY <1>0, <1>1, <1>2, FramesOk, tx' = Frames!Run(FALSE, T, s)
<1>4. Owing' = Owing /\ Unsent' = Unsent
  BY <1>1, SameWorker DEF Less, SameLists
<1>5. ASSUME NEW v \in Ran(tx'.list), ~tx'.snd[v].ready PROVE Due(Owing', tx', v) = Due(Owing, tx, v)
  <2>1. FramesOf(tx'.pq, v) = FramesOf(T.pq, v) /\ tx'.ring = T.ring
    BY <1>3, <1>5 DEF Kept, Less
  <2>2. \A f \in Ran(s) : f[1] # v
    BY <1>3, <1>5
  <2>3. FramesOf(s, v) = 0
    <3>1. \A k \in DOMAIN s : s[k][1] # v
      BY <2>2 DEF Ran
    <3> QED
      BY ONLY <1>0, <3>1, CountFacts
  <2>4. FramesOf(<<>>, v) = 0
    <3>1. <<>> \in Seq(FrameRec)
      OBVIOUS
    <3> PICK e \in Seq(FrameRec) : e = <<>>
      BY <3>1
    <3>2. \A k \in DOMAIN e : e[k][1] # v
      OBVIOUS
    <3>3. FramesOf(e, v) = 0
      BY ONLY <3>2, CountFacts, e \in Seq(FrameRec)
    <3> QED
      BY <3>3
  <2> QED
    BY <1>4, <2>1, <2>3, <2>4 DEF Due
<1>6. T.list = tx.list
  BY <1>1 DEF SameLists
<1> QED
  BY <1>1, <1>3, <1>4, <1>5, <1>6, OkLoop

\* A delayed completion.
LEMMA OkLate ==
  ASSUME Inv1, SendInv, SendInv', OkInv, NEW w, SendCompleteWork(w)
  PROVE  OkInv'
<1>0. conf \in Conf /\ tx \in TxRec /\ conf.delay \in BOOLEAN
  BY OkTypes
<1>1. UNCHANGED <<conf, wk, poster, timer>>
  BY DEF SendCompleteWork
<1> PICK U : U = SendComplete(tx, w, TRUE)
  OBVIOUS
<1>2. w \in WR /\ w \in tx.late /\ LateTo(U, w, tx')
  BY LateTx DEF Inv1
<1>3. ListT(conf.delay, tx) /\ conf.delay /\ tx.snd[w].ok /\ w \notin Ran(tx.list)
  BY <1>0, <1>2 DEF OkInv, ListT
<1>4. ListT(conf.delay, U) /\ Calm({x \in {w} : TRUE}, tx, U)
  BY ONLY <1>0, <1>2, <1>3, CompleteCalm, U = SendComplete(tx, w, TRUE)
<1>5. Less(tx, U)
  BY <1>0, <1>2, DoneLess
<1>6. /\ tx' \in TxRec /\ tx'.late = U.late \ {w} /\ tx'.snd = U.snd /\ tx'.list = U.list /\ tx'.sq = U.sq
      /\ tx'.cq = U.cq /\ tx'.pq = U.pq /\ tx'.ring = U.ring
  BY <1>2 DEF LateTo, SamePath
<1>7. ListT(conf.delay, tx')
  <2>1. CqT(conf.delay, U)
    BY <1>4 DEF ListT
  <2>2. U.cq \in Seq(CqRec)
    BY <1>4 DEF Calm, TxRec
  <2>3. CqT(conf.delay, tx')
    BY <1>6, <2>1, <2>2, CqSame
  <2> QED
    BY ONLY <1>3, <1>4, <1>6, <2>3 DEF ListT
<1>8. Kept(tx, tx')
  BY <1>4, <1>6 DEF Calm, Kept
<1>9. Less(tx, tx')
  BY <1>5, <1>6 DEF Less
<1>10. Owing' = Owing /\ Unsent' = Unsent
  BY <1>1, <1>9, SameWorker DEF Less
<1>11. \A v \in Ran(tx'.list) : Due(Owing', tx', v) = Due(Owing, tx, v)
  BY <1>4, <1>6, <1>9, <1>10 DEF Due, Less, Calm
<1> QED
  BY <1>0, <1>1, <1>7, <1>8, <1>9, <1>10, <1>11, OkLoop

\* The worker goes on with a send, or gives it up.
LEMMA OkWorkerPc ==
  ASSUME Inv1, SendInv, OkInv, UNCHANGED <<conf, poster, timer>>,
         tx'.snd = tx.snd, SameLists(tx, tx'), SamePath(tx, tx'),
         wk'.w = wk.w, wk'.posted = wk.posted,
         \/ wk.pc \in EarlyPc /\ wk'.pc \in EarlyPc \cup {"fail"}
         \/ wk.pc \in Posting /\ wk'.pc \in Posting \cup {"fail"}
  PROVE  OkInv'
<1>0. Ran(tx.list) \subseteq WR
  BY OkTypes
<1>1. SameSnd(tx, tx') /\ tx'.list = tx.list /\ tx'.late = tx.late /\ tx'.cq = tx.cq /\ tx'.sq = tx.sq
  BY DEF SameSnd, SameLists
<1>2. Unsent \subseteq Unsent'
  BY <1>1 DEF Unsent, EarlyPc, Posting
<1>3. ASSUME NEW v \in WR, tx.snd[v].armed PROVE Owing'[v] = Owing[v]
  <2>1. CASE wk.pc \in EarlyPc
    <3>1. v # wk.w
      <4>1. ASSUME v = wk.w PROVE FALSE
        <5>1. v \in Early
          BY <2>1, <4>1 DEF Early
        <5>2. tx.snd[v].armed = FALSE
          BY <5>1 DEF SendInv, AccInv, Acc, Clean
        <5> QED
          BY <1>3, <5>2
      <4> QED
        BY <4>1
    <3> QED
      BY <3>1 DEF Owing
  <2>2. CASE wk.pc \in Posting
    <3>1. wk'.pc \in Posting \cup {"fail"}
      BY <2>2 DEF EarlyPc, Posting
    <3> QED
      BY <2>2, <3>1 DEF Owing
  <2> QED
    BY <2>1, <2>2
<1>4. \A v \in Ran(tx.list) : tx.snd[v].armed => Due(Owing', tx', v) = Due(Owing, tx, v)
  BY <1>0, <1>3 DEF Due, SamePath
<1>5. poster'.pc \in {"slot", "queue"} => poster'.w \notin Ran(tx.list)
  BY DEF OkInv
<1> QED
  BY <1>1, <1>2, <1>4, <1>5, OkMove

\* The worker takes the next send off its queue.
LEMMA OkPop ==
  ASSUME Inv1, SendInv, OkInv, WorkerPop
  PROVE  OkInv'
<1>0. Ran(tx.list) \subseteq WR
  BY OkTypes
<1>1. UNCHANGED <<conf, poster, timer>> /\ wk.pc \in {"idle", "top"}
  BY DEF WorkerPop
<1>2. poster'.pc \in {"slot", "queue"} => poster'.w \notin Ran(tx.list)
  BY <1>1 DEF OkInv
<1>3. /\ tx'.snd = tx.snd /\ tx'.list = tx.list /\ tx'.late = tx.late /\ tx'.cq = tx.cq /\ SamePath(tx, tx')
      /\ wk'.pc \in {"idle", "popped"}
      /\ \A v \in Ran(tx.sq) : v \in Ran(tx'.sq) \/ (wk'.pc = "popped" /\ wk'.w = v)
  <2>1. CASE tx.sq = <<>> /\ wk' = IdleWorker /\ tx' = tx
    BY <2>1 DEF SamePath, IdleWorker
  <2>2. CASE ~(tx.sq = <<>> /\ wk' = IdleWorker /\ tx' = tx)
    <3>1. /\ wk' = [IdleWorker EXCEPT !.pc = "popped", !.w = Head(tx.sq)]
          /\ tx'.snd = tx.snd /\ tx'.list = tx.list /\ tx'.late = tx.late /\ tx'.cq = tx.cq /\ SamePath(tx, tx')
          /\ tx'.sq = Tail(tx.sq) /\ Ran(tx.sq) = Ran(Tail(tx.sq)) \cup {Head(tx.sq)}
      BY <2>2, WorkerPopTx DEF Inv1
    <3>2. wk'.pc = "popped" /\ wk'.w = Head(tx.sq)
      BY ONLY <3>1 DEF IdleWorker
    <3> QED
      BY <3>1, <3>2
  <2> QED
    BY <2>1, <2>2
<1>4. SameSnd(tx, tx')
  BY <1>3 DEF SameSnd
<1>5. Unsent \subseteq Unsent'
  BY <1>1, <1>3 DEF Unsent, EarlyPc
<1>6. \A v \in WR : Owing'[v] = Owing[v]
  BY <1>1, <1>3 DEF Owing, Posting
<1>7. \A v \in Ran(tx.list) : Due(Owing', tx', v) = Due(Owing, tx, v)
  BY <1>0, <1>3, <1>6 DEF Due, SamePath
<1> QED
  BY <1>1, <1>2, <1>3, <1>4, <1>5, <1>7, OkMove

\* The worker hands a frame to the path.
LEMMA OkPost ==
  ASSUME Inv1, SendInv, OkInv, WorkerPost(rail.closed)
  PROVE  OkInv'
<1>0. /\ wk \in WkRec /\ Ran(tx.list) \subseteq WR /\ tx.pq \in Seq(FrameRec) /\ tx.ring \in Seq(FrameRec)
      /\ \A v \in WR : conf.len[v] \in Nat /\ FramesOf(tx.pq, v) \in Nat /\ FramesOf(tx.ring, v) \in Nat
  BY OkTypes, SendTypes
<1>1. UNCHANGED <<conf, poster, timer>> /\ wk.pc = "frame" /\ wk'.w = wk.w
  BY <1>0 DEF WorkerPost, WkRec
<1>2. CASE rail.closed
  <2>1. tx' = tx /\ wk'.pc = "fail" /\ wk'.posted = wk.posted
    BY <1>0, <1>2 DEF WorkerPost, WkRec
  <2> QED
    BY <1>1, <2>1, OkWorkerPc DEF Posting, SameLists, SamePath
<1>3. CASE ~rail.closed
  <2>1. /\ wk.w \in WR /\ <<wk.w, qp.ep>> \in FrameRec /\ tx'.snd = tx.snd /\ SameLists(tx, tx')
        /\ tx'.ring = tx.ring /\ tx'.pq = Append(tx.pq, <<wk.w, qp.ep>>)
    BY <1>3, WorkerPostTx DEF Inv1
  <2> PICK f \in FrameRec : f = <<wk.w, qp.ep>>
    BY <2>1
  <2>2. tx'.pq = Append(tx.pq, f) /\ f[1] = wk.w
    BY <2>1
  <2>3. \A v : FramesOf(tx'.pq, v) = FramesOf(tx.pq, v) + (IF wk.w = v THEN 1 ELSE 0)
    <3> TAKE v
    <3>1. FramesOf(Append(tx.pq, f), v) = FramesOf(tx.pq, v) + (IF f[1] = v THEN 1 ELSE 0)
      BY ONLY <1>0, CountAppend, f \in FrameRec
    <3> QED
      BY ONLY <2>2, <3>1
  <2>4. /\ wk'.posted = wk.posted + 1 /\ wk'.pc \in {"end", "group", "post"}
        /\ wk'.pc = "end" <=> ~(wk.posted + 1 < conf.len[wk.w])
    BY <1>0, <1>3 DEF WorkerPost, WkRec
  <2>5. wk.posted < conf.len[wk.w]
    BY <1>1 DEF SendInv, WindowInv, Posting
  <2>6. SameSnd(tx, tx') /\ tx'.list = tx.list /\ tx'.late = tx.late /\ tx'.cq = tx.cq /\ tx'.sq = tx.sq
    BY <2>1 DEF SameSnd, SameLists
  <2>7. Unsent \subseteq Unsent'
    BY <1>1, <2>6 DEF Unsent, EarlyPc
  <2>8. ASSUME NEW v \in WR PROVE Due(Owing', tx', v) = Due(Owing, tx, v)
    <3> PICK a \in Nat, b \in Nat, c \in Nat, p \in Nat :
          a = FramesOf(tx.pq, v) /\ b = FramesOf(tx.ring, v) /\ c = conf.len[wk.w] /\ p = wk.posted
      BY <1>0, <2>1 DEF WkRec
    <3>1. CASE v # wk.w
      <4>1. Owing[v] = 0 /\ Owing'[v] = 0
        BY <1>1, <3>1 DEF Owing
      <4>2. FramesOf(tx'.pq, v) = a
        BY <2>3, <3>1
      <4> QED
        BY <2>1, <4>1, <4>2 DEF Due
    <3>2. CASE v = wk.w
      <4>1. Owing[v] = c - p
        BY <1>1, <3>2 DEF Owing, Posting
      <4>2. Owing'[v] = IF p + 1 < c THEN c - (p + 1) ELSE 0
        BY <1>1, <2>4, <3>2 DEF Owing, Posting
      <4>3. FramesOf(tx'.pq, v) = a + 1 /\ FramesOf(tx'.ring, v) = b /\ p < c
        BY <2>1, <2>3, <2>5, <3>2
      <4>4. Due(Owing', tx', v) = a + 1 + b + (IF p + 1 < c THEN c - (p + 1) ELSE 0)
        BY <4>2, <4>3 DEF Due
      <4>5. Due(Owing, tx, v) = a + b + (c - p)
        BY <4>1 DEF Due
      <4> QED
        BY ONLY <4>3, <4>4, <4>5, a \in Nat, b \in Nat, c \in Nat, p \in Nat
    <3> QED
      BY <3>1, <3>2
  <2>9. poster'.pc \in {"slot", "queue"} => poster'.w \notin Ran(tx.list)
    BY <1>1 DEF OkInv
  <2> QED
    BY <1>0, <1>1, <2>6, <2>7, <2>8, <2>9, OkMove
<1> QED
  BY <1>2, <1>3

\* The scheduler moves a frame to the ring.
LEMMA OkPath ==
  ASSUME Inv1, SendInv, OkInv, PathSchedule(rail.closed)
  PROVE  OkInv'
<1>0. /\ Ran(tx.list) \subseteq WR /\ tx.pq \in Seq(FrameRec) /\ tx.ring \in Seq(FrameRec)
      /\ \A v \in WR : FramesOf(tx.pq, v) \in Nat /\ FramesOf(tx.ring, v) \in Nat
  BY OkTypes
<1>1. UNCHANGED <<conf, wk, poster, timer>>
  BY DEF PathSchedule
<1>2. /\ tx.pq # <<>> /\ Head(tx.pq) \in FrameRec /\ Tail(tx.pq) \in Seq(FrameRec) /\ tx'.snd = tx.snd
      /\ SameLists(tx, tx') /\ tx'.ring = Append(tx.ring, Head(tx.pq)) /\ tx'.pq = Tail(tx.pq)
  BY PathScheduleTx DEF Inv1
<1>3. SameSnd(tx, tx') /\ tx'.list = tx.list /\ tx'.late = tx.late /\ tx'.cq = tx.cq /\ tx'.sq = tx.sq
  BY <1>2 DEF SameSnd, SameLists
<1>4. Owing' = Owing /\ Unsent' = Unsent
  BY <1>1, <1>3, SameWorker
<1>5. ASSUME NEW v \in WR PROVE Due(Owing', tx', v) = Due(Owing, tx, v)
  <2> PICK f \in FrameRec : f = Head(tx.pq)
    BY <1>2
  <2> PICK x \in Nat : x = IF f[1] = v THEN 1 ELSE 0
    OBVIOUS
  <2>1. FramesOf(tx'.ring, v) = FramesOf(tx.ring, v) + x
    <3>1. FramesOf(Append(tx.ring, f), v) = FramesOf(tx.ring, v) + (IF f[1] = v THEN 1 ELSE 0)
      BY ONLY <1>0, CountAppend, f \in FrameRec
    <3> QED
      BY <1>2, <3>1
  <2>2. FramesOf(tx.pq, v) = FramesOf(tx'.pq, v) + x /\ FramesOf(tx'.pq, v) \in Nat
    <3>1. FramesOf(tx.pq, v) = FramesOf(Tail(tx.pq), v) + (IF Head(tx.pq)[1] = v THEN 1 ELSE 0)
      BY ONLY <1>0, <1>2, CountTail
    <3>2. FramesOf(Tail(tx.pq), v) \in Nat
      BY ONLY <1>2, CountFacts
    <3> QED
      BY <1>2, <3>1, <3>2
  <2> PICK a \in Nat, b \in Nat : a = FramesOf(tx'.pq, v) /\ b = FramesOf(tx.ring, v)
    BY <1>0, <2>2
  <2>3. a + (b + x) = (a + x) + b
    OBVIOUS
  <2> QED
    BY <1>4, <2>1, <2>2, <2>3 DEF Due
<1>6. poster'.pc \in {"slot", "queue"} => poster'.w \notin Ran(tx.list)
  BY <1>1 DEF OkInv
<1> QED
  BY <1>0, <1>1, <1>3, <1>4, <1>5, <1>6, OkMove

\* A step that leaves sends, frames and the worker alone.
LEMMA OkQuiet ==
  ASSUME Inv1, SendInv, OkInv, UNCHANGED <<conf, wk>>, timer'.taken = timer.taken,
         SameSnd(tx, tx'), tx'.list = tx.list, tx'.late = tx.late, tx'.cq = tx.cq, SamePath(tx, tx'),
         Ran(tx.sq) \subseteq Ran(tx'.sq), poster.pc = "entry" => poster' = poster \/ poster.w \in Ran(tx'.sq),
         poster'.pc \in {"slot", "queue"} => poster'.w \notin Ran(tx.list)
  PROVE  OkInv'
<1>0. Ran(tx.list) \subseteq WR
  BY OkTypes
<1>1. Owing' = Owing
  BY DEF Owing
<1>2. Unsent \subseteq Unsent'
  BY DEF Unsent
<1>3. \A v \in Ran(tx.list) : Due(Owing', tx', v) = Due(Owing, tx, v)
  BY <1>1 DEF Due, SamePath
<1> QED
  BY <1>2, <1>3, OkMove

\* Posting, up to the list.
LEMMA OkGetLive ==
  ASSUME Inv1, SendInv, OkInv, NEW w \in WR, PostGetLive(w)
  PROVE  OkInv'
<1>0. \A v \in WR : tx.snd[v] \in SndRec
  BY OkTypes
<1>1. UNCHANGED <<conf, wk, timer>> /\ poster.pc = "idle" /\ poster' = [pc |-> "slot", w |-> w] /\ tx.snd[w].qp = 0
      /\ qp.st = "RTS"
  BY DEF PostGetLive, IdlePoster
<1>2. SndTo(tx, w, [tx.snd[w] EXCEPT !.qp = qp.inc, !.ep = qp.ep], tx')
  BY PostGetLiveTx DEF Inv1
<1>3. SameSnd(tx, tx')
  <2>1. \A v \in WR : v # w => tx'.snd[v] = tx.snd[v]
    BY <1>2 DEF SndTo
  <2>2. /\ tx'.snd[w].done = tx.snd[w].done /\ tx'.snd[w].ok = tx.snd[w].ok /\ tx'.snd[w].ready = tx.snd[w].ready
        /\ tx'.snd[w].armed = tx.snd[w].armed /\ tx'.snd[w].sent = tx.snd[w].sent
        /\ tx'.snd[w].left = tx.snd[w].left
    BY <1>0, <1>2 DEF SndTo, SndRec
  <2> QED
    BY <2>1, <2>2 DEF SameSnd
<1>4. w \notin Ran(tx.list)
  <2>1. qp.inc # 0
    BY <1>1, IncUsed DEF Exists
  <2> QED
    BY <1>1, <2>1 DEF Inv1, OwnInv, OwnT
<1>5. SamePath(tx, tx') /\ tx'.list = tx.list /\ tx'.late = tx.late /\ tx'.cq = tx.cq /\ tx'.sq = tx.sq
  BY <1>2 DEF SndTo, SameQueues, SamePath
<1> QED
  BY <1>1, <1>3, <1>4, <1>5, OkQuiet

\* Its slot.
LEMMA OkSlot ==
  ASSUME Inv1, SendInv, OkInv, PostSlot
  PROVE  OkInv'
<1> PICK w : w = poster.w
  OBVIOUS
<1>0. (\A v \in WR : tx.snd[v] \in SndRec) /\ poster \in PosterRec
  BY OkTypes, SendTypes
<1>1. UNCHANGED <<conf, wk, timer>> /\ poster.pc = "slot"
  BY DEF PostSlot
<1>2. w \notin Ran(tx.list)
  BY <1>1 DEF OkInv
<1>3. CASE poster' = IdlePoster /\ SndTo(tx, w, [tx.snd[w] EXCEPT !.done = TRUE], tx')
  <2>1. SameSnd(tx, tx')
    BY <1>0, <1>3 DEF SndTo, SameSnd, SndRec
  <2>2. SamePath(tx, tx') /\ tx'.list = tx.list /\ tx'.late = tx.late /\ tx'.cq = tx.cq /\ tx'.sq = tx.sq
    BY <1>3 DEF SndTo, SameQueues, SamePath
  <2>3. poster'.pc = "idle"
    BY <1>3 DEF IdlePoster
  <2> QED
    BY <1>1, <2>1, <2>2, <2>3, OkQuiet
<1>4. CASE ~(poster' = IdlePoster /\ SndTo(tx, w, [tx.snd[w] EXCEPT !.done = TRUE], tx'))
  <2>1. /\ poster' = [poster EXCEPT !.pc = "queue"] /\ SameLists(tx, tx') /\ SamePath(tx, tx')
        /\ tx'.snd[w] = [tx.snd[w] EXCEPT !.counted = TRUE]
        /\ \A v \in WR : v # w => tx'.snd[v] = tx.snd[v]
    BY <1>4, PostSlotTx DEF Inv1
  <2>2. SameSnd(tx, tx')
    BY <1>0, <2>1 DEF SameSnd, SndRec
  <2>3. poster'.w = w
    BY <1>0, <2>1 DEF PosterRec
  <2> QED
    BY <1>1, <1>2, <2>1, <2>2, <2>3, OkQuiet DEF SameLists
<1> QED
  BY <1>3, <1>4

\* Its entry.
LEMMA OkQueueEntry ==
  ASSUME Inv1, SendInv, OkInv, PostQueueEntry
  PROVE  OkInv'
<1>1. UNCHANGED <<conf, wk, timer>> /\ poster' = IdlePoster
  BY DEF PostQueueEntry
<1>2. /\ tx'.snd = tx.snd /\ tx'.list = tx.list /\ tx'.sq = Append(tx.sq, poster.w)
      /\ tx'.late = tx.late /\ tx'.cq = tx.cq /\ SamePath(tx, tx') /\ poster.w \in WR
  BY PostQueueEntryTx DEF Inv1
<1>3. SameSnd(tx, tx')
  BY <1>2 DEF SameSnd
<1>4. Ran(tx'.sq) = Ran(tx.sq) \cup {poster.w}
  BY <1>2, RanAppend, OkTypes
<1>5. poster'.pc = "idle"
  BY <1>1 DEF IdlePoster
<1> QED
  BY <1>1, <1>2, <1>3, <1>4, <1>5, OkQuiet

\* A value at the end of a rising sequence that is above all others.
LEMMA RisingAppend ==
  ASSUME NEW s \in Seq(WR), Rising(s), NEW w \in WR, \A v \in Ran(s) : v < w
  PROVE  Rising(Append(s, w))
<1> PICK n \in Nat : n = Len(s)
  OBVIOUS
<1> PICK r : r = Append(s, w)
  OBVIOUS
<1>1. DOMAIN s = 1..n /\ DOMAIN r = 1..(n + 1) /\ r[n + 1] = w /\ \A k \in 1..n : r[k] = s[k]
  BY ONLY s \in Seq(WR), w \in WR, n \in Nat, n = Len(s), r = Append(s, w)
<1>2. \A k \in 1..n : s[k] \in Ran(s)
  BY <1>1 DEF Ran
<1>3. ASSUME NEW j \in 1..(n + 1), NEW k \in 1..(n + 1), j < k PROVE r[j] < r[k]
  <2>1. j \in 1..n /\ (k \in 1..n \/ k = n + 1)
    BY ONLY <1>3, n \in Nat
  <2> QED
    BY <1>1, <1>2, <1>3, <2>1 DEF Rising
<1> QED
  BY <1>1, <1>3 DEF Rising

\* The send goes to the end of the list.
LEMMA OkQueueSend ==
  ASSUME Inv1, SendInv, OkInv, PostQueueSend
  PROVE  OkInv'
<1> PICK w : w = poster.w
  OBVIOUS
<1>0. /\ tx.list \in Seq(WR) /\ Ran(tx.list) \subseteq WR /\ tx.late \subseteq WR /\ tx.cq \in Seq(CqRec)
      /\ Ran(timer.taken) \subseteq WR /\ poster \in PosterRec /\ conf.delay \in BOOLEAN
  BY OkTypes, SendTypes
<1>1. UNCHANGED <<conf, wk, timer>> /\ poster.pc = "queue" /\ poster' = [poster EXCEPT !.pc = "entry"]
  BY DEF PostQueueSend
<1>2. /\ tx'.snd = tx.snd /\ tx'.list = Append(tx.list, w) /\ tx'.sq = tx.sq
      /\ tx'.late = tx.late /\ tx'.cq = tx.cq /\ SamePath(tx, tx') /\ w \in WR
  BY PostQueueSendTx DEF Inv1
<1>3. poster'.pc = "entry" /\ poster'.w = w
  BY <1>0, <1>1 DEF PosterRec
<1>4. w \in Early
  BY <1>1, <1>2 DEF Early
<1>5. tx.snd[w].armed = FALSE /\ tx.snd[w].ok = FALSE /\ tx.snd[w].ready = FALSE /\ tx.snd[w].left = 0
  BY <1>4 DEF SendInv, AccInv, Acc, Clean
<1>6. w \notin Ran(tx.list)
  BY <1>1 DEF OkInv
<1>7. Ran(tx'.list) = Ran(tx.list) \cup {w}
  BY <1>0, <1>2, RanAppend
<1>8. ASSUME NEW v \in WR, tx.snd[v].qp # 0, v # w PROVE v < w
  <2>1. v <= w
    BY <1>1, <1>8 DEF SendInv, OrderInv
  <2> QED
    BY <1>2, <1>8, <2>1, SizeAssumption DEF WR
<1>9. \A v \in Ran(tx.list) : v < w
  <2>1. qp.inc # 0
    BY <1>1, IncUsed
  <2>2. \A v \in Ran(tx.list) : tx.snd[v].qp = qp.inc
    BY DEF Inv1, OwnInv, OwnT
  <2> QED
    BY <1>0, <1>6, <1>8, <2>1, <2>2
<1>10. ASSUME NEW a \in OkSet(tx) PROVE a < w
  <2> PICK k \in DOMAIN tx.cq : tx.cq[k].ok /\ a = tx.cq[k].w
    BY DEF OkSet
  <2>1. tx.cq[k] \in CqRec
    BY <1>0
  <2>2. a \in WR
    BY <2>1 DEF CqRec
  <2>3. tx.snd[a].ok
    BY DEF OkInv, ListT, CqT
  <2>4. tx.snd[a].qp # 0
    <3>1. ASSUME tx.snd[a].qp = 0 PROVE FALSE
      <4>1. a \in Early
        BY <2>2, <3>1 DEF Early
      <4>2. tx.snd[a].ok = FALSE
        BY <4>1 DEF SendInv, AccInv, Acc, Clean
      <4> QED
        BY <2>3, <4>2
    <3> QED
      BY <3>1
  <2>5. a # w
    BY <1>5, <2>3
  <2> QED
    BY <1>8, <2>2, <2>4, <2>5
<1>11. ListT(conf.delay, tx')
  <2>1. CqT(conf.delay, tx') /\ OkSet(tx') = OkSet(tx)
    BY <1>2 DEF OkInv, ListT, CqT, OkSet
  <2>2. Rising(tx'.list)
    BY <1>0, <1>2, <1>9, RisingAppend DEF OkInv, ListT
  <2>3. \A v \in Ran(tx'.list) : tx'.snd[v].ok = FALSE
    BY <1>2, <1>5, <1>7 DEF OkInv, ListT
  <2>4. /\ \A v \in tx'.late : tx'.snd[v].ok
        /\ ~conf.delay => tx'.late = {} /\ \A a \in OkSet(tx'), v \in Ran(tx'.list) : a < v
    BY <1>2, <1>7, <1>10, <2>1 DEF OkInv, ListT
  <2> QED
    BY <2>1, <2>2, <2>3, <2>4 DEF ListT
<1>12. Owing' = Owing
  BY <1>1 DEF Owing
<1>13. ASSUME NEW v \in WR PROVE Sent(tx, v)'
  <2>1. Sent(tx, v)
    BY DEF OkInv
  <2> QED
    BY <1>1, <1>2, <2>1 DEF Sent
<1>14. Unsent \subseteq Unsent' /\ w \in Unsent'
  BY <1>1, <1>2, <1>3 DEF Unsent
<1>15. ASSUME NEW v \in Ran(tx'.list) PROVE Waits(Unsent, Owing, tx, v)'
  <2>1. CASE v = w
    BY <1>2, <1>5, <1>14, <2>1 DEF Waits
  <2>2. CASE v \in Ran(tx.list)
    <3>1. Waits(Unsent, Owing, tx, v)
      BY <2>2 DEF OkInv
    <3>2. Due(Owing', tx', v) = Due(Owing, tx, v)
      BY <1>2, <1>12 DEF Due, SamePath
    <3> QED
      BY <1>1, <1>2, <1>14, <3>1, <3>2 DEF Waits, Exact
  <2> QED
    BY <1>7, <2>1, <2>2
<1>16. \A v \in Ran(timer.taken) : tx'.snd[v].ready /\ tx'.snd[v].ok = FALSE /\ v \notin Ran(tx'.list)
  BY <1>2, <1>5, <1>7 DEF OkInv
<1> QED
  BY <1>1, <1>3, <1>11, <1>13, <1>15, <1>16 DEF OkInv

\* The worker arms its send.
LEMMA OkArm ==
  ASSUME Inv1, SendInv, OkInv, WorkerSet
  PROVE  OkInv'
<1> PICK w : w = wk.w
  OBVIOUS
<1>0. /\ Ran(tx.list) \subseteq WR /\ tx.late \subseteq WR /\ tx.cq \in Seq(CqRec) /\ Ran(timer.taken) \subseteq WR
      /\ wk \in WkRec /\ tx.pq \in Seq(FrameRec) /\ tx.ring \in Seq(FrameRec)
      /\ \A v \in WR : tx.snd[v] \in SndRec /\ conf.len[v] \in Nat
  BY OkTypes, SendTypes
<1>1. /\ UNCHANGED <<conf, poster, timer>> /\ wk.pc = "set" /\ wk'.pc = "post" /\ wk'.w = w
      /\ wk'.posted = wk.posted
  BY <1>0 DEF WorkerSet, WkRec
<1>2. /\ w \in WR
      /\ SndTo(tx, w, [tx.snd[w] EXCEPT !.win = TRUE, !.left = conf.len[w], !.armed = (w \in Ran(tx.list))], tx')
  BY WorkerSetTx DEF Inv1
<1>3. SamePath(tx, tx') /\ tx'.list = tx.list /\ tx'.late = tx.late /\ tx'.cq = tx.cq /\ tx'.sq = tx.sq
  BY <1>2 DEF SndTo, SameQueues, SamePath
<1>4. w \in Early
  BY <1>1, <1>2 DEF Early, EarlyPc
<1>5. /\ tx.snd[w].ok = FALSE /\ tx.snd[w].ready = FALSE /\ tx.snd[w].sent = 0
      /\ \A f \in Ran(tx.pq) \cup Ran(tx.ring) : f[1] # w
  BY <1>4 DEF SendInv, AccInv, Acc, Clean
<1>6. FramesOf(tx.pq, w) = 0 /\ FramesOf(tx.ring, w) = 0
  <2>1. (\A k \in DOMAIN tx.pq : tx.pq[k][1] # w) /\ \A k \in DOMAIN tx.ring : tx.ring[k][1] # w
    BY <1>5 DEF Ran
  <2> QED
    BY ONLY <1>0, <2>1, CountFacts
<1>7. /\ tx'.snd[w].left = conf.len[w] /\ tx'.snd[w].armed = (w \in Ran(tx.list)) /\ tx'.snd[w].ok = FALSE
      /\ tx'.snd[w].ready = FALSE /\ tx'.snd[w].sent = 0 /\ tx'.snd[w].done = tx.snd[w].done
  BY <1>0, <1>2, <1>5 DEF SndTo, SndRec
<1>8. \A v \in WR : v # w => tx'.snd[v] = tx.snd[v]
  BY <1>2 DEF SndTo
<1>9. wk.posted = 0 /\ conf.len[w] > 0
  <2>1. qp.inc # 0
    BY <1>1, IncUsed
  <2>2. tx.snd[w].qp = qp.inc
    BY <1>1 DEF Inv1, OwnInv
  <2> QED
    BY <1>1, <1>2, <2>1, <2>2 DEF SendInv, OrderInv, WindowInv, EarlyPc
<1>10. Owing'[w] = conf.len[w]
  <2>1. conf.len[w] - 0 = conf.len[w]
    BY <1>0, <1>2
  <2> QED
    BY <1>1, <1>2, <1>9, <2>1 DEF Owing, Posting
<1>11. \A v \in WR : v # w => Owing'[v] = Owing[v]
  BY <1>1 DEF Owing
<1>12. \A v \in Unsent : v # w => v \in Unsent'
  BY <1>1, <1>3 DEF Unsent
<1>13. ListT(conf.delay, tx')
  <2>1. CqT(conf.delay, tx) /\ \A v \in WR : (tx.snd[v].done => tx'.snd[v].done) /\ (tx.snd[v].ok => tx'.snd[v].ok)
    BY <1>5, <1>7, <1>8 DEF OkInv, ListT
  <2>2. CqT(conf.delay, tx') /\ OkSet(tx') = OkSet(tx)
    BY <1>0, <1>3, <2>1, CqSame
  <2> QED
    BY <1>0, <1>3, <1>5, <1>7, <1>8, <2>2 DEF OkInv, ListT
<1>14. ASSUME NEW v \in WR PROVE Sent(tx, v)'
  <2>1. Sent(tx, v)
    BY DEF OkInv
  <2> QED
    BY <1>1, <1>7, <1>8, <2>1 DEF Sent
<1>15. ASSUME NEW v \in Ran(tx'.list) PROVE Waits(Unsent, Owing, tx, v)'
  <2>1. CASE v = w
    <3>1. tx'.snd[w].armed
      BY <1>3, <1>7, <2>1
    <3>2. conf.len[w] = 0 + 0 + conf.len[w] /\ conf.len[w] + 0 = conf.len[w]
      BY <1>0, <1>2
    <3>3. Due(Owing', tx', w) = conf.len[w]
      BY <1>3, <1>6, <1>10, <3>2 DEF Due, SamePath
    <3>4. tx'.snd[w].left = Due(Owing', tx', w) /\ tx'.snd[w].left > 0 /\ tx'.snd[w].left + tx'.snd[w].sent = conf.len[w]
      BY <1>7, <1>9, <3>2, <3>3
    <3> QED
      BY <1>1, <2>1, <3>1, <3>4 DEF Waits, Exact
  <2>2. CASE v # w
    <3>1. Waits(Unsent, Owing, tx, v) /\ v \in WR
      BY <1>0, <1>3 DEF OkInv
    <3>2. Due(Owing', tx', v) = Due(Owing, tx, v)
      BY <1>3, <1>11, <2>2, <3>1 DEF Due, SamePath
    <3>3. tx'.snd[v] = tx.snd[v] /\ (v \in Unsent => v \in Unsent')
      BY <1>8, <1>12, <2>2, <3>1
    <3> QED
      BY <1>1, <3>1, <3>2, <3>3 DEF Waits, Exact
  <2> QED
    BY <2>1, <2>2
<1>16. \A v \in Ran(timer.taken) : tx'.snd[v].ready /\ tx'.snd[v].ok = FALSE /\ v \notin Ran(tx'.list)
  BY <1>0, <1>3, <1>5, <1>8 DEF OkInv
<1>17. poster'.pc \in {"slot", "queue"} => poster'.w \notin Ran(tx'.list)
  BY <1>1, <1>3 DEF OkInv
<1> QED
  BY <1>1, <1>13, <1>14, <1>15, <1>16, <1>17 DEF OkInv

\* The scan takes sends off the list, all of them failed.
LEMMA OkExpire ==
  ASSUME Inv1, SendInv, OkInv, NEW w \in WR, TimerExpire(w)
  PROVE  OkInv'
<1>0. /\ tx.list \in Seq(WR) /\ Ran(tx.list) \subseteq WR /\ tx.late \subseteq WR /\ tx.cq \in Seq(CqRec)
      /\ \A v \in WR : tx.snd[v] \in SndRec
  BY OkTypes
<1>1. UNCHANGED <<conf, wk, poster>>
  BY DEF TimerExpire
<1>2. /\ w \in Ran(tx.list) /\ ~tx.snd[w].ready
      /\ \E n \in Nat : ExpireTo(tx, w, n, timer'.taken, tx') /\ timer' = [pc |-> "err", taken |-> SubSeq(tx.list, 1, n)]
  BY ExpireTx DEF Inv1
<1> PICK n \in Nat : ExpireTo(tx, w, n, timer'.taken, tx')
  BY <1>2
<1> PICK p : p = timer'.taken
  OBVIOUS
<1> PICK l : l = tx'.list
  OBVIOUS
<1>3. /\ n <= Len(tx.list) /\ p = SubSeq(tx.list, 1, n) /\ l = SubSeq(tx.list, n + 1, Len(tx.list))
      /\ tx'.sq = tx.sq /\ tx'.late = tx.late /\ tx'.cq = tx.cq /\ SamePath(tx, tx')
      /\ tx'.snd[w] = Expired(tx.snd[w]) /\ (\A v \in WR : v # w => tx'.snd[v] = tx.snd[v])
      /\ \A k \in 1..n : tx'.snd[tx.list[k]].ready
  BY DEF ExpireTo
<1>4. Rising(tx.list)
  BY DEF OkInv, ListT
<1>5. /\ Len(p) = n /\ p \in Seq(WR) /\ (\A k \in 1..n : p[k] = tx.list[k]) /\ Ran(tx.list) = Ran(p) \cup Ran(l)
      /\ Rising(l) /\ \A x \in Ran(p), y \in Ran(l) : x < y
  BY ONLY <1>0, <1>3, <1>4, SubRising, n \in Nat
<1>6. tx.snd[w].ok = FALSE /\ \A v \in Ran(tx.list) : tx.snd[v].ok = FALSE
  BY <1>2 DEF OkInv, ListT
<1>7. /\ tx'.snd[w].ready /\ tx'.snd[w].ok = FALSE /\ tx'.snd[w].done = tx.snd[w].done
      /\ tx'.snd[w].armed = tx.snd[w].armed /\ tx'.snd[w].left = tx.snd[w].left
  BY <1>0, <1>3 DEF Expired, SndRec
<1>8. \A v \in Ran(tx.list) : tx'.snd[v].ok = FALSE
  BY <1>0, <1>3, <1>6, <1>7
<1>9. ListT(conf.delay, tx')
  <2>1. CqT(conf.delay, tx) /\ \A v \in WR : (tx.snd[v].done => tx'.snd[v].done) /\ (tx.snd[v].ok => tx'.snd[v].ok)
    BY <1>3, <1>6, <1>7 DEF OkInv, ListT
  <2>2. CqT(conf.delay, tx') /\ OkSet(tx') = OkSet(tx)
    BY <1>0, <1>3, <2>1, CqSame
  <2>3. \A v \in tx'.late : tx'.snd[v].ok
    BY <1>0, <1>3, <2>1 DEF OkInv, ListT
  <2>4. ~conf.delay => tx'.late = {} /\ \A a \in OkSet(tx'), v \in Ran(l) : a < v
    BY <1>3, <1>5, <2>2 DEF OkInv, ListT
  <2> QED
    BY <1>5, <1>8, <2>2, <2>3, <2>4 DEF ListT
<1>10. Owing' = Owing /\ Unsent' = Unsent
  BY <1>1, <1>3, SameWorker
<1>11. ASSUME NEW v \in WR PROVE Sent(tx, v)'
  <2>1. Sent(tx, v)
    BY DEF OkInv
  <2> QED
    BY <1>1, <1>3, <1>7, <2>1 DEF Sent
<1>12. ASSUME NEW v \in Ran(l) PROVE Waits(Unsent, Owing, tx, v)'
  <2>1. Waits(Unsent, Owing, tx, v) /\ v \in WR
    BY <1>0, <1>5 DEF OkInv
  <2>2. CASE v = w
    BY <1>7, <1>10, <2>1, <2>2 DEF Waits
  <2>3. CASE v # w
    <3>1. Due(Owing', tx', v) = Due(Owing, tx, v)
      BY <1>3, <1>10 DEF Due, SamePath
    <3>2. tx'.snd[v] = tx.snd[v]
      BY <1>3, <2>1, <2>3
    <3> QED
      BY <1>1, <1>10, <2>1, <3>1, <3>2 DEF Waits, Exact
  <2> QED
    BY <2>2, <2>3
<1>13. ASSUME NEW v \in Ran(p) PROVE tx'.snd[v].ready /\ tx'.snd[v].ok = FALSE /\ v \notin Ran(l)
  <2>1. DOMAIN p = 1..n
    BY ONLY <1>5
  <2> PICK k \in 1..n : v = p[k]
    BY <2>1 DEF Ran
  <2>2. tx'.snd[v].ready /\ v \in Ran(tx.list) /\ v \in WR
    BY <1>0, <1>3, <1>5
  <2>3. ~(v < v)
    BY <2>2, SizeAssumption DEF WR
  <2> QED
    BY <1>5, <1>8, <2>2, <2>3
<1>14. poster'.pc \in {"slot", "queue"} => poster'.w \notin Ran(l)
  BY <1>1, <1>5 DEF OkInv
<1> QED
  BY <1>1, <1>9, <1>11, <1>12, <1>13, <1>14 DEF OkInv

\* A frame that has left the path is no longer owed.
LEMMA TxDoneLeft ==
  ASSUME conf \in Conf, NEW T \in TxRec, NEW w \in WR, NEW ok \in BOOLEAN
  PROVE  TxDone(T, w, ok).snd[w].left <= T.snd[w].left - 1
<1> PICK S : S = [T EXCEPT !.snd[w].left = @ - 1]
  OBVIOUS
<1>1. S \in TxRec /\ S.list = T.list /\ S.snd[w].left = T.snd[w].left - 1
  <2>1. SndTo(T, w, LeftLess(T.snd[w]), S) /\ LeftLess(T.snd[w]).left = T.snd[w].left - 1
    BY LeftShape
  <2> QED
    BY <2>1 DEF SndTo, SameQueues
<1> PICK I : I = {U \in TxRec : Less(S, U)}
  OBVIOUS
<1>2. Closed(I, WR, Ran(S.list))
  <2>1. Ran(S.list) \subseteq WR
    BY <1>1, RanFacts DEF TxRec
  <2> QED
    BY <1>1, <2>1, LessClosed
<1>3. S \in I /\ Ready(S, w, ok) \in I
  <2>1. Less(S, S) /\ Less(S, Ready(S, w, ok))
    BY <1>1, LessRefl, ReadyLess
  <2> QED
    BY <1>1, <2>1 DEF Less
<1>4. TxDone(T, w, ok) \in I
  BY <1>2, <1>3, TxDoneIn
<1> QED
  BY <1>1, <1>4 DEF Less, SndLess

\* When the last frame of a send is transmitted all the sends before it are done
\* with: frames leave in order, and nothing before it is owed.
LEMMA HeadLast ==
  ASSUME Inv1, SendInv, FifoInv, OkInv, tx.ring # <<>>, NEW w, w = Head(tx.ring)[1],
         NEW v \in Ran(tx.list), v < w
  PROVE  tx.snd[v].ready
<1>0. /\ tx.ring \in Seq(FrameRec) /\ tx.pq \in Seq(FrameRec) /\ tx.sq \in Seq(WR) /\ Ran(tx.list) \subseteq WR
      /\ poster \in PosterRec /\ wk \in WkRec
  BY OkTypes, SendTypes
<1>1. Head(tx.ring) \in FrameRec /\ Head(tx.ring) \in Ran(tx.ring) /\ \A g \in Ran(tx.ring) : w <= g[1]
  BY <1>0, RanTail, OrderTail DEF FifoInv
<1>2. w \in WR /\ v \in WR /\ Head(tx.ring) \in Frs(tx)
  BY <1>0, <1>1 DEF FrameRec, Frs
<1>3. \A x, y \in WR : ~(x < y /\ y <= x) /\ ~(x < y /\ y < x)
  BY SizeAssumption DEF WR
<1>4. \A f \in Frs(tx) : w <= f[1] /\ f[1] \in WR
  BY <1>1, SendTypes DEF FifoInv, Frs
<1>5. FramesOf(tx.pq, v) = 0 /\ FramesOf(tx.ring, v) = 0
  <2>1. \A f \in Frs(tx) : f[1] # v
    BY <1>2, <1>3, <1>4
  <2>2. (\A k \in DOMAIN tx.pq : tx.pq[k][1] # v) /\ \A k \in DOMAIN tx.ring : tx.ring[k][1] # v
    BY <2>1 DEF Ran, Frs
  <2> QED
    BY ONLY <1>0, <2>2, CountFacts
<1>6. wk.pc \notin {"idle", "top"} => wk.w # v
  <2>1. wk.pc \notin {"idle", "top"} => w <= wk.w
    BY <1>2 DEF FifoInv
  <2> QED
    BY <1>2, <1>3, <2>1
<1>7. v \notin Unsent
  <2>1. v \notin Ran(tx.sq)
    <3>1. \A u \in Ran(tx.sq) : w < u
      BY <1>2 DEF FifoInv
    <3> QED
      BY <1>2, <1>3, <3>1
  <2>2. poster.pc = "entry" => poster.w # v
    <3> SUFFICES ASSUME poster.pc = "entry", poster.w = v PROVE FALSE
      OBVIOUS
    <3>1. tx.snd[w].qp = qp.inc /\ qp.inc # 0
      BY <1>2, IncUsed DEF Inv1, OwnInv, OwnT, Frs
    <3>2. w <= v
      BY <1>2, <3>1 DEF SendInv, OrderInv
    <3> QED
      BY <1>2, <1>3, <3>2
  <2> QED
    BY <1>6, <2>1, <2>2 DEF Unsent, EarlyPc
<1>8. Owing[v] = 0
  BY <1>2, <1>6 DEF Owing, Posting
<1>9. Due(Owing, tx, v) = 0
  <2>1. 0 + 0 + 0 = 0
    OBVIOUS
  <2> QED
    BY <1>5, <1>8, <2>1 DEF Due
<1>10. ~Exact(Owing, tx, v)
  <2>1. ~(0 > 0)
    OBVIOUS
  <2> QED
    BY <1>9, <2>1 DEF Exact
<1>11. Waits(Unsent, Owing, tx, v)
  BY DEF OkInv
<1> QED
  BY <1>7, <1>10, <1>11 DEF Waits

\* The NHI transmits a frame: a send succeeds with its last one.
LEMMA OkNhi ==
  ASSUME Inv1, SendInv, SendInv', FifoInv, OkInv, NhiSend
  PROVE  OkInv'
<1> PICK w : w = Head(tx.ring)[1]
  OBVIOUS
<1>0. /\ conf \in Conf /\ conf.delay \in BOOLEAN /\ tx \in TxRec /\ tx.list \in Seq(WR) /\ Ran(tx.list) \subseteq WR
      /\ tx.late \subseteq WR /\ tx.cq \in Seq(CqRec) /\ Ran(timer.taken) \subseteq WR
      /\ tx.pq \in Seq(FrameRec) /\ tx.ring \in Seq(FrameRec)
      /\ \A v \in WR : /\ tx.snd[v] \in SndRec /\ tx.snd[v].left \in Int /\ conf.len[v] \in Nat
                       /\ FramesOf(tx.pq, v) \in Nat /\ FramesOf(tx.ring, v) \in Nat
  BY OkTypes
<1>1. UNCHANGED <<conf, wk, poster, timer>>
  BY DEF NhiSend
<1>2. /\ tx.ring # <<>> /\ w \in WR /\ Tail(tx.ring) \in Seq(FrameRec)
      /\ \E U : SentTo(tx, w, U) /\ tx' = TxDone(U, w, TRUE)
  BY NhiSendTx DEF Inv1
<1> PICK U : SentTo(tx, w, U) /\ tx' = TxDone(U, w, TRUE)
  BY <1>2
<1>3. /\ U \in TxRec /\ U.list = tx.list /\ U.sq = tx.sq /\ U.late = tx.late /\ U.cq = tx.cq /\ U.pq = tx.pq
      /\ U.ring = Tail(tx.ring) /\ \A v \in WR : v # w => U.snd[v] = tx.snd[v]
  BY DEF SentTo, SameLists
<1>4. /\ U.snd[w].sent = tx.snd[w].sent + 1 /\ U.snd[w].ok = tx.snd[w].ok /\ U.snd[w].ready = tx.snd[w].ready
      /\ U.snd[w].armed = tx.snd[w].armed /\ U.snd[w].left = tx.snd[w].left /\ U.snd[w].done = tx.snd[w].done
  BY <1>0, <1>2 DEF SentTo, SndRec
<1>5. \A v \in WR : /\ U.snd[v].ok = tx.snd[v].ok /\ U.snd[v].ready = tx.snd[v].ready
                    /\ U.snd[v].done = tx.snd[v].done /\ U.snd[v].left = tx.snd[v].left
                    /\ U.snd[v].armed = tx.snd[v].armed
  BY <1>3, <1>4
<1>6. ListT(conf.delay, U)
  <2>1. CqT(conf.delay, tx)
    BY DEF OkInv, ListT
  <2>2. \A v \in WR : (tx.snd[v].done => U.snd[v].done) /\ (tx.snd[v].ok => U.snd[v].ok)
    BY <1>5
  <2>3. CqT(conf.delay, U) /\ OkSet(U) = OkSet(tx)
    BY <1>0, <1>3, <2>1, <2>2, CqSame
  <2> QED
    BY <1>0, <1>3, <1>5, <2>3 DEF OkInv, ListT
<1>7. \A v \in Ran(U.list) : v < w => U.snd[v].ready
  <2>1. \A v \in Ran(tx.list) : v < w => tx.snd[v].ready
    BY <1>2, HeadLast
  <2> QED
    BY <1>0, <1>3, <1>5, <2>1
<1>8. TxOk(conf.delay, U, w, TRUE, tx')
  BY ONLY <1>0, <1>2, <1>3, <1>6, <1>7, TxDoneOk, tx' = TxDone(U, w, TRUE)
<1>9. Less(U, tx') /\ tx'.snd[w].left <= U.snd[w].left - 1
  BY ONLY <1>0, <1>2, <1>3, TxDoneLess, TxDoneLeft, tx' = TxDone(U, w, TRUE)
<1>10. \A v \in WR : tx'.snd[v].left \in Nat
  BY <1>1, <1>9, LeftStays DEF Less
<1>11. tx.snd[w].left >= 1
  <2>1. tx'.snd[w].left <= tx.snd[w].left - 1 /\ tx'.snd[w].left \in Nat /\ tx.snd[w].left \in Int
    BY ONLY <1>0, <1>2, <1>4, <1>9, <1>10
  <2> QED
    BY ONLY <2>1
<1>12. \A v \in WR : /\ tx'.snd[v].sent = U.snd[v].sent /\ tx'.snd[v].armed = tx.snd[v].armed
                     /\ tx'.snd[v].left <= tx.snd[v].left
                     /\ tx.snd[v].ready => tx'.snd[v].ready /\ tx'.snd[v].ok = tx.snd[v].ok
  <2> TAKE v \in WR
  <2>1. SndLess(U.snd[v], tx'.snd[v])
    BY <1>9 DEF Less
  <2> QED
    BY <1>5, <2>1 DEF SndLess
<1>13. /\ Ran(tx'.list) \subseteq Ran(tx.list) /\ ListT(conf.delay, tx')
       /\ \A v \in WR : tx'.snd[v].ok =>
            tx.snd[v].ok \/ (v = w /\ w \in Ran(tx.list) /\ ~tx.snd[w].ready /\ tx.snd[w].left = 1)
       /\ \A v \in Ran(tx'.list) : v # w => tx'.snd[v] = tx.snd[v] /\ FramesOf(tx'.pq, v) = FramesOf(tx.pq, v)
       /\ w \in Ran(tx'.list) => \/ tx'.snd[w].ready
                                 \/ /\ tx.snd[w].left # 1 /\ tx'.snd[w] = LeftLess(U.snd[w])
                                    /\ FramesOf(tx'.pq, w) = FramesOf(tx.pq, w)
  <2>1. \A v \in Ran(tx.list) : v # w => U.snd[v] = tx.snd[v]
    BY <1>0, <1>3
  <2>2. Ran(tx'.list) \subseteq Ran(tx.list) /\ ListT(conf.delay, tx')
    BY <1>3, <1>8 DEF TxOk
  <2>3. \A v \in WR : tx'.snd[v].ok =>
          U.snd[v].ok \/ (v = w /\ w \in Ran(U.list) /\ ~U.snd[w].ready /\ U.snd[w].left = 1)
    BY <1>8 DEF TxOk
  <2>4. /\ \A v \in Ran(tx'.list) : v # w => tx'.snd[v] = U.snd[v] /\ FramesOf(tx'.pq, v) = FramesOf(U.pq, v)
        /\ w \in Ran(tx'.list) => \/ tx'.snd[w].ready
                                  \/ /\ U.snd[w].left # 1 /\ tx'.snd[w] = LeftLess(U.snd[w])
                                     /\ FramesOf(tx'.pq, w) = FramesOf(U.pq, w)
    BY <1>8 DEF TxOk
  <2>5. \A v \in WR : tx'.snd[v].ok =>
          tx.snd[v].ok \/ (v = w /\ w \in Ran(tx.list) /\ ~tx.snd[w].ready /\ tx.snd[w].left = 1)
    BY ONLY <1>3, <1>4, <1>5, <2>3
  <2>6. \A v \in Ran(tx'.list) : v # w => tx'.snd[v] = tx.snd[v] /\ FramesOf(tx'.pq, v) = FramesOf(tx.pq, v)
    BY ONLY <1>3, <2>1, <2>2, <2>4
  <2> QED
    BY ONLY <1>3, <1>4, <2>2, <2>4, <2>5, <2>6
<1>14. \A v \in Ran(tx.list) : tx.snd[v].left >= 1 => tx.snd[v].armed
  <2>1. ~(0 >= 1)
    OBVIOUS
  <2> QED
    BY <2>1 DEF OkInv, Waits
<1>15. ASSUME w \in Ran(tx.list), ~tx.snd[w].ready PROVE Exact(Owing, tx, w)
  <2>1. Waits(Unsent, Owing, tx, w)
    BY <1>15 DEF OkInv
  <2> QED
    BY <1>11, <1>14, <1>15, <2>1 DEF Waits
<1>16. ASSUME NEW v \in WR PROVE Sent(tx, v)'
  <2> SUFFICES ASSUME tx'.snd[v].ok PROVE tx'.snd[v].sent = conf.len[v] /\ tx'.snd[v].left = 0
    BY <1>1 DEF Sent
  <2>1. CASE v # w
    <3>1. tx.snd[v].ok
      BY <1>13, <2>1
    <3>2. tx.snd[v].sent = conf.len[v] /\ tx.snd[v].left = 0
      BY <3>1 DEF OkInv, Sent
    <3>3. tx'.snd[v].sent = tx.snd[v].sent /\ tx'.snd[v].left <= 0 /\ tx'.snd[v].left \in Nat
      BY <1>3, <1>10, <1>12, <2>1, <3>2
    <3> QED
      BY ONLY <3>2, <3>3
  <2>2. CASE v = w
    <3>1. ~tx.snd[w].ok
      <4>1. tx.snd[w].ok => tx.snd[w].left = 0
        BY <1>2 DEF OkInv, Sent
      <4> QED
        BY <1>11, <4>1
    <3>2. w \in Ran(tx.list) /\ ~tx.snd[w].ready /\ tx.snd[w].left = 1
      BY <1>13, <2>2, <3>1
    <3>3. tx.snd[w].left + tx.snd[w].sent = conf.len[w]
      BY <1>15, <3>2 DEF Exact
    <3>4. tx.snd[w].sent \in Int
      BY ONLY <1>0, <1>2 DEF SndRec
    <3>5. tx'.snd[w].sent = tx.snd[w].sent + 1 /\ tx'.snd[w].left <= 1 - 1 /\ tx'.snd[w].left \in Nat
      BY ONLY <1>2, <1>4, <1>9, <1>10, <1>12, <3>2
    <3>6. tx'.snd[w].sent = conf.len[w] /\ tx'.snd[w].left = 0
      BY ONLY <3>2, <3>3, <3>4, <3>5
    <3> QED
      BY <2>2, <3>6
  <2> QED
    BY <2>1, <2>2
<1>17. Owing' = Owing /\ Unsent' = Unsent
  BY <1>1, <1>3, <1>9, SameWorker DEF Less
<1>18. /\ tx'.ring = Tail(tx.ring)
       /\ \A v \in WR : FramesOf(tx.ring, v) = FramesOf(Tail(tx.ring), v) + (IF w = v THEN 1 ELSE 0)
       /\ \A v \in WR : FramesOf(Tail(tx.ring), v) \in Nat
  <2>1. \A v \in WR : FramesOf(tx.ring, v) = FramesOf(Tail(tx.ring), v) + (IF w = v THEN 1 ELSE 0)
    <3> TAKE v \in WR
    <3>1. FramesOf(tx.ring, v) = FramesOf(Tail(tx.ring), v) + (IF Head(tx.ring)[1] = v THEN 1 ELSE 0)
      BY ONLY <1>0, <1>2, CountTail
    <3> QED
      BY <3>1
  <2>2. \A v \in WR : FramesOf(Tail(tx.ring), v) \in Nat
    BY ONLY <1>2, CountFacts
  <2> QED
    BY <1>3, <1>9, <2>1, <2>2 DEF Less
<1>19. ASSUME NEW v \in Ran(tx'.list) PROVE Waits(Unsent, Owing, tx, v)'
  <2>0. v \in WR /\ v \in Ran(tx.list) /\ Waits(Unsent, Owing, tx, v)
    BY <1>0, <1>13 DEF OkInv
  <2>1. CASE v # w
    <3>1. tx'.snd[v] = tx.snd[v] /\ FramesOf(tx'.pq, v) = FramesOf(tx.pq, v)
      BY <1>13, <2>1
    <3>2. FramesOf(tx'.ring, v) = FramesOf(tx.ring, v)
      <4> PICK b \in Nat : b = FramesOf(Tail(tx.ring), v)
        BY <1>18, <2>0
      <4>1. b + 0 = b
        OBVIOUS
      <4> QED
        BY <1>18, <2>0, <2>1, <4>1
    <3>3. Due(Owing', tx', v) = Due(Owing, tx, v)
      BY <1>17, <3>1, <3>2 DEF Due
    <3> QED
      BY <1>1, <1>17, <2>0, <3>1, <3>3 DEF Waits, Exact
  <2>2. CASE v = w /\ tx'.snd[w].ready
    <3>1. tx'.snd[w].armed
      BY <1>2, <1>11, <1>12, <1>14, <2>0, <2>2
    <3> QED
      BY <2>2, <3>1 DEF Waits
  <2>3. CASE v = w /\ ~tx'.snd[w].ready
    <3>1. /\ tx.snd[w].left # 1 /\ tx'.snd[w] = LeftLess(U.snd[w])
          /\ FramesOf(tx'.pq, w) = FramesOf(tx.pq, w)
      BY ONLY <1>13, <2>3, v \in Ran(tx'.list)
    <3>2. ~tx.snd[w].ready /\ tx'.snd[w].armed
      BY <1>2, <1>11, <1>12, <1>14, <2>0, <2>3
    <3>3. tx'.snd[w].left = tx.snd[w].left - 1
      <4>1. LeftLess(U.snd[w]).left = U.snd[w].left - 1
        BY ONLY <1>2, <1>3, LeftShape
      <4> QED
        BY <1>4, <3>1, <4>1
    <3>4. Exact(Owing, tx, w)
      BY <1>15, <2>0, <2>3, <3>2
    <3> PICK a \in Nat, b \in Nat, l \in Int, s \in Int, h \in Int, c \in Nat :
          /\ a = FramesOf(tx.pq, w) /\ b = FramesOf(Tail(tx.ring), w) /\ l = tx.snd[w].left /\ s = tx.snd[w].sent
          /\ h = Owing[w] /\ c = conf.len[w]
      <4>1. Owing[w] \in Int
        <5>1. conf.len[w] \in Nat /\ wk.posted \in Nat
          BY <1>0, <1>2, SendTypes DEF WkRec
        <5>2. conf.len[w] - wk.posted \in Int
          BY ONLY <5>1
        <5> QED
          BY <1>2, <5>2 DEF Owing
      <4> QED
        BY <1>0, <1>2, <1>18, <4>1 DEF SndRec
    <3>5. FramesOf(tx.ring, w) = b + 1
      BY <1>2, <1>18
    <3>6. l = a + (b + 1) + h /\ l > 0 /\ l + s = c
      BY <3>4, <3>5 DEF Exact, Due
    <3>7. Due(Owing', tx', w) = a + b + h
      BY ONLY <1>17, <1>18, <3>1, a = FramesOf(tx.pq, w), b = FramesOf(Tail(tx.ring), w), h = Owing[w] DEF Due
    <3>8. tx'.snd[w].left = l - 1 /\ tx'.snd[w].sent = s + 1 /\ l # 1
      BY ONLY <1>2, <1>4, <1>12, <3>1, <3>3, l = tx.snd[w].left, s = tx.snd[w].sent
    <3>9. l - 1 = a + b + h /\ l - 1 > 0 /\ (l - 1) + (s + 1) = c
      BY ONLY <3>6, <3>8, a \in Nat, b \in Nat, l \in Int, s \in Int, h \in Int, c \in Nat
    <3>10. tx'.snd[w].left = Due(Owing', tx', w) /\ tx'.snd[w].left > 0 /\ tx'.snd[w].left + tx'.snd[w].sent = conf.len[w]
      BY <3>7, <3>8, <3>9
    <3> QED
      BY ONLY <1>1, <2>3, <3>2, <3>10 DEF Waits, Exact
  <2> QED
    BY <2>1, <2>2, <2>3
<1>20. \A v \in Ran(timer'.taken) : tx'.snd[v].ready /\ tx'.snd[v].ok = FALSE /\ v \notin Ran(tx'.list)
  <2>1. \A v \in Ran(timer.taken) : v \in WR /\ tx.snd[v].ready /\ tx.snd[v].ok = FALSE /\ v \notin Ran(tx.list)
    BY <1>0 DEF OkInv
  <2> QED
    BY ONLY <1>1, <1>12, <1>13, <2>1
<1>21. poster'.pc \in {"slot", "queue"} => poster'.w \notin Ran(tx'.list)
  BY <1>1, <1>13 DEF OkInv
<1> QED
  BY <1>1, <1>13, <1>16, <1>19, <1>20, <1>21 DEF OkInv

\* Every step keeps what a success means.
LEMMA OkStep ==
  ASSUME Inv1, SendInv, FifoInv, OkInv, [Next]_vars
  PROVE  OkInv'
<1>0. SendInv' /\ tx \in TxRec /\ conf \in Conf /\ wk \in WkRec
  BY SendStep, SendTypes
<1>1. CASE Post \/ PostStep
  BY <1>1, OkGetLive, OkSlot, OkQueueSend, OkQueueEntry DEF Post, PostStep
<1>2. CASE Worker
  <2>1. CASE WorkerGet \/ WorkerPath(BoundTo) \/ WorkerCheck \/ WorkerGroup
    <3>1. /\ UNCHANGED <<conf, poster, timer>> /\ tx' = tx /\ wk'.w = wk.w /\ wk'.posted = wk.posted
          /\ \/ wk.pc \in EarlyPc /\ wk'.pc \in EarlyPc \cup {"fail"}
             \/ wk.pc \in Posting /\ wk'.pc \in Posting \cup {"fail"}
      BY <1>0, <2>1 DEF WorkerGet, WorkerPath, WorkerCheck, WorkerGroup, WkRec, EarlyPc, Posting
    <3> QED
      BY <3>1, OkWorkerPc DEF SameLists, SamePath
  <2>2. CASE WorkerWindow \/ WorkerReserve(rail.closed)
    <3>1. /\ UNCHANGED <<conf, poster, timer>> /\ wk'.w = wk.w /\ wk'.posted = wk.posted
          /\ wk.pc \in EarlyPc /\ wk'.pc \in EarlyPc \cup {"fail"}
      BY <1>0, <2>2 DEF WorkerWindow, WorkerReserve, WkRec, EarlyPc
    <3>2. wk.w \in WR
      BY <3>1 DEF Inv1, TxTypes, EarlyPc
    <3>3. tx'.snd = tx.snd /\ SameLists(tx, tx') /\ SamePath(tx, tx')
      BY <1>0, <2>2, <3>2, WindowTx DEF WorkerWindow, WorkerReserve, WindowTo, SamePath, SameLists
    <3> QED
      BY <3>1, <3>3, OkWorkerPc
  <2> QED
    BY <1>0, <1>2, <2>1, <2>2, OkPop, OkArm, OkPost, OkEnd DEF Worker
<1>3. CASE Path
  BY <1>3, OkPath DEF Path
<1>4. CASE Nhi
  BY <1>0, <1>4, OkNhi DEF Nhi
<1>5. CASE Late
  BY <1>0, <1>5, OkLate DEF Late
<1>6. CASE Expire
  BY <1>6, OkExpire DEF Expire
<1>7. CASE TimerFlush \/ ModifyFlush \/ QFlush \/ QStop
  <2>1. UNCHANGED <<conf, wk, poster>> /\ tx' = Flush(tx) /\ timer'.taken = timer.taken
    <3>1. timer \in TimerRec
      BY DEF Inv1, TxTypes
    <3> QED
      BY <1>7, <3>1 DEF TimerFlush, ModifyFlush, QFlush, QStop, FlushError, flushOthers, TimerRec
  <2> QED
    BY <1>0, <2>1, OkFlush
<1>8. CASE Create
  <2>1. tx'.snd = tx.snd /\ SameLists(tx, tx') /\ SamePath(tx, tx') /\ UNCHANGED <<conf, wk, poster, timer>>
    BY <1>8, CreateTx DEF Inv1, Create, CreateQp
  <2>2. poster.pc \in {"slot", "queue"} => poster.w \notin Ran(tx.list)
    BY DEF OkInv
  <2> QED
    BY <2>1, <2>2, OkQuiet DEF SameLists, SameSnd
<1>9. CASE QCancel
  <2>1. /\ UNCHANGED <<conf, wk, poster, timer>> /\ Less(PqEmptied(tx), tx')
        /\ tx' = Frames!Run(FALSE, PqEmptied(tx), tx.pq)
    BY <1>9, LoopTx DEF Inv1, QCancel, PqEmptied
  <2>2. PqEmptied(tx).pq = <<>> /\ PqEmptied(tx).ring = tx.ring
    BY <1>0, EmptiedTx
  <2> QED
    BY <1>0, <2>1, <2>2, OkFrames
<1>10. CASE Barrier
  <2>1. /\ UNCHANGED <<conf, wk, poster, timer>> /\ Less(RingEmptied(tx), tx')
        /\ tx' = Frames!Run(FALSE, RingEmptied(tx), tx.ring)
    BY <1>10, LoopTx DEF Inv1, Barrier, QBarrier, RingEmptied
  <2>2. RingEmptied(tx).ring = <<>> /\ RingEmptied(tx).pq = tx.pq
    BY <1>0, EmptiedTx
  <2> QED
    BY <1>0, <2>1, <2>2, OkFrames
<1>11. CASE TimerComplete
  BY <1>0, <1>11, OkComplete
<1>12. CASE \/ TimerError \/ Modify \/ ModifyStep \/ Destroy \/ Destroyed \/ Watchdog \/ RemoveRail
            \/ (\E t \in {"user", "wd", "rm"} : QClose(t)) \/ QMark \/ QCancelWorker \/ QDrained
            \/ QRefs(RxHolds) \/ QEnd \/ RxCheck \/ RxLookup \/ RxDeliver \/ PostRecv
  <2>1. UNCHANGED <<conf, tx, wk, poster>>
    BY <1>12, SendOther DEF sendVars
  <2>2. timer'.taken = timer.taken
    <3>1. timer \in TimerRec
      BY DEF Inv1, TxTypes
    <3>2. CASE TimerError
      BY <3>1, <3>2 DEF TimerError, TimerRec
    <3>3. CASE ~TimerError
      BY <1>12, <3>3 DEF Modify, ModifyUp, ModifyDown, ModifyStep, Bind, Commit, ModifyJoin, ModifyEnd, Destroy,
            Destroyed, DestroyQp, DestroyFree, Watchdog, RemoveRail, WatchdogFail, RemoveStart, QClose, QMark,
            QCancelWorker, QDrained, QRefs, QEnd, RxCheck, RxLookup, RxDeliver, PostRecv, rxOthers, txVars
    <3> QED
      BY <3>2, <3>3
  <2>3. poster.pc \in {"slot", "queue"} => poster.w \notin Ran(tx.list)
    BY DEF OkInv
  <2> QED
    BY <2>1, <2>2, <2>3, OkQuiet DEF SameSnd, SamePath
<1>13. CASE UNCHANGED vars
  <2>1. poster.pc \in {"slot", "queue"} => poster.w \notin Ran(tx.list)
    BY DEF OkInv
  <2> QED
    BY <1>13, <2>1, OkQuiet DEF SameSnd, SamePath, vars
<1> QED
  BY <1>1, <1>2, <1>3, <1>4, <1>5, <1>6, <1>7, <1>8, <1>9, <1>10, <1>11, <1>12, <1>13
     DEF Next, TimerStep, Quiesce

\* Initially nothing is listed and nothing reported.
LEMMA OkInit == Init => OkInv
<1> SUFFICES ASSUME Init PROVE OkInv
  OBVIOUS
<1>1. /\ \A w \in WR : tx.snd[w] = NoSend
      /\ tx.list = <<>> /\ tx.late = {} /\ tx.cq = <<>> /\ timer.taken = <<>> /\ poster.pc = "idle"
  BY DEF Init, TxInit, IdleTimer, IdlePoster
<1>2. Ran(<<>>) = {} /\ Rising(<<>>) /\ DOMAIN <<>> = {}
  BY DEF Ran, Rising
<1>3. NoSend.ok = FALSE
  BY DEF NoSend
<1>4. \A w \in WR : Sent(tx, w)
  BY <1>1, <1>3 DEF Sent
<1>5. ListT(conf.delay, tx)
  BY <1>1, <1>2 DEF ListT, CqT, OkSet
<1> QED
  BY <1>1, <1>2, <1>4, <1>5 DEF OkInv

\* The invariant says what a success means.
LEMMA OkReported ==
  ASSUME Inv1, SendInv, OkInv
  PROVE  OkMeansSent
<1>1. tx.cq \in Seq(CqRec) /\ CqT(conf.delay, tx)
  BY OkTypes DEF OkInv, ListT
<1>2. ASSUME NEW k \in DOMAIN tx.cq, tx.cq[k].ok PROVE tx.snd[tx.cq[k].w].sent = conf.len[tx.cq[k].w]
  <2>1. tx.cq[k] \in CqRec
    BY <1>1
  <2>2. tx.cq[k].w \in WR
    BY ONLY <2>1 DEF CqRec
  <2>3. tx.snd[tx.cq[k].w].ok
    BY <1>1, <1>2 DEF CqT
  <2> QED
    BY <2>2, <2>3 DEF OkInv, Sent
<1> QED
  BY <1>1, <1>2 DEF OkMeansSent, CqT

\* A send reported as successful had every frame transmitted, is reported once,
\* and after the successes of earlier sends unless completions are put off
\* (tbv_qp_complete_send_ordered(), tbv_send_complete()).
THEOREM OkMeansSentThm == Spec => []OkMeansSent
<1> DEFINE OkAll == Inv1 /\ SendInv /\ FifoInv /\ OkInv
<1>1. Init => OkAll
  BY Inv1Init, SendInit, FifoInit, OkInit
<1>2. OkAll /\ [Next]_vars => OkAll'
  BY Inv1Step, SendStep, FifoStep, OkStep
<1>3. OkAll => OkMeansSent
  BY OkReported
<1> QED
  BY <1>1, <1>2, <1>3, PTL DEF Spec
=============================================================================
