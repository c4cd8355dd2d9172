--------------------------- MODULE AppleQpProofs ---------------------------
(***************************************************************************)
(* The receive side of an Apple queue pair delivers whole messages of the  *)
(* peer, in their order, whatever the rail's binding, the quiesce and the  *)
(* flushes do meanwhile; the send side leaves nothing behind it when a     *)
(* queue pair is freed, and the path under it has one owner at a time.     *)
(*                                                                         *)
(* The slots of a value R of rx are its completed receives followed by its *)
(* ready slots: the drain moves the border between them and nothing else.  *)
(* RxOK relates them, and the active slot, to n, the frame of the stream   *)
(* P that the handler has before it.                                       *)
(*                                                                         *)
(* The send side's inductive invariant AppleInv is built in layers, each   *)
(* preserved with the help of those before it:                             *)
(*   RailInv    the rail, its quiesce, and the thread of the user;         *)
(*   TxTypes    the queues of the path and the records of the sends;       *)
(*   OwnInv     what tx holds belongs to the present queue pair;           *)
(*   DestroyInv what the steps of a destroy have emptied stays empty;      *)
(*   SendInv    the order of the frames and the counts of each send        *)
(*              (OrderInv, AccInv, WindowInv);                             *)
(*   PathInv    frames on the path are of the binding's epoch, and a       *)
(*              quiesce that has emptied the path leaves it empty;         *)
(*   EpochInv   the same of the sends that are held.                       *)
(* RailInv, TxTypes, OwnInv and DestroyInv together are Inv1.  The loops   *)
(* over lists (SeqLoop) have an induction lemma each.                      *)
(***************************************************************************)
EXTENDS AppleQp, FiniteSetTheorems, TLAPS

Frame == [m : Nat, i : Nat]
SlotRec == [live : BOOLEAN, frames : Seq(Frame), err : BOOLEAN]
WcRec == [frames : Seq(Frame), ok : BOOLEAN]
RxRec == [rq : Nat, posted : Nat, ready : Seq(SlotRec), act : SlotRec, discard : BOOLEAN,
          got : Seq(WcRec), cut : SUBSET Nat]

Cnt(R) == Len(R.got) + Len(R.ready)
Fr(R, k) == IF k <= Len(R.got) THEN R.got[k].frames ELSE R.ready[k - Len(R.got)].frames
Good(R, k) == IF k <= Len(R.got) THEN R.got[k].ok ELSE ~R.ready[k - Len(R.got)].err

Ms(fs) == {fs[j].m : j \in DOMAIN fs}
Upto(m, k) == [j \in 1..k |-> [m |-> m, i |-> j]]
Whole(P, fs) == \E m \in Ms(fs) : fs = Upto(m, P[m])

\* The frame f belongs to the stream P; the frame after it.
On(P, f) == f.m \in 1..Len(P) /\ f.i \in 1..P[f.m]
Succ(P, f) == IF f.i = P[f.m] THEN [m |-> f.m + 1, i |-> 1] ELSE [m |-> f.m, i |-> f.i + 1]

\* The slots are whole messages unless they are cut, in order, and before n.
SlotsOK(P, R, n) ==
  /\ \A k \in 1..Cnt(R) : Good(R, k) /\ Ms(Fr(R, k)) \cap R.cut = {} => Whole(P, Fr(R, k))
  /\ \A j, k \in 1..Cnt(R) : j < k => \A x \in Ms(Fr(R, j)), y \in Ms(Fr(R, k)) : x < y
  /\ \A k \in 1..Cnt(R) : \A x \in Ms(Fr(R, k)) : x < n.m

\* The active slot comes after them and holds the message of n up to n.
ActOK(R, n) ==
  /\ ~R.act.live => R.act = NoSlot
  /\ R.discard => ~R.act.live
  /\ \A k \in 1..Cnt(R) : \A x \in Ms(Fr(R, k)), y \in Ms(R.act.frames) : x < y
  /\ \A y \in Ms(R.act.frames) : y <= n.m
  /\ R.act.live /\ ~R.act.err /\ Ms(R.act.frames) \cap R.cut = {} =>
       n.i > 1 /\ R.act.frames = Upto(n.m, n.i - 1)

\* Frames of the message of n that were handled before are in the active slot,
\* are being discarded with the rest of it, or are cut.
MidOK(R, n) == n.i > 1 /\ ~R.act.live => R.discard \/ n.m \in R.cut

RxOK(P, R, n) == R \in RxRec /\ n \in Frame /\ SlotsOK(P, R, n) /\ ActOK(R, n) /\ MidOK(R, n)

\* The frame before the handler.
Nxt == IF rxh.pc # "idle" THEN [m |-> rxh.m, i |-> rxh.i] ELSE peer

\* The inductive invariant.
RxInv ==
  /\ conf.peer \in Seq(Nat \ {0})
  /\ RxOK(conf.peer, rx, Nxt)
  /\ rxh \in [pc : {"idle", "lookup", "deliver"}, m : Nat, i : Nat]
  /\ peer \in Frame /\ peer.m > 0 /\ peer.i > 0
  /\ peer.m \in 1..Len(conf.peer) => On(conf.peer, peer)
  /\ rxh.pc # "idle" => /\ On(conf.peer, [m |-> rxh.m, i |-> rxh.i])
                        /\ peer = Succ(conf.peer, [m |-> rxh.m, i |-> rxh.i])

-----------------------------------------------------------------------------
(* Sequences.                                                              *)

\* A concatenation, pointwise.
LEMMA ConcatFacts ==
  ASSUME NEW S, NEW s \in Seq(S), NEW t \in Seq(S), NEW n \in Nat, n = Len(t)
  PROVE  /\ s \o t \in Seq(S) /\ Len(s \o t) = Len(s) + n
         /\ \A k \in 1..Len(s) : (s \o t)[k] = s[k]
         /\ \A k \in 1..n : (s \o t)[Len(s) + k] = t[k]
  OBVIOUS

\* What is left after the first n elements.
LEMMA RestFacts ==
  ASSUME NEW S, NEW s \in Seq(S), NEW n \in Nat, n <= Len(s)
  PROVE  /\ SubSeq(s, n + 1, Len(s)) \in Seq(S)
         /\ Len(SubSeq(s, n + 1, Len(s))) = Len(s) - n
         /\ \A k \in 1..(Len(s) - n) : SubSeq(s, n + 1, Len(s))[k] = s[n + k]
  OBVIOUS

\* An appended element.
LEMMA AppendFacts ==
  ASSUME NEW S, NEW s \in Seq(S), NEW e \in S
  PROVE  /\ Append(s, e) \in Seq(S) /\ Len(Append(s, e)) = Len(s) + 1 /\ Len(s) \in Nat
         /\ \A k \in 1..Len(s) : Append(s, e)[k] = s[k]
         /\ Append(s, e)[Len(s) + 1] = e
  OBVIOUS

\* A function on 1..n is a sequence.
LEMMA FunIsSeq ==
  ASSUME NEW S, NEW n \in Nat, NEW f \in [1..n -> S]
  PROVE  f \in Seq(S) /\ Len(f) = n
  OBVIOUS

\* Sequences that agree everywhere are equal.
LEMMA SeqEqual ==
  ASSUME NEW S, NEW s \in Seq(S), NEW t \in Seq(S), NEW n \in Nat, Len(s) = n, Len(t) = n,
         \A k \in 1..n : s[k] = t[k]
  PROVE  s = t
  OBVIOUS

-----------------------------------------------------------------------------
(* The drain.                                                              *)

\* D has the slots of R; a receive may turn an unbroken slot into an error.
Same(R, D) ==
  /\ D \in RxRec /\ D.act = R.act /\ D.discard = R.discard /\ D.cut = R.cut
  /\ Cnt(D) = Cnt(R)
  /\ \A k \in 1..Cnt(R) : Fr(D, k) = Fr(R, k) /\ (Good(D, k) => Good(R, k))

\* The drain moves slots to receives.
LEMMA DrainSame ==
  ASSUME NEW R \in RxRec
  PROVE  Same(R, Drain(R))
<1> PICK n \in Nat : /\ n = IF qp.closing THEN 0 ELSE IF R.rq < Len(R.ready) THEN R.rq ELSE Len(R.ready)
                     /\ n <= R.rq /\ n <= Len(R.ready)
  BY DEF RxRec
<1> DEFINE Wc(s) == [frames |-> s.frames, ok |-> ~s.err /\ Len(s.frames) <= conf.rlen]
           W == [k \in 1..n |-> Wc(R.ready[k])]
           D == [R EXCEPT !.rq = @ - n, !.ready = SubSeq(@, n + 1, Len(@)), !.got = @ \o W]
<1>0. Drain(R) = D
  BY DEF Drain
<1>1. /\ R.ready \in Seq(SlotRec) /\ R.got \in Seq(WcRec) /\ R.rq \in Nat /\ R.posted \in Nat
      /\ R.act \in SlotRec /\ R.discard \in BOOLEAN /\ R.cut \in SUBSET Nat
  BY DEF RxRec
<1>2. /\ W \in Seq(WcRec) /\ Len(W) = n
      /\ \A k \in 1..n : W[k].frames = R.ready[k].frames /\ (W[k].ok => ~R.ready[k].err)
  <2>1. \A k \in 1..n : R.ready[k] \in SlotRec
    BY <1>1
  <2>2. \A k \in 1..n : W[k] \in WcRec
    BY <2>1 DEF SlotRec, WcRec
  <2>3. W \in [1..n -> WcRec]
    BY <2>2
  <2>4. W \in Seq(WcRec) /\ Len(W) = n
    <3> PICK U : U = W
      OBVIOUS
    <3>1. U \in [1..n -> WcRec]
      BY <2>3
    <3>2. U \in Seq(WcRec) /\ Len(U) = n
      BY ONLY <3>1, n \in Nat, FunIsSeq
    <3> QED
      BY <3>2
  <2>5. \A k \in 1..n : W[k].frames = R.ready[k].frames /\ (W[k].ok => ~R.ready[k].err)
    OBVIOUS
  <2> QED
    BY ONLY <2>4, <2>5
<1> PICK V : V = W
  OBVIOUS
<1> HIDE DEF W, Wc
<1>3. /\ SubSeq(R.ready, n + 1, Len(R.ready)) \in Seq(SlotRec)
      /\ Len(SubSeq(R.ready, n + 1, Len(R.ready))) = Len(R.ready) - n
      /\ \A k \in 1..(Len(R.ready) - n) : SubSeq(R.ready, n + 1, Len(R.ready))[k] = R.ready[n + k]
  BY ONLY <1>1, n \in Nat, n <= Len(R.ready), RestFacts
<1>4. /\ R.got \o V \in Seq(WcRec) /\ Len(R.got \o V) = Len(R.got) + n
      /\ \A k \in 1..Len(R.got) : (R.got \o V)[k] = R.got[k]
      /\ \A k \in 1..n : (R.got \o V)[Len(R.got) + k] = V[k]
  <2>1. V \in Seq(WcRec) /\ n = Len(V)
    BY <1>2
  <2> QED
    BY ONLY <1>1, <2>1, n \in Nat, ConcatFacts
<1> PICK r, g : r = SubSeq(R.ready, n + 1, Len(R.ready)) /\ g = R.got \o V
  OBVIOUS
<1>5. /\ D.ready = r /\ D.got = g /\ D.act = R.act /\ D.discard = R.discard /\ D.cut = R.cut
      /\ D = [R EXCEPT !.rq = R.rq - n, !.ready = r, !.got = g]
  BY DEF RxRec
<1>6. D \in RxRec
  <2> PICK q \in Nat : q = R.rq - n
    BY <1>1
  <2>1. r \in Seq(SlotRec) /\ g \in Seq(WcRec) /\ D = [R EXCEPT !.rq = q, !.ready = r, !.got = g]
    BY <1>3, <1>4, <1>5
  <2> QED
    BY ONLY <2>1, q \in Nat, R \in RxRec DEF RxRec
<1> PICK E : E = D
  OBVIOUS
<1> HIDE DEF D
<1>7. Cnt(E) = Cnt(R) /\ Len(E.got) = Len(R.got) + n
  <2>1. Len(E.got) = Len(R.got) + n /\ Len(E.ready) = Len(R.ready) - n
    BY <1>3, <1>4, <1>5
  <2>2. Len(R.got) \in Nat /\ Len(R.ready) \in Nat
    BY <1>1
  <2> QED
    <3>1. Cnt(E) = Len(E.got) + Len(E.ready) /\ Cnt(R) = Len(R.got) + Len(R.ready)
      BY DEF Cnt
    <3> PICK a \in Nat, b \in Nat : a = Len(R.got) /\ b = Len(R.ready)
      BY <2>2
    <3>2. Cnt(E) = (a + n) + (b - n) /\ Cnt(R) = a + b
      BY <2>1, <3>1
    <3>3. (a + n) + (b - n) = a + b
      BY ONLY a \in Nat, b \in Nat, n \in Nat
    <3> QED
      BY ONLY <2>1, <3>2, <3>3
<1>8. ASSUME NEW k \in 1..Cnt(R) PROVE Fr(E, k) = Fr(R, k) /\ (Good(E, k) => Good(R, k))
  <2> PICK L \in Nat : L = Len(R.got)
    BY <1>1
  <2>0. k \in Nat /\ Cnt(R) = L + Len(R.ready) /\ Len(R.ready) \in Nat /\ k <= Cnt(R) /\ k >= 1
    <3>1. Cnt(R) = L + Len(R.ready)
      BY DEF Cnt
    <3>2. Len(R.ready) \in Nat
      BY <1>1
    <3> QED
      BY ONLY <3>1, <3>2, L \in Nat, k \in 1..Cnt(R)
  <2>1. CASE k <= L
    <3>1. E.got[k] = R.got[k] /\ k <= Len(E.got)
      BY <1>4, <1>5, <1>7, <2>0, <2>1
    <3> QED
      BY <2>1, <3>1 DEF Fr, Good
  <2>2. CASE k > L /\ k <= L + n
    <3> PICK j \in 1..n : j = k - L
      BY ONLY <2>0, <2>2, n \in Nat, L \in Nat
    <3>1. L + j = k /\ ~(k <= L)
      BY <2>0, <2>2
    <3>2. E.got[k] = V[j] /\ k <= Len(E.got)
      BY <1>4, <1>5, <1>7, <2>2, <3>1
    <3>3. V[j].frames = R.ready[j].frames /\ (V[j].ok => ~R.ready[j].err)
      BY <1>2
    <3> QED
      BY <3>1, <3>2, <3>3 DEF Fr, Good
  <2>3. CASE k > L + n
    <3> PICK j \in 1..(Len(R.ready) - n) : j = k - L - n
      BY ONLY <2>0, <2>3, n \in Nat, L \in Nat
    <3>1. n + j = k - L /\ k - (L + n) = j /\ ~(k <= L) /\ ~(k <= L + n)
      BY ONLY <2>0, <2>3, n \in Nat, L \in Nat, j = k - L - n
    <3>2. E.ready[j] = R.ready[n + j]
      BY <1>3, <1>5
    <3> QED
      BY <1>7, <3>1, <3>2 DEF Fr, Good
  <2> QED
    BY <2>0, <2>1, <2>2, <2>3
<1> QED
  BY <1>0, <1>5, <1>6, <1>7, <1>8 DEF Same

\* The same slots are as good as they were.
LEMMA SameOK ==
  ASSUME NEW P, NEW R, NEW D, NEW n, RxOK(P, R, n), Same(R, D)
  PROVE  RxOK(P, D, n)
<1>1. SlotsOK(P, D, n)
  BY DEF RxOK, Same, SlotsOK
<1>2. ActOK(D, n) /\ MidOK(D, n)
  BY DEF RxOK, Same, ActOK, MidOK
<1> QED
  BY <1>1, <1>2 DEF RxOK, Same

-----------------------------------------------------------------------------
(* A frame that is dropped, and a flush.                                   *)

\* The frame after a frame of the stream.
LEMMA SuccFacts ==
  ASSUME NEW P \in Seq(Nat \ {0}), NEW f \in Frame, On(P, f)
  PROVE  /\ Succ(P, f) \in Frame /\ Succ(P, f).m > 0 /\ Succ(P, f).i > 0
         /\ Succ(P, f).m \in 1..Len(P) => On(P, Succ(P, f))
         /\ f.i = P[f.m] => Succ(P, f).m = f.m + 1 /\ Succ(P, f).i = 1
         /\ f.i # P[f.m] => Succ(P, f).m = f.m /\ Succ(P, f).i = f.i + 1
         /\ Succ(P, f).m >= f.m
         /\ f.m \in Nat /\ f.i \in Nat /\ f.i >= 1
<1>1. /\ f.m \in 1..Len(P) /\ f.m \in Nat /\ f.i \in Nat /\ f.i >= 1 /\ f.i <= P[f.m]
      /\ P[f.m] \in Nat /\ \A k \in 1..Len(P) : P[k] \in Nat /\ P[k] >= 1
  BY DEF On, Frame
<1>2. CASE f.i = P[f.m]
  <2>1. Succ(P, f) = [m |-> f.m + 1, i |-> 1]
    BY <1>2 DEF Succ
  <2> QED
    BY <1>1, <1>2, <2>1 DEF On, Frame
<1>3. CASE f.i # P[f.m]
  <2>1. Succ(P, f) = [m |-> f.m, i |-> f.i + 1]
    BY <1>3 DEF Succ
  <2>2. f.i + 1 \in 1..P[f.m] /\ f.i + 1 > 0 /\ f.i + 1 \in Nat
    BY ONLY <1>1, <1>3
  <2> QED
    BY <1>1, <1>3, <2>1, <2>2 DEF On, Frame
<1> QED
  BY <1>2, <1>3

\* The messages of a sequence of frames are numbers.
LEMMA MsFacts ==
  ASSUME NEW R \in RxRec
  PROVE  /\ Ms(R.act.frames) \subseteq Nat
         /\ \A k \in 1..Cnt(R) : Ms(Fr(R, k)) \subseteq Nat
<1>1. \A fs \in Seq(Frame) : Ms(fs) \subseteq Nat
  <2> TAKE fs \in Seq(Frame)
  <2>1. \A j \in DOMAIN fs : fs[j] \in Frame
    OBVIOUS
  <2>2. \A j \in DOMAIN fs : fs[j].m \in Nat
    BY <2>1 DEF Frame
  <2> QED
    BY <2>2 DEF Ms
<1>2. R.act.frames \in Seq(Frame)
  BY DEF RxRec, SlotRec
<1>3. ASSUME NEW k \in 1..Cnt(R) PROVE Fr(R, k) \in Seq(Frame)
  <2>1. R.got \in Seq(WcRec) /\ R.ready \in Seq(SlotRec) /\ Len(R.got) \in Nat /\ Len(R.ready) \in Nat
    BY DEF RxRec
  <2> PICK a \in Nat, b \in Nat : a = Len(R.got) /\ b = Len(R.ready)
    BY <2>1
  <2>2. k \in 1..(a + b)
    BY DEF Cnt
  <2>3. CASE k <= a
    <3>1. k \in 1..a
      BY ONLY <2>2, <2>3, a \in Nat, b \in Nat
    <3>2. R.got[k] \in WcRec
      BY <2>1, <3>1
    <3> QED
      BY <2>3, <3>2 DEF Fr, WcRec
  <2>4. CASE ~(k <= a)
    <3> PICK j \in 1..b : j = k - a
      BY ONLY <2>2, <2>4, a \in Nat, b \in Nat
    <3>1. R.ready[j] \in SlotRec
      BY <2>1
    <3> QED
      BY <2>4, <3>1 DEF Fr, SlotRec
  <2> QED
    BY <2>3, <2>4
<1> QED
  BY <1>1, <1>2, <1>3

\* A frame that no slot takes cuts its message.
LEMMA CutOK ==
  ASSUME NEW P \in Seq(Nat \ {0}), NEW R, NEW n, RxOK(P, R, n), On(P, n)
  PROVE  RxOK(P, Cut(R, n), Succ(P, n))
<1> PICK s : s = Succ(P, n)
  OBVIOUS
<1> PICK C : C = Cut(R, n)
  OBVIOUS
<1>1. R \in RxRec /\ n \in Frame /\ SlotsOK(P, R, n) /\ ActOK(R, n)
  BY DEF RxOK
<1>2. /\ s \in Frame /\ s.m >= n.m /\ n.m \in Nat /\ n.i \in Nat /\ s.m \in Nat
      /\ (s.i > 1 => s.m = n.m)
  <2>1. s.m \in Nat
    BY <1>1, SuccFacts DEF Frame
  <2> QED
    BY <1>1, <2>1, SuccFacts
<1>3. /\ C \in RxRec /\ C.got = R.got /\ C.ready = R.ready /\ C.act = R.act /\ C.discard = R.discard
      /\ C.cut = R.cut \cup {n.m}
  BY <1>1, <1>2 DEF Cut, RxRec
<1>4. Cnt(C) = Cnt(R) /\ \A k : Fr(C, k) = Fr(R, k) /\ Good(C, k) = Good(R, k)
  BY <1>3 DEF Cnt, Fr, Good
<1>5. SlotsOK(P, C, s)
  <2>1. \A k \in 1..Cnt(C) : Good(C, k) /\ Ms(Fr(C, k)) \cap C.cut = {} => Whole(P, Fr(C, k))
    BY <1>1, <1>3, <1>4 DEF SlotsOK
  <2>2. \A j, k \in 1..Cnt(C) : j < k => \A x \in Ms(Fr(C, j)), y \in Ms(Fr(C, k)) : x < y
    BY <1>1, <1>4 DEF SlotsOK
  <2>3. \A k \in 1..Cnt(C) : \A x \in Ms(Fr(C, k)) : x \in Nat /\ x < n.m
    BY <1>1, <1>4, MsFacts DEF SlotsOK
  <2>4. \A k \in 1..Cnt(C) : \A x \in Ms(Fr(C, k)) : x < s.m
    BY <1>2, <2>3
  <2> QED
    BY <2>1, <2>2, <2>4 DEF SlotsOK
<1>6. ActOK(C, s)
  <2>1. \A y \in Ms(C.act.frames) : y \in Nat /\ y <= n.m
    BY <1>1, <1>3, MsFacts DEF ActOK
  <2>2. \A y \in Ms(C.act.frames) : y <= s.m
    BY <1>2, <2>1
  <2>3. ASSUME R.act.live, ~R.act.err, Ms(R.act.frames) \cap C.cut = {} PROVE FALSE
    <3>1. n.i > 1 /\ R.act.frames = Upto(n.m, n.i - 1)
      BY <1>1, <1>3, <2>3 DEF ActOK
    <3>2. 1 \in 1..(n.i - 1)
      BY <1>2, <3>1
    <3>3. n.m \in Ms(R.act.frames)
      BY <3>1, <3>2 DEF Ms, Upto
    <3> QED
      BY <1>3, <2>3, <3>3
  <2> QED
    BY <1>1, <1>3, <1>4, <2>2, <2>3 DEF ActOK
<1>7. MidOK(C, s)
  BY <1>2, <1>3 DEF MidOK
<1> QED
  BY <1>2, <1>3, <1>5, <1>6, <1>7 DEF RxOK

\* A flush drops the slots that are not receives and cuts the message it is in.
LEMMA FlushOK ==
  ASSUME NEW P, NEW R, NEW n, RxOK(P, R, n), NEW X \in SUBSET Nat, n.i > 1 => n.m \in X,
         NEW F, F = [R EXCEPT !.ready = <<>>, !.act = NoSlot, !.discard = FALSE, !.rq = 0,
                              !.cut = @ \cup X]
  PROVE  RxOK(P, F, n)
<1>1. R \in RxRec /\ n \in Frame /\ SlotsOK(P, R, n) /\ ActOK(R, n)
  BY DEF RxOK
<1>2. /\ F.got = R.got /\ F.ready = <<>> /\ F.act = NoSlot /\ F.discard = FALSE
      /\ F.cut = R.cut \cup X
  BY <1>1 DEF RxRec
<1>3. F \in RxRec
  <2>1. NoSlot \in SlotRec
    BY DEF NoSlot, SlotRec
  <2>2. <<>> \in Seq(SlotRec) /\ R.cut \cup X \in SUBSET Nat
    BY <1>1 DEF RxRec
  <2> PICK c \in SUBSET Nat : c = R.cut \cup X
    BY <2>2
  <2>3. F = [R EXCEPT !.ready = <<>>, !.act = NoSlot, !.discard = FALSE, !.rq = 0, !.cut = c]
    BY DEF RxRec
  <2> QED
    BY ONLY <1>1, <2>1, <2>2, <2>3, c \in SUBSET Nat DEF RxRec
<1>4. Cnt(F) = Len(R.got) /\ Len(R.got) \in Nat /\ Len(R.ready) \in Nat
  <2>1. Len(R.got) \in Nat /\ Len(R.ready) \in Nat
    BY <1>1 DEF RxRec
  <2>2. Cnt(F) = Len(R.got) + 0
    BY <1>2 DEF Cnt
  <2> QED
    BY ONLY <2>1, <2>2
<1>5. \A k \in 1..Cnt(F) : k \in 1..Cnt(R) /\ Fr(F, k) = Fr(R, k) /\ Good(F, k) = Good(R, k)
  <2> TAKE k \in 1..Cnt(F)
  <2> PICK a \in Nat, b \in Nat : a = Len(R.got) /\ b = Len(R.ready)
    BY <1>4
  <2>1. k \in 1..a
    BY <1>4
  <2>2. k <= a /\ k \in 1..(a + b)
    BY ONLY <2>1, a \in Nat, b \in Nat
  <2>3. Cnt(R) = a + b
    BY DEF Cnt
  <2>4. Fr(F, k) = Fr(R, k) /\ Good(F, k) = Good(R, k)
    BY <1>2, <2>2 DEF Fr, Good
  <2> QED
    BY ONLY <2>2, <2>3, <2>4
<1>6. SlotsOK(P, F, n)
  BY <1>1, <1>2, <1>5 DEF SlotsOK
<1>7. ActOK(F, n)
  <2>1. Ms(F.act.frames) = {} /\ F.act.live = FALSE
    BY <1>2 DEF Ms, NoSlot
  <2> QED
    BY <1>2, <2>1 DEF ActOK
<1>8. MidOK(F, n)
  BY <1>2 DEF MidOK
<1> QED
  BY <1>1, <1>3, <1>6, <1>7, <1>8 DEF RxOK

-----------------------------------------------------------------------------
(* A frame that is delivered.                                              *)

\* The messages of no frames, and of one frame more.
LEMMA MsAppend ==
  ASSUME NEW fs \in Seq(Frame), NEW f \in Frame
  PROVE  Ms(<<>>) = {} /\ Ms(Append(fs, f)) = Ms(fs) \cup {f.m}
<1> PICK a \in Nat : a = Len(fs)
  OBVIOUS
<1> PICK g : g = Append(fs, f)
  OBVIOUS
<1>1. /\ DOMAIN fs = 1..a /\ g \in Seq(Frame) /\ DOMAIN g = 1..(a + 1)
      /\ \A k \in 1..a : g[k] = fs[k]
      /\ g[a + 1] = f
  BY AppendFacts
<1>2. 1..(a + 1) = (1..a) \cup {a + 1}
  OBVIOUS
<1>3. Ms(<<>>) = {}
  BY DEF Ms
<1>4. Ms(g) = Ms(fs) \cup {f.m}
  BY ONLY <1>1, <1>2 DEF Ms
<1> QED
  BY <1>3, <1>4

\* A message up to its frame k, and the frame after it.
LEMMA UptoAppend ==
  ASSUME NEW n \in Frame, n.i >= 1
  PROVE  /\ Append(Upto(n.m, n.i - 1), n) = Upto(n.m, n.i)
         /\ Append(<<>>, n) = Append(Upto(n.m, 0), n)
         /\ Upto(n.m, n.i) \in Seq(Frame)
<1> PICK a \in Nat, k \in Nat : a = n.m /\ k = n.i - 1
  BY DEF Frame
<1>1. n.i = k + 1 /\ n = [m |-> a, i |-> k + 1]
  BY DEF Frame
<1>2. ASSUME NEW l \in Nat
      PROVE  Upto(a, l) \in Seq(Frame) /\ Len(Upto(a, l)) = l /\ \A j \in 1..l : Upto(a, l)[j] = [m |-> a, i |-> j]
  <2>1. Upto(a, l) \in [1..l -> Frame]
    BY DEF Upto, Frame
  <2>2. Upto(a, l) \in Seq(Frame) /\ Len(Upto(a, l)) = l
    BY ONLY <2>1, l \in Nat, FunIsSeq
  <2>3. \A j \in 1..l : Upto(a, l)[j] = [m |-> a, i |-> j]
    BY DEF Upto
  <2> QED
    BY <2>2, <2>3
<1>3. Append(Upto(a, k), n) = Upto(a, k + 1)
  <2> PICK u, v : u = Upto(a, k) /\ v = Upto(a, k + 1)
    OBVIOUS
  <2>1. /\ u \in Seq(Frame) /\ Len(u) = k /\ v \in Seq(Frame) /\ Len(v) = k + 1
        /\ \A j \in 1..k : u[j] = [m |-> a, i |-> j]
        /\ \A j \in 1..(k + 1) : v[j] = [m |-> a, i |-> j]
    <3>1. k \in Nat /\ k + 1 \in Nat
      OBVIOUS
    <3> QED
      BY ONLY <1>2, <3>1, u = Upto(a, k), v = Upto(a, k + 1)
  <2>2. /\ Append(u, n) \in Seq(Frame) /\ Len(Append(u, n)) = k + 1
        /\ \A j \in 1..k : Append(u, n)[j] = u[j]
        /\ Append(u, n)[k + 1] = n
    BY ONLY <2>1, n \in Frame, AppendFacts
  <2>3. \A j \in 1..(k + 1) : Append(u, n)[j] = v[j]
    <3> TAKE j \in 1..(k + 1)
    <3>1. j \in 1..k \/ j = k + 1
      BY ONLY k \in Nat, j \in 1..(k + 1)
    <3>2. CASE j \in 1..k
      BY ONLY <2>1, <2>2, <3>2, j \in 1..(k + 1)
    <3>3. CASE j = k + 1
      BY ONLY <1>1, <2>1, <2>2, <3>3, j \in 1..(k + 1)
    <3> QED
      BY ONLY <3>1, <3>2, <3>3
  <2>4. Append(u, n) = v
    BY ONLY <2>1, <2>2, <2>3, SeqEqual
  <2> QED
    BY ONLY <2>4, u = Upto(a, k) /\ v = Upto(a, k + 1)
<1>4. Upto(n.m, 0) = <<>>
  BY DEF Upto
<1>5. Upto(a, k + 1) \in Seq(Frame)
  <2>1. k + 1 \in Nat
    OBVIOUS
  <2> QED
    BY ONLY <1>2, <2>1
<1> QED
  BY ONLY <1>1, <1>3, <1>4, <1>5, a = n.m /\ k = n.i - 1

\* A frame that is discarded on purpose.
LEMMA SkipOK ==
  ASSUME NEW P \in Seq(Nat \ {0}), NEW R, NEW n, RxOK(P, R, n), On(P, n), ~R.act.live,
         NEW b \in BOOLEAN, n.i # P[n.m] => b \/ n.m \in R.cut,
         NEW D, D = [R EXCEPT !.discard = b]
  PROVE  RxOK(P, D, Succ(P, n))
<1> PICK s : s = Succ(P, n)
  OBVIOUS
<1>1. R \in RxRec /\ n \in Frame /\ SlotsOK(P, R, n) /\ ActOK(R, n)
  BY DEF RxOK
<1>2. s \in Frame /\ s.m >= n.m /\ n.m \in Nat /\ s.m \in Nat /\ (s.i > 1 => s.m = n.m /\ n.i # P[n.m])
  <2>1. s.m \in Nat
    BY <1>1, SuccFacts DEF Frame
  <2> QED
    BY <1>1, <2>1, SuccFacts
<1>3. /\ D \in RxRec /\ D.got = R.got /\ D.ready = R.ready /\ D.act = R.act /\ D.discard = b
      /\ D.cut = R.cut
  BY <1>1 DEF RxRec
<1>4. Cnt(D) = Cnt(R) /\ \A k : Fr(D, k) = Fr(R, k) /\ Good(D, k) = Good(R, k)
  BY <1>3 DEF Cnt, Fr, Good
<1>5. SlotsOK(P, D, s)
  <2>1. \A k \in 1..Cnt(D) : Good(D, k) /\ Ms(Fr(D, k)) \cap D.cut = {} => Whole(P, Fr(D, k))
    BY <1>1, <1>3, <1>4 DEF SlotsOK
  <2>2. \A j, k \in 1..Cnt(D) : j < k => \A x \in Ms(Fr(D, j)), y \in Ms(Fr(D, k)) : x < y
    BY <1>1, <1>4 DEF SlotsOK
  <2>3. \A k \in 1..Cnt(D) : \A x \in Ms(Fr(D, k)) : x \in Nat /\ x < n.m
    BY <1>1, <1>4, MsFacts DEF SlotsOK
  <2>4. \A k \in 1..Cnt(D) : \A x \in Ms(Fr(D, k)) : x < s.m
    BY <1>2, <2>3
  <2> QED
    BY <2>1, <2>2, <2>4 DEF SlotsOK
<1>6. ActOK(D, s)
  <2>1. D.act = NoSlot /\ D.act.live = FALSE /\ Ms(D.act.frames) = {}
    BY <1>1, <1>3 DEF ActOK, NoSlot, Ms
  <2> QED
    BY <2>1 DEF ActOK
<1>7. MidOK(D, s)
  BY <1>2, <1>3 DEF MidOK
<1> QED
  BY <1>2, <1>3, <1>5, <1>6, <1>7 DEF RxOK

\* The active slot after the frame n: its message up to n, n included.
Taken(P, R, S, n) ==
  /\ S \in RxRec /\ S.got = R.got /\ S.ready = R.ready /\ S.discard = FALSE /\ S.cut = R.cut
  /\ S.act.live = TRUE
  /\ \A k \in 1..Cnt(R) : \A x \in Ms(Fr(R, k)), y \in Ms(S.act.frames) : x < y
  /\ \A y \in Ms(S.act.frames) : y <= n.m
  /\ ~S.act.err /\ Ms(S.act.frames) \cap S.cut = {} =>
       n.m \in Ms(S.act.frames) /\ S.act.frames = Upto(n.m, n.i)

\* The frame goes into the active slot, or marks it broken.
LEMMA TakeOK ==
  ASSUME NEW P \in Seq(Nat \ {0}), NEW R, NEW n, RxOK(P, R, n), On(P, n), R.discard = FALSE,
         NEW fits \in BOOLEAN, NEW S,
         S = [R EXCEPT !.act = [live |-> TRUE, err |-> R.act.err \/ ~fits,
                     frames |-> IF fits THEN Append(R.act.frames, n) ELSE R.act.frames]]
  PROVE  Taken(P, R, S, n)
<1> PICK fs : fs = R.act.frames
  OBVIOUS
<1> PICK gs : gs = IF fits THEN Append(fs, n) ELSE fs
  OBVIOUS
<1> PICK e : e = (R.act.err \/ ~fits)
  OBVIOUS
<1>1. R \in RxRec /\ n \in Frame /\ SlotsOK(P, R, n) /\ ActOK(R, n) /\ MidOK(R, n)
  BY DEF RxOK
<1>2. n.m \in Nat /\ n.i \in Nat /\ n.i >= 1
  BY <1>1, SuccFacts
<1>3. fs \in Seq(Frame) /\ R.act \in SlotRec /\ gs \in Seq(Frame) /\ e \in BOOLEAN
  <2>1. R.act \in SlotRec /\ fs \in Seq(Frame)
    BY <1>1 DEF RxRec, SlotRec
  <2>2. Append(fs, n) \in Seq(Frame)
    BY ONLY <1>1, <2>1, AppendFacts
  <2> QED
    BY <2>1, <2>2
<1> PICK A : A = [live |-> TRUE, err |-> e, frames |-> gs]
  OBVIOUS
<1>4. A \in SlotRec /\ A.live = TRUE /\ A.err = e /\ A.frames = gs
  BY ONLY <1>3, A = [live |-> TRUE, err |-> e, frames |-> gs] DEF SlotRec
<1>5. S = [R EXCEPT !.act = A]
  OBVIOUS
<1>6. S \in RxRec /\ S.got = R.got /\ S.ready = R.ready /\ S.discard = FALSE /\ S.cut = R.cut /\ S.act = A
  BY ONLY <1>1, <1>4, <1>5, R.discard = FALSE DEF RxRec
<1>7. Ms(gs) = (IF fits THEN Ms(fs) \cup {n.m} ELSE Ms(fs))
  BY ONLY <1>1, <1>3, gs = (IF fits THEN Append(fs, n) ELSE fs), MsAppend
<1>8. \A k \in 1..Cnt(R) : \A x \in Ms(Fr(R, k)), y \in Ms(gs) : x < y
  BY <1>1, <1>7 DEF ActOK, SlotsOK
<1>9. \A y \in Ms(gs) : y <= n.m
  BY <1>1, <1>2, <1>7 DEF ActOK
<1>10. ASSUME ~e, Ms(gs) \cap R.cut = {} PROVE n.m \in Ms(gs) /\ gs = Upto(n.m, n.i)
  <2>1. fits = TRUE /\ ~R.act.err
    BY <1>10
  <2>2. Ms(gs) = Ms(fs) \cup {n.m} /\ gs = Append(fs, n) /\ n.m \notin R.cut /\ Ms(fs) \cap R.cut = {}
    BY <1>7, <1>10, <2>1
  <2>3. CASE R.act.live
    <3>1. fs = Upto(n.m, n.i - 1)
      BY <1>1, <2>1, <2>2, <2>3 DEF ActOK
    <3>2. gs = Upto(n.m, n.i)
      BY ONLY <1>1, <1>2, <2>2, <3>1, UptoAppend
    <3> QED
      BY ONLY <2>2, <3>2
  <2>4. CASE ~R.act.live
    <3>1. fs = <<>>
      BY <1>1, <2>4 DEF ActOK, NoSlot
    <3>2. ~(n.i > 1)
      BY <1>1, <2>2, <2>4 DEF MidOK
    <3>3. n.i = 1 /\ n.i - 1 = 0
      BY ONLY <1>2, <3>2
    <3>4. gs = Upto(n.m, n.i)
      BY ONLY <1>1, <1>2, <2>2, <3>1, <3>3, UptoAppend
    <3> QED
      BY ONLY <2>2, <3>4
  <2> QED
    BY <2>3, <2>4
<1> QED
  BY ONLY <1>4, <1>6, <1>8, <1>9, <1>10 DEF Taken

\* The frame does not end the message: the slot stays active.
LEMMA KeepOK ==
  ASSUME NEW P \in Seq(Nat \ {0}), NEW R, NEW S, NEW n, RxOK(P, R, n), On(P, n), n.i # P[n.m],
         Taken(P, R, S, n)
  PROVE  RxOK(P, S, Succ(P, n))
<1> PICK s : s = Succ(P, n)
  OBVIOUS
<1>1. R \in RxRec /\ n \in Frame /\ SlotsOK(P, R, n)
  BY DEF RxOK
<1>2. s \in Frame /\ s.m = n.m /\ s.i = n.i + 1 /\ n.i \in Nat /\ n.i >= 1
  BY <1>1, SuccFacts
<1>3. s.i - 1 = n.i /\ s.i > 1
  BY ONLY <1>2
<1>4. Cnt(S) = Cnt(R) /\ \A k : Fr(S, k) = Fr(R, k) /\ Good(S, k) = Good(R, k)
  BY DEF Taken, Cnt, Fr, Good
<1>5. SlotsOK(P, S, s)
  BY ONLY <1>1, <1>2, <1>4, Taken(P, R, S, n) DEF SlotsOK, Taken
<1>6. ActOK(S, s)
  BY ONLY <1>2, <1>3, <1>4, Taken(P, R, S, n) DEF ActOK, Taken
<1>7. MidOK(S, s) /\ S \in RxRec
  BY DEF MidOK, Taken
<1> QED
  BY <1>2, <1>5, <1>6, <1>7 DEF RxOK

\* The frame ends the message: the slot is ready.
LEMMA CloseOK ==
  ASSUME NEW P \in Seq(Nat \ {0}), NEW R, NEW S, NEW n, RxOK(P, R, n), On(P, n), n.i = P[n.m],
         Taken(P, R, S, n),
         NEW T, T = [S EXCEPT !.ready = Append(@, S.act), !.act = NoSlot]
  PROVE  RxOK(P, T, Succ(P, n))
<1> PICK s : s = Succ(P, n)
  OBVIOUS
<1> PICK A : A = S.act
  OBVIOUS
<1>1. R \in RxRec /\ n \in Frame /\ SlotsOK(P, R, n) /\ S \in RxRec
  BY DEF RxOK, Taken
<1>2. s \in Frame /\ s.m = n.m + 1 /\ s.i = 1 /\ n.m \in Nat
  BY <1>1, SuccFacts
<1>3. A \in SlotRec /\ R.ready \in Seq(SlotRec) /\ R.got \in Seq(WcRec) /\ NoSlot \in SlotRec
  BY <1>1 DEF RxRec, NoSlot, SlotRec
<1> PICK a \in Nat, b \in Nat : a = Len(R.got) /\ b = Len(R.ready)
  <2>1. Len(R.got) \in Nat /\ Len(R.ready) \in Nat
    BY ONLY <1>3, AppendFacts
  <2> QED
    BY ONLY <2>1
<1> PICK r : r = Append(R.ready, A)
  OBVIOUS
<1>4. r \in Seq(SlotRec) /\ Len(r) = b + 1 /\ r[b + 1] = A /\ \A k \in 1..b : r[k] = R.ready[k]
  BY ONLY <1>3, r = Append(R.ready, A), b = Len(R.ready), AppendFacts
<1>5. T = [S EXCEPT !.ready = r, !.act = NoSlot]
  <2>1. S.ready = R.ready
    BY DEF Taken
  <2> QED
    BY <2>1
<1>6. /\ T \in RxRec /\ T.ready = r /\ T.act = NoSlot /\ T.got = R.got /\ T.discard = FALSE /\ T.cut = R.cut
  <2>1. S.got = R.got /\ S.discard = FALSE /\ S.cut = R.cut
    BY DEF Taken
  <2> QED
    BY ONLY <1>1, <1>3, <1>4, <1>5, <2>1 DEF RxRec
<1>7. Cnt(R) = a + b /\ Cnt(T) = a + b + 1
  <2>1. Cnt(R) = a + b
    BY DEF Cnt
  <2>2. Cnt(T) = a + (b + 1)
    BY <1>4, <1>6 DEF Cnt
  <2> QED
    BY ONLY <2>1, <2>2, a \in Nat, b \in Nat
<1>8. Fr(T, a + b + 1) = A.frames /\ (Good(T, a + b + 1) <=> ~A.err)
  <2>1. ~(a + b + 1 <= a) /\ (a + b + 1) - a = b + 1
    BY ONLY a \in Nat, b \in Nat
  <2> QED
    BY <1>4, <1>6, <2>1 DEF Fr, Good
<1>9. ASSUME NEW k \in 1..(a + b) PROVE Fr(T, k) = Fr(R, k) /\ (Good(T, k) <=> Good(R, k))
  <2>1. CASE k <= a
    BY <1>6, <2>1 DEF Fr, Good
  <2>2. CASE ~(k <= a)
    <3> PICK j \in 1..b : j = k - a
      BY ONLY <2>2, a \in Nat, b \in Nat, k \in 1..(a + b)
    <3>1. T.ready[j] = R.ready[j] /\ Len(T.got) = a
      BY <1>4, <1>6
    <3>2. Fr(T, k) = T.ready[j].frames /\ Fr(R, k) = R.ready[j].frames
      BY <2>2, <3>1 DEF Fr
    <3>3. Good(T, k) = (~T.ready[j].err) /\ Good(R, k) = (~R.ready[j].err)
      BY <2>2, <3>1 DEF Good
    <3> QED
      BY ONLY <3>1, <3>2, <3>3
  <2> QED
    BY <2>1, <2>2
<1> PICK c \in Nat : c = a + b
  <2>1. a + b \in Nat
    BY ONLY a \in Nat, b \in Nat
  <2> QED
    BY ONLY <2>1
<1>10. /\ Cnt(R) = c /\ Cnt(T) = c + 1 /\ Fr(T, c + 1) = A.frames /\ (Good(T, c + 1) <=> ~A.err)
       /\ \A k \in 1..c : Fr(T, k) = Fr(R, k) /\ (Good(T, k) <=> Good(R, k))
       /\ \A k \in 1..(c + 1) : k \in 1..c \/ k = c + 1
  <2>1. \A k \in 1..(c + 1) : k \in 1..c \/ k = c + 1
    BY ONLY c \in Nat
  <2> QED
    BY <1>7, <1>8, <1>9, <2>1
<1>11. /\ \A k \in 1..c : \A x \in Ms(Fr(R, k)), y \in Ms(A.frames) : x < y
       /\ \A y \in Ms(A.frames) : y \in Nat /\ y <= n.m
       /\ ~A.err /\ Ms(A.frames) \cap R.cut = {} => Whole(P, A.frames)
  <2>1. \A y \in Ms(A.frames) : y \in Nat
    BY <1>1, MsFacts
  <2>2. S.cut = R.cut
    BY DEF Taken
  <2> QED
    BY <1>10, <2>1, <2>2 DEF Taken, Whole
<1>12. SlotsOK(P, T, s)
  <2>1. ASSUME NEW k \in 1..(c + 1), Good(T, k), Ms(Fr(T, k)) \cap R.cut = {}
        PROVE  Whole(P, Fr(T, k))
    BY ONLY <1>1, <1>10, <1>11, <2>1 DEF SlotsOK
  <2>2. ASSUME NEW j \in 1..(c + 1), NEW k \in 1..(c + 1), j < k,
               NEW x \in Ms(Fr(T, j)), NEW y \in Ms(Fr(T, k))
        PROVE  x < y
    <3>1. j \in 1..c
      BY ONLY <2>2, c \in Nat
    <3>2. CASE k \in 1..c
      BY ONLY <1>1, <1>10, <2>2, <3>1, <3>2 DEF SlotsOK
    <3>3. CASE k = c + 1
      BY ONLY <1>10, <1>11, <2>2, <3>1, <3>3
    <3> QED
      BY ONLY <1>10, <3>2, <3>3
  <2>3. ASSUME NEW k \in 1..(c + 1), NEW x \in Ms(Fr(T, k)) PROVE x < s.m
    <3>1. CASE k \in 1..c
      <4>1. x \in Ms(Fr(R, k)) /\ k \in 1..Cnt(R)
        BY ONLY <1>10, <2>3, <3>1
      <4>2. x \in Nat /\ x < n.m
        BY ONLY <1>1, <4>1, MsFacts DEF SlotsOK
      <4> QED
        BY ONLY <1>2, <4>2
    <3>2. CASE k = c + 1
      <4>1. x \in Nat /\ x <= n.m
        BY ONLY <1>10, <1>11, <2>3, <3>2
      <4> QED
        BY ONLY <1>2, <4>1
    <3> QED
      BY ONLY <1>10, <3>1, <3>2
  <2> QED
    BY ONLY <1>6, <1>10, <2>1, <2>2, <2>3 DEF SlotsOK
<1>13. ActOK(T, s)
  <2>1. T.act.live = FALSE /\ Ms(T.act.frames) = {}
    BY <1>6 DEF NoSlot, Ms
  <2> QED
    BY ONLY <1>6, <2>1 DEF ActOK
<1>14. MidOK(T, s)
  BY <1>2 DEF MidOK
<1> QED
  BY <1>2, <1>6, <1>12, <1>13, <1>14 DEF RxOK

\* Every outcome of the handler keeps the slots good for the next frame.
LEMMA DeliverOK ==
  ASSUME conf.peer \in Seq(Nat \ {0}), NEW Q, NEW f, RxOK(conf.peer, Q, f), On(conf.peer, f)
  PROVE  RxOK(conf.peer, Deliver(Q, f), Succ(conf.peer, f))
<1> PICK P \in Seq(Nat \ {0}) : P = conf.peer
  OBVIOUS
<1> PICK R : R = Drain(Q)
  OBVIOUS
<1>1. RxOK(P, R, f) /\ On(P, f)
  <2>1. Q \in RxRec
    BY DEF RxOK
  <2>2. Same(Q, R)
    BY <2>1, DrainSame
  <2> QED
    BY <2>2, SameOK
<1>2. R \in RxRec /\ f \in Frame /\ ActOK(R, f) /\ MidOK(R, f) /\ R.discard \in BOOLEAN /\ R.act.live \in BOOLEAN
  BY <1>1 DEF RxOK, RxRec, SlotRec
<1> DEFINE full == Len(R.ready) >= conf.rslots
           fits == Len(R.act.frames) < conf.rbytes /\ Held(R) < conf.rtotal
           eof == Eof3(f)
           S == [R EXCEPT !.act = [live |-> TRUE, err |-> @.err \/ ~fits,
                                   frames |-> IF fits THEN Append(@.frames, f) ELSE @.frames]]
           T == [S EXCEPT !.ready = Append(@, S.act), !.act = NoSlot]
<1>3. (eof <=> f.i = P[f.m]) /\ eof \in BOOLEAN /\ fits \in BOOLEAN
  BY DEF Eof3
<1> PICK D : D = Deliver(Q, f)
  OBVIOUS
<1>4. D = IF R.discard THEN [R EXCEPT !.discard = ~eof]
          ELSE IF ~R.act.live /\ ~(Sof(f) \/ eof) THEN R
          ELSE IF ~R.act.live /\ full THEN [R EXCEPT !.discard = ~eof]
          ELSE IF ~eof THEN S
          ELSE Drain(T)
  BY DEF Deliver
<1> HIDE DEF full, eof, S, T
<1>5. CASE ~R.act.live /\ (R.discard \/ full) /\ D = [R EXCEPT !.discard = ~eof]
  <2>1. (~eof) \in BOOLEAN /\ (f.i # P[f.m] => ~eof)
    BY <1>3
  <2>2. RxOK(P, D, Succ(P, f))
    BY ONLY <1>1, <1>5, <2>1, P \in Seq(Nat \ {0}), SkipOK
  <2> QED
    BY <2>2
<1>6. CASE ~R.discard /\ ~R.act.live /\ ~(Sof(f) \/ eof) /\ D = R
  <2>1. f.m \in R.cut
    <3>1. f.i # P[f.m] /\ f.i \in Nat /\ f.i >= 1 /\ f.i <= P[f.m] /\ P[f.m] \in Nat
      BY <1>1, <1>2, <1>3, <1>6 DEF On, Frame
    <3>2. ~(f.i = 1 /\ P[f.m] > 1)
      BY <1>6 DEF Sof
    <3>3. f.i > 1
      BY ONLY <3>1, <3>2
    <3> QED
      BY <1>2, <1>6, <3>3 DEF MidOK
  <2>2. D = [R EXCEPT !.discard = FALSE]
    BY <1>2, <1>6 DEF RxRec
  <2>3. FALSE \in BOOLEAN /\ (f.i # P[f.m] => FALSE \/ f.m \in R.cut)
    BY <2>1
  <2>4. RxOK(P, D, Succ(P, f))
    BY ONLY <1>1, <1>6, <2>2, <2>3, P \in Seq(Nat \ {0}), SkipOK
  <2> QED
    BY <2>4
<1>7. CASE ~R.discard /\ D = IF ~eof THEN S ELSE Drain(T)
  <2>1. Taken(P, R, S, f)
    <3> HIDE DEF fits
    <3>1. S = [R EXCEPT !.act = [live |-> TRUE, err |-> R.act.err \/ ~fits,
                     frames |-> IF fits THEN Append(R.act.frames, f) ELSE R.act.frames]]
      BY <1>2 DEF RxRec, S
    <3>2. R.discard = FALSE
      BY <1>2, <1>7
    <3> QED
      BY ONLY <1>1, <1>3, <3>1, <3>2, P \in Seq(Nat \ {0}), TakeOK
  <2>2. CASE ~eof
    <3>1. f.i # P[f.m] /\ D = S
      BY <1>3, <1>7, <2>2
    <3>2. RxOK(P, D, Succ(P, f))
      BY ONLY <1>1, <2>1, <3>1, P \in Seq(Nat \ {0}), KeepOK
    <3> QED
      BY <3>2
  <2>3. CASE eof
    <3>1. f.i = P[f.m] /\ D = Drain(T)
      BY <1>3, <1>7, <2>3
    <3>2. T = [S EXCEPT !.ready = Append(@, S.act), !.act = NoSlot]
      BY DEF T
    <3>3. RxOK(P, T, Succ(P, f))
      BY ONLY <1>1, <2>1, <3>1, <3>2, P \in Seq(Nat \ {0}), CloseOK
    <3>4. T \in RxRec
      BY <3>3 DEF RxOK
    <3>5. Same(T, Drain(T))
      BY ONLY <3>4, DrainSame
    <3>6. RxOK(P, D, Succ(P, f))
      BY ONLY <3>1, <3>3, <3>5, SameOK
    <3> QED
      BY <3>6
  <2> QED
    BY <2>2, <2>3
<1>8. R.discard => ~R.act.live
  BY <1>2 DEF ActOK
<1> QED
  BY <1>4, <1>5, <1>6, <1>7, <1>8

-----------------------------------------------------------------------------
(* The steps.                                                              *)

\* The stream and what was received of it.
RxSide == <<conf, rx, rxh, peer>>

\* A step that touches nothing of the receive side.
LEMMA RxKept ==
  ASSUME RxInv, UNCHANGED RxSide
  PROVE  RxInv'
<1>1. conf' = conf /\ rx' = rx /\ rxh' = rxh /\ peer' = peer
  BY DEF RxSide
<1>2. Nxt' = Nxt
  BY <1>1 DEF Nxt
<1> QED
  BY <1>1, <1>2 DEF RxInv

\* Posting, transmitting, completing and timing out leave the receive side alone.
LEMMA SendSteps ==
  ASSUME Post \/ PostStep \/ Worker \/ Path \/ Nhi \/ Late \/ Expire \/ TimerStep
  PROVE  UNCHANGED RxSide
<1> USE DEF RxSide, rxVars
<1>1. Post => UNCHANGED RxSide
  BY DEF Post, PostGetLive
<1>2. PostStep => UNCHANGED RxSide
  BY DEF PostStep, PostSlot, PostQueueSend, PostQueueEntry
<1>3. Worker => UNCHANGED RxSide
  BY DEF Worker, WorkerPop, WorkerGet, WorkerPath, WorkerWindow, WorkerReserve, WorkerSet, WorkerCheck,
         WorkerPost, WorkerGroup, WorkerEnd
<1>4. Path \/ Nhi \/ Late => UNCHANGED RxSide
  BY DEF Path, PathSchedule, Nhi, NhiSend, Late, SendCompleteWork
<1>5. Expire \/ TimerStep => UNCHANGED RxSide
  BY DEF Expire, TimerExpire, TimerStep, TimerError, TimerComplete
<1> QED
  BY <1>1, <1>2, <1>3, <1>4, <1>5

\* So do create, modify, destroy, the watchdog, removal and the quiesce.
LEMMA RailSteps ==
  ASSUME Create \/ Modify \/ ModifyStep \/ Destroy \/ Watchdog \/ RemoveRail \/ Quiesce \/ Barrier
  PROVE  UNCHANGED RxSide
<1> USE DEF RxSide, rxVars, txVars
<1>1. Create \/ Destroy \/ Watchdog \/ RemoveRail => UNCHANGED RxSide
  BY DEF Create, CreateQp, Destroy, DestroyQp, Watchdog, WatchdogFail, RemoveRail, RemoveStart
<1>2. Modify => UNCHANGED RxSide
  BY DEF Modify, ModifyUp, ModifyDown
<1>3. ModifyStep => UNCHANGED RxSide
  BY DEF ModifyStep, Bind, Commit, ModifyJoin, ModifyEnd
<1>4. Quiesce => UNCHANGED RxSide
  BY DEF Quiesce, QClose, QMark, QCancelWorker, QStop, QCancel, QDrained, QRefs, QEnd
<1>5. Barrier => UNCHANGED RxSide
  BY DEF Barrier, QBarrier
<1> QED
  BY <1>1, <1>2, <1>3, <1>4, <1>5

\* Every flush, whoever asks for it.
LEMMA FlushStep ==
  ASSUME RxInv, TimerFlush \/ QFlush \/ ModifyFlush \/ Destroyed
  PROVE  RxInv'
<1>1. rx' = RxFlush(rx) /\ conf' = conf /\ rxh' = rxh /\ peer' = peer
  <2>1. (TimerFlush \/ QFlush \/ ModifyFlush) => rx' = RxFlush(rx) /\ conf' = conf /\ rxh' = rxh /\ peer' = peer
    BY DEF TimerFlush, QFlush, ModifyFlush, FlushError, flushOthers
  <2>2. Destroyed => rx' = RxFlush(rx) /\ conf' = conf /\ rxh' = rxh /\ peer' = peer
    BY DEF Destroyed, DestroyFree, txVars
  <2> QED
    BY <2>1, <2>2
<1>2. Nxt' = Nxt
  BY <1>1 DEF Nxt
<1>3. Midway \in SUBSET Nat /\ (Nxt.i > 1 => Nxt.m \in Midway)
  <2>1. peer.m \in Nat /\ rxh.m \in Nat
    BY DEF RxInv, Frame
  <2> QED
    BY <2>1 DEF Midway, Nxt
<1>4. RxOK(conf.peer, rx, Nxt)
  BY DEF RxInv
<1>5. rx' = [rx EXCEPT !.ready = <<>>, !.act = NoSlot, !.discard = FALSE, !.rq = 0,
                       !.cut = @ \cup Midway]
  BY <1>1 DEF RxFlush
<1>6. RxOK(conf.peer, rx', Nxt)
  BY ONLY <1>3, <1>4, <1>5, FlushOK
<1> QED
  BY <1>1, <1>2, <1>6 DEF RxInv

\* A frame arrives: it is handled, or it is dropped and cuts its message.
LEMMA CheckStep ==
  ASSUME RxInv, RxCheck
  PROVE  RxInv'
<1> PICK P \in Seq(Nat \ {0}) : P = conf.peer
  BY DEF RxInv
<1>1. rxh.pc = "idle" /\ peer.m <= Len(P) /\ conf' = conf
  BY DEF RxCheck, rxOthers
<1> PICK n : n = [m |-> peer.m, i |-> peer.i]
  OBVIOUS
<1>2. n = peer /\ n \in Frame /\ n.m = peer.m /\ n.i = peer.i
  BY DEF RxInv, Frame
<1>3. RxOK(P, rx, n) /\ Nxt = n
  BY <1>1, <1>2 DEF RxInv, Nxt
<1>4. On(P, n)
  <2>1. peer.m > 0 /\ peer.m \in Nat /\ Len(P) \in Nat
    BY DEF RxInv, Frame
  <2>2. peer.m \in 1..Len(P)
    BY ONLY <1>1, <2>1
  <2> QED
    BY <1>2, <2>2 DEF RxInv
<1>5. peer' = Succ(P, n)
  BY <1>2 DEF RxCheck, Succ, Eof3, Frame
<1> PICK s : s = Succ(P, n)
  OBVIOUS
<1>6. s \in Frame /\ s.m > 0 /\ s.i > 0 /\ (s.m \in 1..Len(P) => On(P, s))
  BY <1>2, <1>4, SuccFacts
<1>7. CASE rx' = Cut(rx, n) /\ rxh' = rxh
  <2>1. RxOK(P, rx', s)
    BY ONLY <1>3, <1>4, <1>7, P \in Seq(Nat \ {0}), s = Succ(P, n), CutOK
  <2>2. Nxt' = s
    BY <1>1, <1>5, <1>7 DEF Nxt
  <2> QED
    BY <1>1, <1>5, <1>6, <1>7, <2>1, <2>2 DEF RxInv
<1>8. CASE rx' = rx /\ rxh' = [pc |-> "lookup", m |-> n.m, i |-> n.i]
  <2>1. /\ rxh' \in [pc : {"idle", "lookup", "deliver"}, m : Nat, i : Nat]
        /\ rxh'.pc # "idle" /\ [m |-> rxh'.m, i |-> rxh'.i] = n
    BY <1>2, <1>8 DEF Frame
  <2>2. Nxt' = n
    BY <2>1 DEF Nxt
  <2> QED
    BY <1>1, <1>3, <1>4, <1>5, <1>6, <1>8, <2>1, <2>2 DEF RxInv
<1>9. \/ rx' = Cut(rx, n) /\ rxh' = rxh
      \/ rx' = rx /\ rxh' = [pc |-> "lookup", m |-> n.m, i |-> n.i]
  BY DEF RxCheck
<1> QED
  BY <1>7, <1>8, <1>9

\* The handler ends, with the frame dropped or delivered.
LEMMA EndStep ==
  ASSUME RxInv, rxh.pc # "idle", rxh' = IdleRx, conf' = conf, peer' = peer,
         RxOK(conf.peer, rx', Succ(conf.peer, [m |-> rxh.m, i |-> rxh.i]))
  PROVE  RxInv'
<1>1. rxh' \in [pc : {"idle", "lookup", "deliver"}, m : Nat, i : Nat] /\ rxh'.pc = "idle"
  BY DEF IdleRx
<1>2. Nxt' = peer /\ peer = Succ(conf.peer, [m |-> rxh.m, i |-> rxh.i])
  BY <1>1 DEF Nxt, RxInv
<1> QED
  BY <1>1, <1>2 DEF RxInv

\* The handler's lookup.
LEMMA LookupStep ==
  ASSUME RxInv, RxLookup
  PROVE  RxInv'
<1>1. rxh.pc = "lookup" /\ conf' = conf /\ peer' = peer
  BY DEF RxLookup, rxOthers
<1> PICK n : n = [m |-> rxh.m, i |-> rxh.i]
  OBVIOUS
<1> PICK P \in Seq(Nat \ {0}) : P = conf.peer
  BY DEF RxInv
<1>2. RxOK(P, rx, n) /\ On(P, n) /\ Nxt = n
  BY <1>1 DEF RxInv, Nxt
<1>3. CASE Live
  <2>1. rxh' = [rxh EXCEPT !.pc = "deliver"] /\ rx' = rx
    BY <1>3 DEF RxLookup
  <2>2. /\ rxh' \in [pc : {"idle", "lookup", "deliver"}, m : Nat, i : Nat]
        /\ rxh'.pc = "deliver" /\ rxh'.m = rxh.m /\ rxh'.i = rxh.i
    BY <2>1 DEF RxInv
  <2>3. Nxt' = Nxt
    BY <1>1, <2>2 DEF Nxt
  <2> QED
    BY <1>1, <2>1, <2>2, <2>3 DEF RxInv
<1>4. CASE ~Live
  <2>1. rxh' = IdleRx /\ rx' = Cut(rx, n)
    <3>1. rxh' = IdleRx /\ rx' = Cut(rx, rxh)
      BY <1>4 DEF RxLookup
    <3> QED
      BY <3>1 DEF Cut
  <2>2. RxOK(P, rx', Succ(P, n))
    BY ONLY <1>2, <2>1, P \in Seq(Nat \ {0}), CutOK
  <2> QED
    BY <1>1, <2>1, <2>2, EndStep
<1> QED
  BY <1>3, <1>4

\* The locked part of the handler.
LEMMA DeliverStep ==
  ASSUME RxInv, RxDeliver
  PROVE  RxInv'
<1>1. rxh.pc = "deliver" /\ conf' = conf /\ peer' = peer /\ rxh' = IdleRx
  BY DEF RxDeliver, rxOthers
<1> PICK n : n = [m |-> rxh.m, i |-> rxh.i]
  OBVIOUS
<1>2. conf.peer \in Seq(Nat \ {0}) /\ RxOK(conf.peer, rx, n) /\ On(conf.peer, n) /\ rx' = Deliver(rx, n)
  BY <1>1 DEF RxInv, Nxt, RxDeliver
<1>3. RxOK(conf.peer, rx', Succ(conf.peer, n))
  BY ONLY <1>2, DeliverOK
<1> QED
  BY <1>1, <1>3, EndStep

\* A receive is posted.
LEMMA PostRecvStep ==
  ASSUME RxInv, PostRecv
  PROVE  RxInv'
<1> PICK R : R = [rx EXCEPT !.rq = @ + 1, !.posted = @ + 1]
  OBVIOUS
<1>1. rx' = Drain(R) /\ conf' = conf /\ rxh' = rxh /\ peer' = peer
  BY DEF PostRecv, rxOthers
<1>2. rx \in RxRec /\ RxOK(conf.peer, rx, Nxt)
  BY DEF RxInv, RxOK
<1>3. Same(rx, R)
  <2>1. /\ R \in RxRec /\ R.got = rx.got /\ R.ready = rx.ready /\ R.act = rx.act
        /\ R.discard = rx.discard /\ R.cut = rx.cut
    <3> PICK q \in Nat, p \in Nat : q = rx.rq + 1 /\ p = rx.posted + 1
      BY <1>2 DEF RxRec
    <3>1. R = [rx EXCEPT !.rq = q, !.posted = p]
      OBVIOUS
    <3> QED
      BY ONLY <1>2, <3>1, q \in Nat, p \in Nat DEF RxRec
  <2>2. Cnt(R) = Cnt(rx) /\ \A k : Fr(R, k) = Fr(rx, k) /\ Good(R, k) = Good(rx, k)
    BY <2>1 DEF Cnt, Fr, Good
  <2> QED
    BY ONLY <2>1, <2>2 DEF Same
<1>4. R \in RxRec
  BY <1>3 DEF Same
<1>5. RxOK(conf.peer, rx', Nxt)
  <2>1. Same(R, rx')
    BY <1>1, <1>4, DrainSame
  <2>2. RxOK(conf.peer, R, Nxt)
    BY ONLY <1>2, <1>3, SameOK
  <2> QED
    BY ONLY <2>1, <2>2, SameOK
<1>6. Nxt' = Nxt
  BY <1>1 DEF Nxt
<1> QED
  BY <1>1, <1>5, <1>6 DEF RxInv

-----------------------------------------------------------------------------
(* The theorems.                                                           *)

\* Nothing is received yet, and the first frame is the stream's first.
LEMMA RxInitially ==
  ASSUME Init
  PROVE  RxInv
<1>1. conf.peer \in Seq(Nat \ {0})
  BY PeerAssumption DEF Init
<1>2. rx = RxInit /\ rxh = IdleRx /\ peer = PeerInit
  BY DEF Init
<1>3. Nxt = peer /\ peer.m = 1 /\ peer.i = 1 /\ peer \in Frame
  BY <1>2 DEF Nxt, IdleRx, PeerInit, Frame
<1>4. NoSlot \in SlotRec /\ NoSlot.live = FALSE /\ Ms(NoSlot.frames) = {}
  BY DEF NoSlot, SlotRec, Ms
<1>5. rx \in RxRec /\ Cnt(rx) = 0 /\ rx.act = NoSlot /\ rx.discard = FALSE
  <2>1. rx \in RxRec
    BY <1>2, <1>4 DEF RxInit, RxRec
  <2> QED
    BY <1>2, <2>1 DEF RxInit, Cnt
<1>6. RxOK(conf.peer, rx, Nxt)
  BY <1>3, <1>4, <1>5 DEF RxOK, SlotsOK, ActOK, MidOK
<1>7. On(conf.peer, peer) \/ ~(peer.m \in 1..Len(conf.peer))
  BY <1>1, <1>3 DEF On
<1> QED
  BY <1>1, <1>2, <1>3, <1>6, <1>7 DEF RxInv, IdleRx

\* The inductive step.
LEMMA RxStep ==
  ASSUME RxInv, [Next]_vars
  PROVE  RxInv'
<1>1. CASE UNCHANGED vars
  <2>1. UNCHANGED RxSide
    BY <1>1 DEF vars, rxVars, RxSide
  <2> QED
    BY <2>1, RxKept
<1>2. CASE Post \/ PostStep \/ Worker \/ Path \/ Nhi \/ Late \/ Expire \/ TimerStep
  BY <1>2, SendSteps, RxKept
<1>3. CASE Create \/ Modify \/ ModifyStep \/ Destroy \/ Watchdog \/ RemoveRail \/ Quiesce \/ Barrier
  BY <1>3, RailSteps, RxKept
<1>4. CASE TimerFlush \/ QFlush \/ ModifyFlush \/ Destroyed
  BY <1>4, FlushStep
<1>5. CASE RxCheck
  BY <1>5, CheckStep
<1>6. CASE RxLookup
  BY <1>6, LookupStep
<1>7. CASE RxDeliver
  BY <1>7, DeliverStep
<1>8. CASE PostRecv
  BY <1>8, PostRecvStep
<1> QED
  BY <1>1, <1>2, <1>3, <1>4, <1>5, <1>6, <1>7, <1>8 DEF Next

\* What the invariant says of the receives that were completed.
LEMMA RxInvExact ==
  ASSUME RxInv
  PROVE  RxExact
<1>1. rx \in RxRec /\ SlotsOK(conf.peer, rx, Nxt)
  BY DEF RxInv, RxOK
<1> PICK a \in Nat, b \in Nat : a = Len(rx.got) /\ b = Len(rx.ready)
  <2>1. rx.got \in Seq(WcRec) /\ rx.ready \in Seq(SlotRec)
    BY <1>1 DEF RxRec
  <2> QED
    BY <2>1
<1>2. DOMAIN rx.got = 1..a /\ Cnt(rx) = a + b
  <2>1. rx.got \in Seq(WcRec)
    BY <1>1 DEF RxRec
  <2> QED
    BY <2>1 DEF Cnt
<1>3. ASSUME NEW k \in 1..a
      PROVE  k \in 1..Cnt(rx) /\ Fr(rx, k) = rx.got[k].frames /\ Good(rx, k) = rx.got[k].ok
  <2>1. k <= a /\ k \in 1..(a + b)
    BY ONLY a \in Nat, b \in Nat, k \in 1..a
  <2> QED
    BY <1>2, <2>1 DEF Fr, Good
<1>4. RxWhole
  <2> SUFFICES ASSUME NEW k \in 1..a, rx.got[k].ok, Ms(rx.got[k].frames) \cap rx.cut = {}
               PROVE  \E m \in Ms(rx.got[k].frames) :
                        rx.got[k].frames = [j \in 1..conf.peer[m] |-> [m |-> m, i |-> j]]
    BY <1>2 DEF RxWhole, Ms
  <2>1. Whole(conf.peer, rx.got[k].frames)
    BY <1>1, <1>3 DEF SlotsOK
  <2> QED
    BY <2>1 DEF Whole, Upto
<1>5. RxOrder
  <2> SUFFICES ASSUME NEW j \in 1..a, NEW k \in 1..a, j < k,
                      NEW x \in DOMAIN rx.got[j].frames, NEW y \in DOMAIN rx.got[k].frames
               PROVE  rx.got[j].frames[x].m < rx.got[k].frames[y].m
    BY <1>2 DEF RxOrder
  <2>1. rx.got[j].frames[x].m \in Ms(Fr(rx, j)) /\ rx.got[k].frames[y].m \in Ms(Fr(rx, k))
    BY <1>3 DEF Ms
  <2> QED
    BY <1>1, <1>3, <2>1 DEF SlotsOK
<1> QED
  BY <1>4, <1>5 DEF RxExact

\* A receive completed without error holds one whole message of the peer unless
\* the message was cut where the rail had no bound queue pair, was retiring or
\* was flushed, and receives are completed in the order of the peer's messages:
\* for every stream of the peer, every number and size of slots and receives,
\* and every interleaving of tbv_ibdev_rx_apple_frame() with modify, destroy,
\* the timeout work, the watchdog and the quiesce of the rail.
THEOREM RxExactThm == Spec => []RxExact
<1>1. Init => RxInv
  BY RxInitially
<1>2. RxInv /\ [Next]_vars => RxInv'
  BY RxStep
<1>3. RxInv => RxExact
  BY RxInvExact
<1> QED
  BY <1>1, <1>2, <1>3, PTL DEF Spec

-----------------------------------------------------------------------------
(* Loops over a sequence.                                                  *)

\* A set of naturals that is not empty has a least member.
LEMMA Least == \A S \in SUBSET Nat : S # {} => \E x \in S : \A y \in S : x <= y
<1> SUFFICES ASSUME NEW S \in SUBSET Nat, S # {} PROVE \E x \in S : \A y \in S : x <= y
  OBVIOUS
<1>1. \E x \in S : \A y \in S : ~(<<y, x>> \in OpToRel(<, Nat))
  BY NatLessThanWellFounded, WFMin
<1> PICK x \in S : \A y \in S : ~(<<y, x>> \in OpToRel(<, Nat))
  BY <1>1
<1>2. ASSUME NEW y \in S PROVE x <= y
  <2>1. ~(y < x)
    BY DEF OpToRel
  <2>2. x \in Nat /\ y \in Nat
    OBVIOUS
  <2> QED
    BY ONLY <2>1, <2>2
<1> QED
  BY <1>2

\* A set that holds 0 and, below n, the successor of each of its members holds
\* everything up to n.
LEMMA Reach ==
  ASSUME NEW n \in Nat, NEW S, 0 \in S, \A k \in 0..(n - 1) : k \in S => k + 1 \in S
  PROVE  \A k \in 0..n : k \in S
<1> SUFFICES ASSUME NEW j \in 0..n, j \notin S PROVE FALSE
  OBVIOUS
<1> PICK B : B = {k \in 0..n : k \notin S}
  OBVIOUS
<1>1. PICK x \in B : \A y \in B : x <= y
  <2>1. B \in SUBSET Nat /\ B # {}
    OBVIOUS
  <2> QED
    BY <2>1, Least
<1>2. x # 0 /\ x - 1 \in 0..(n - 1) /\ (x - 1) + 1 = x
  OBVIOUS
<1>3. x - 1 \in B
  BY <1>2
<1> QED
  BY <1>1, <1>3

\* g holds the states of a loop of n iterations: B[k][T] is what its k-th iteration
\* makes of the state T, and J[k] holds what it may make of it.
IsLoop(g, n, b, B, J) == /\ g = [k \in 0..n |-> IF k = 0 THEN b ELSE B[k][g[k - 1]]]
                         /\ \A k \in 0..n : g[k] \in J[k]

\* A loop whose iterations stay in J has states.
LEMMA LoopExists ==
  ASSUME NEW n \in Nat, NEW J, NEW B, NEW b, b \in J[0],
         \A k \in 1..n : \A T \in J[k - 1] : B[k][T] \in J[k]
  PROVE  \E g : IsLoop(g, n, b, B, J)
<1> DEFINE Is(g, m) == IsLoop(g, m, b, B, J)
           S == {m \in 0..n : \E g : Is(g, m)}
<1>1. 0 \in S
  <2>1. Is([k \in 0..0 |-> b], 0)
    BY DEF IsLoop
  <2>2. \E g : Is(g, 0)
    BY <2>1
  <2> HIDE DEF Is
  <2> QED
    BY <2>2
<1>2. ASSUME NEW m \in 0..(n - 1), m \in S PROVE m + 1 \in S
  <2>1. PICK g : Is(g, m)
    BY <1>2
  <2> DEFINE h == [k \in 0..(m + 1) |-> IF k <= m THEN g[k] ELSE B[m + 1][g[m]]]
  <2>2. ASSUME NEW k \in 0..(m + 1)
        PROVE  h[k] = (IF k = 0 THEN b ELSE B[k][h[k - 1]]) /\ h[k] \in J[k]
    <3>1. CASE k = 0
      BY <2>1, <3>1 DEF IsLoop
    <3>2. CASE k \in 1..m
      <4>1. h[k] = g[k] /\ h[k - 1] = g[k - 1]
        BY <3>2
      <4>2. g[k] = B[k][g[k - 1]] /\ g[k] \in J[k]
        BY <2>1, <3>2 DEF IsLoop
      <4> QED
        BY ONLY <3>2, <4>1, <4>2
    <3>3. CASE k = m + 1
      <4>1. h[k] = B[k][g[m]] /\ h[k - 1] = g[m] /\ k # 0 /\ k \in 1..n /\ k - 1 = m
        BY <3>3
      <4>2. g[m] \in J[m]
        BY <2>1 DEF IsLoop
      <4> QED
        BY <4>1, <4>2
    <3> QED
      BY <3>1, <3>2, <3>3
  <2>3. Is(h, m + 1)
    BY <2>2 DEF IsLoop
  <2>4. \E f : Is(f, m + 1)
    BY <2>3
  <2> HIDE DEF Is
  <2> QED
    BY <2>4
<1>3. n \in S
  <2> HIDE DEF S
  <2>1. \A m \in 0..(n - 1) : m \in S => m + 1 \in S
    BY <1>2
  <2>2. \A m \in 0..n : m \in S
    BY <1>1, <2>1, Reach
  <2> QED
    BY <2>2
<1> QED
  BY <1>3

\* What the iterations lead to.
LEMMA LoopLeads ==
  ASSUME NEW n \in Nat, NEW J, NEW st, st[0] \in J[0],
         \A k \in 1..n : st[k - 1] \in J[k - 1] => st[k] \in J[k]
  PROVE  st[n] \in J[n]
<1> PICK S : S = {k \in 0..n : st[k] \in J[k]}
  OBVIOUS
<1>1. 0 \in S
  OBVIOUS
<1>2. ASSUME NEW k \in 0..(n - 1), k \in S PROVE k + 1 \in S
  <2>1. k + 1 \in 1..n /\ (k + 1) - 1 = k
    OBVIOUS
  <2> QED
    BY <1>2, <2>1
<1>3. \A k \in 0..n : k \in S
  <2>1. \A k \in 0..(n - 1) : k \in S => k + 1 \in S
    BY <1>2
  <2> QED
    BY ONLY <1>1, <2>1, Reach, n \in Nat
<1> QED
  BY <1>3

\* Induction over the loop Without(): every
\* iteration leads from a state in J[k - 1] to one in J[k].
LEMMA KeepingRun ==
  ASSUME NEW p, NEW b, NEW s, NEW n \in Nat, Len(s) = n, NEW J, b \in J[0],
         \A k \in 1..n : \A T \in J[k - 1] : KeepOther(p, T, s[k]) \in J[k]
  PROVE  Keeping!Run(p, b, s) \in J[n]
<1> PICK B : B = [k \in 1..n |-> [T \in J[k - 1] |-> KeepOther(p, T, s[k])]]
  OBVIOUS
<1>1. \A k \in 1..n : \A T \in J[k - 1] : B[k][T] = KeepOther(p, T, s[k]) /\ B[k][T] \in J[k]
  OBVIOUS
<1>2. PICK g : IsLoop(g, n, b, B, J)
  <2>1. \A k \in 1..n : \A T \in J[k - 1] : B[k][T] \in J[k]
    BY ONLY <1>1
  <2> QED
    BY ONLY <2>1, LoopExists, n \in Nat, b \in J[0]
<1>3. g = [k \in 0..n |-> IF k = 0 THEN b ELSE KeepOther(p, g[k - 1], s[k])]
  <2>1. ASSUME NEW k \in 1..n PROVE B[k][g[k - 1]] = KeepOther(p, g[k - 1], s[k])
    <3>1. k - 1 \in 0..n
      OBVIOUS
    <3> QED
      BY <1>1, <1>2, <3>1 DEF IsLoop
  <2>2. \A k \in 0..n : k # 0 => k \in 1..n
    OBVIOUS
  <2> QED
    BY ONLY <1>2, <2>1, <2>2, Zenon DEF IsLoop
<1>a. PICK st : st = Keeping!States(p, b, s)
  OBVIOUS
<1>4. st = [k \in 0..n |-> IF k = 0 THEN b ELSE KeepOther(p, st[k - 1], s[k])]
  BY <1>3, <1>a DEF Keeping!States
<1>5. st[0] = b /\ \A k \in 1..n : st[k] = KeepOther(p, st[k - 1], s[k])
  <2>1. 0 \in 0..n /\ \A k \in 1..n : k \in 0..n /\ k # 0
    OBVIOUS
  <2>2. \A k \in 0..n : st[k] = IF k = 0 THEN b ELSE KeepOther(p, st[k - 1], s[k])
    BY ONLY <1>4
  <2> QED
    BY ONLY <2>1, <2>2
<1>6. \A k \in 1..n : st[k - 1] \in J[k - 1] => st[k] \in J[k]
  BY <1>5
<1>7. st[n] \in J[n]
  BY <1>5, <1>6, LoopLeads
<1>8. Keeping!Run(p, b, s) = Keeping!States(p, b, s)[Len(s)]
  BY DEF Keeping!Run
<1> QED
  BY ONLY <1>a, <1>7, <1>8, Len(s) = n

\* Induction over the loop of tbv_apple_complete_ordered_sends(): every
\* iteration leads from a state in J[k - 1] to one in J[k].
LEMMA OrderedRun ==
  ASSUME NEW p, NEW b, NEW s, NEW n \in Nat, Len(s) = n, NEW J, b \in J[0],
         \A k \in 1..n : \A T \in J[k - 1] : CompleteOrdered(p, T, s[k]) \in J[k]
  PROVE  Ordered!Run(p, b, s) \in J[n]
<1> PICK B : B = [k \in 1..n |-> [T \in J[k - 1] |-> CompleteOrdered(p, T, s[k])]]
  OBVIOUS
<1>1. \A k \in 1..n : \A T \in J[k - 1] : B[k][T] = CompleteOrdered(p, T, s[k]) /\ B[k][T] \in J[k]
  OBVIOUS
<1>2. PICK g : IsLoop(g, n, b, B, J)
  <2>1. \A k \in 1..n : \A T \in J[k - 1] : B[k][T] \in J[k]
    BY ONLY <1>1
  <2> QED
    BY ONLY <2>1, LoopExists, n \in Nat, b \in J[0]
<1>3. g = [k \in 0..n |-> IF k = 0 THEN b ELSE CompleteOrdered(p, g[k - 1], s[k])]
  <2>1. ASSUME NEW k \in 1..n PROVE B[k][g[k - 1]] = CompleteOrdered(p, g[k - 1], s[k])
    <3>1. k - 1 \in 0..n
      OBVIOUS
    <3> QED
      BY <1>1, <1>2, <3>1 DEF IsLoop
  <2>2. \A k \in 0..n : k # 0 => k \in 1..n
    OBVIOUS
  <2> QED
    BY ONLY <1>2, <2>1, <2>2, Zenon DEF IsLoop
<1>a. PICK st : st = Ordered!States(p, b, s)
  OBVIOUS
<1>4. st = [k \in 0..n |-> IF k = 0 THEN b ELSE CompleteOrdered(p, st[k - 1], s[k])]
  BY <1>3, <1>a DEF Ordered!States
<1>5. st[0] = b /\ \A k \in 1..n : st[k] = CompleteOrdered(p, st[k - 1], s[k])
  <2>1. 0 \in 0..n /\ \A k \in 1..n : k \in 0..n /\ k # 0
    OBVIOUS
  <2>2. \A k \in 0..n : st[k] = IF k = 0 THEN b ELSE CompleteOrdered(p, st[k - 1], s[k])
    BY ONLY <1>4
  <2> QED
    BY ONLY <2>1, <2>2
<1>6. \A k \in 1..n : st[k - 1] \in J[k - 1] => st[k] \in J[k]
  BY <1>5
<1>7. st[n] \in J[n]
  BY <1>5, <1>6, LoopLeads
<1>8. Ordered!Run(p, b, s) = Ordered!States(p, b, s)[Len(s)]
  BY DEF Ordered!Run
<1> QED
  BY ONLY <1>a, <1>7, <1>8, Len(s) = n

\* The same with one set of states that no iteration leaves.
LEMMA OrderedStays ==
  ASSUME NEW p, NEW b, NEW s, NEW n \in Nat, Len(s) = n, NEW I, b \in I,
         \A k \in 1..n : \A T \in I : CompleteOrdered(p, T, s[k]) \in I
  PROVE  Ordered!Run(p, b, s) \in I
<1> PICK J : J = [k \in 0..n |-> I]
  OBVIOUS
<1>1. b \in J[0] /\ J[n] = I
  OBVIOUS
<1>2. \A k \in 1..n : \A T \in J[k - 1] : CompleteOrdered(p, T, s[k]) \in J[k]
  OBVIOUS
<1> QED
  BY <1>1, <1>2, OrderedRun

\* Induction over the loop over frames: every
\* iteration leads from a state in J[k - 1] to one in J[k].
LEMMA FramesRun ==
  ASSUME NEW p, NEW b, NEW s, NEW n \in Nat, Len(s) = n, NEW J, b \in J[0],
         \A k \in 1..n : \A T \in J[k - 1] : FrameDone(p, T, s[k]) \in J[k]
  PROVE  Frames!Run(p, b, s) \in J[n]
<1> PICK B : B = [k \in 1..n |-> [T \in J[k - 1] |-> FrameDone(p, T, s[k])]]
  OBVIOUS
<1>1. \A k \in 1..n : \A T \in J[k - 1] : B[k][T] = FrameDone(p, T, s[k]) /\ B[k][T] \in J[k]
  OBVIOUS
<1>2. PICK g : IsLoop(g, n, b, B, J)
  <2>1. \A k \in 1..n : \A T \in J[k - 1] : B[k][T] \in J[k]
    BY ONLY <1>1
  <2> QED
    BY ONLY <2>1, LoopExists, n \in Nat, b \in J[0]
<1>3. g = [k \in 0..n |-> IF k = 0 THEN b ELSE FrameDone(p, g[k - 1], s[k])]
  <2>1. ASSUME NEW k \in 1..n PROVE B[k][g[k - 1]] = FrameDone(p, g[k - 1], s[k])
    <3>1. k - 1 \in 0..n
      OBVIOUS
    <3> QED
      BY <1>1, <1>2, <3>1 DEF IsLoop
  <2>2. \A k \in 0..n : k # 0 => k \in 1..n
    OBVIOUS
  <2> QED
    BY ONLY <1>2, <2>1, <2>2, Zenon DEF IsLoop
<1>a. PICK st : st = Frames!States(p, b, s)
  OBVIOUS
<1>4. st = [k \in 0..n |-> IF k = 0 THEN b ELSE FrameDone(p, st[k - 1], s[k])]
  BY <1>3, <1>a DEF Frames!States
<1>5. st[0] = b /\ \A k \in 1..n : st[k] = FrameDone(p, st[k - 1], s[k])
  <2>1. 0 \in 0..n /\ \A k \in 1..n : k \in 0..n /\ k # 0
    OBVIOUS
  <2>2. \A k \in 0..n : st[k] = IF k = 0 THEN b ELSE FrameDone(p, st[k - 1], s[k])
    BY ONLY <1>4
  <2> QED
    BY ONLY <2>1, <2>2
<1>6. \A k \in 1..n : st[k - 1] \in J[k - 1] => st[k] \in J[k]
  BY <1>5
<1>7. st[n] \in J[n]
  BY <1>5, <1>6, LoopLeads
<1>8. Frames!Run(p, b, s) = Frames!States(p, b, s)[Len(s)]
  BY DEF Frames!Run
<1> QED
  BY ONLY <1>a, <1>7, <1>8, Len(s) = n

\* The same with one set of states that no iteration leaves.
LEMMA FramesStays ==
  ASSUME NEW p, NEW b, NEW s, NEW n \in Nat, Len(s) = n, NEW I, b \in I,
         \A k \in 1..n : \A T \in I : FrameDone(p, T, s[k]) \in I
  PROVE  Frames!Run(p, b, s) \in I
<1> PICK J : J = [k \in 0..n |-> I]
  OBVIOUS
<1>1. b \in J[0] /\ J[n] = I
  OBVIOUS
<1>2. \A k \in 1..n : \A T \in J[k - 1] : FrameDone(p, T, s[k]) \in J[k]
  OBVIOUS
<1> QED
  BY <1>1, <1>2, FramesRun

\* Induction over the loop of FlushAppleSq(): every
\* iteration leads from a state in J[k - 1] to one in J[k].
LEMMA EntriesRun ==
  ASSUME NEW p, NEW b, NEW s, NEW n \in Nat, Len(s) = n, NEW J, b \in J[0],
         \A k \in 1..n : \A T \in J[k - 1] : Unqueue(p, T, s[k]) \in J[k]
  PROVE  Entries!Run(p, b, s) \in J[n]
<1> PICK B : B = [k \in 1..n |-> [T \in J[k - 1] |-> Unqueue(p, T, s[k])]]
  OBVIOUS
<1>1. \A k \in 1..n : \A T \in J[k - 1] : B[k][T] = Unqueue(p, T, s[k]) /\ B[k][T] \in J[k]
  OBVIOUS
<1>2. PICK g : IsLoop(g, n, b, B, J)
  <2>1. \A k \in 1..n : \A T \in J[k - 1] : B[k][T] \in J[k]
    BY ONLY <1>1
  <2> QED
    BY ONLY <2>1, LoopExists, n \in Nat, b \in J[0]
<1>3. g = [k \in 0..n |-> IF k = 0 THEN b ELSE Unqueue(p, g[k - 1], s[k])]
  <2>1. ASSUME NEW k \in 1..n PROVE B[k][g[k - 1]] = Unqueue(p, g[k - 1], s[k])
    <3>1. k - 1 \in 0..n
      OBVIOUS
    <3> QED
      BY <1>1, <1>2, <3>1 DEF IsLoop
  <2>2. \A k \in 0..n : k # 0 => k \in 1..n
    OBVIOUS
  <2> QED
    BY ONLY <1>2, <2>1, <2>2, Zenon DEF IsLoop
<1>a. PICK st : st = Entries!States(p, b, s)
  OBVIOUS
<1>4. st = [k \in 0..n |-> IF k = 0 THEN b ELSE Unqueue(p, st[k - 1], s[k])]
  BY <1>3, <1>a DEF Entries!States
<1>5. st[0] = b /\ \A k \in 1..n : st[k] = Unqueue(p, st[k - 1], s[k])
  <2>1. 0 \in 0..n /\ \A k \in 1..n : k \in 0..n /\ k # 0
    OBVIOUS
  <2>2. \A k \in 0..n : st[k] = IF k = 0 THEN b ELSE Unqueue(p, st[k - 1], s[k])
    BY ONLY <1>4
  <2> QED
    BY ONLY <2>1, <2>2
<1>6. \A k \in 1..n : st[k - 1] \in J[k - 1] => st[k] \in J[k]
  BY <1>5
<1>7. st[n] \in J[n]
  BY <1>5, <1>6, LoopLeads
<1>8. Entries!Run(p, b, s) = Entries!States(p, b, s)[Len(s)]
  BY DEF Entries!Run
<1> QED
  BY ONLY <1>a, <1>7, <1>8, Len(s) = n

\* The same with one set of states that no iteration leaves.
LEMMA EntriesStays ==
  ASSUME NEW p, NEW b, NEW s, NEW n \in Nat, Len(s) = n, NEW I, b \in I,
         \A k \in 1..n : \A T \in I : Unqueue(p, T, s[k]) \in I
  PROVE  Entries!Run(p, b, s) \in I
<1> PICK J : J = [k \in 0..n |-> I]
  OBVIOUS
<1>1. b \in J[0] /\ J[n] = I
  OBVIOUS
<1>2. \A k \in 1..n : \A T \in J[k - 1] : Unqueue(p, T, s[k]) \in J[k]
  OBVIOUS
<1> QED
  BY <1>1, <1>2, EntriesRun

\* Induction over the loop of FlushSends(): every
\* iteration leads from a state in J[k - 1] to one in J[k].
LEMMA SendsRun ==
  ASSUME NEW p, NEW b, NEW s, NEW n \in Nat, Len(s) = n, NEW J, b \in J[0],
         \A k \in 1..n : \A T \in J[k - 1] : Finish(p, T, s[k]) \in J[k]
  PROVE  Sends!Run(p, b, s) \in J[n]
<1> PICK B : B = [k \in 1..n |-> [T \in J[k - 1] |-> Finish(p, T, s[k])]]
  OBVIOUS
<1>1. \A k \in 1..n : \A T \in J[k - 1] : B[k][T] = Finish(p, T, s[k]) /\ B[k][T] \in J[k]
  OBVIOUS
<1>2. PICK g : IsLoop(g, n, b, B, J)
  <2>1. \A k \in 1..n : \A T \in J[k - 1] : B[k][T] \in J[k]
    BY ONLY <1>1
  <2> QED
    BY ONLY <2>1, LoopExists, n \in Nat, b \in J[0]
<1>3. g = [k \in 0..n |-> IF k = 0 THEN b ELSE Finish(p, g[k - 1], s[k])]
  <2>1. ASSUME NEW k \in 1..n PROVE B[k][g[k - 1]] = Finish(p, g[k - 1], s[k])
    <3>1. k - 1 \in 0..n
      OBVIOUS
    <3> QED
      BY <1>1, <1>2, <3>1 DEF IsLoop
  <2>2. \A k \in 0..n : k # 0 => k \in 1..n
    OBVIOUS
  <2> QED
    BY ONLY <1>2, <2>1, <2>2, Zenon DEF IsLoop
<1>a. PICK st : st = Sends!States(p, b, s)
  OBVIOUS
<1>4. st = [k \in 0..n |-> IF k = 0 THEN b ELSE Finish(p, st[k - 1], s[k])]
  BY <1>3, <1>a DEF Sends!States
<1>5. st[0] = b /\ \A k \in 1..n : st[k] = Finish(p, st[k - 1], s[k])
  <2>1. 0 \in 0..n /\ \A k \in 1..n : k \in 0..n /\ k # 0
    OBVIOUS
  <2>2. \A k \in 0..n : st[k] = IF k = 0 THEN b ELSE Finish(p, st[k - 1], s[k])
    BY ONLY <1>4
  <2> QED
    BY ONLY <2>1, <2>2
<1>6. \A k \in 1..n : st[k - 1] \in J[k - 1] => st[k] \in J[k]
  BY <1>5
<1>7. st[n] \in J[n]
  BY <1>5, <1>6, LoopLeads
<1>8. Sends!Run(p, b, s) = Sends!States(p, b, s)[Len(s)]
  BY DEF Sends!Run
<1> QED
  BY ONLY <1>a, <1>7, <1>8, Len(s) = n

\* The same with one set of states that no iteration leaves.
LEMMA SendsStays ==
  ASSUME NEW p, NEW b, NEW s, NEW n \in Nat, Len(s) = n, NEW I, b \in I,
         \A k \in 1..n : \A T \in I : Finish(p, T, s[k]) \in I
  PROVE  Sends!Run(p, b, s) \in I
<1> PICK J : J = [k \in 0..n |-> I]
  OBVIOUS
<1>1. b \in J[0] /\ J[n] = I
  OBVIOUS
<1>2. \A k \in 1..n : \A T \in J[k - 1] : Finish(p, T, s[k]) \in J[k]
  OBVIOUS
<1> QED
  BY <1>1, <1>2, SendsRun

-----------------------------------------------------------------------------
(* Frames in a queue.                                                      *)

SndRec == [qp : Nat, ep : Nat, ready : BOOLEAN, ok : BOOLEAN, done : BOOLEAN,
           counted : BOOLEAN, win : BOOLEAN, left : Int, armed : BOOLEAN, sent : Int,
           expired : BOOLEAN]
FrameRec == WR \X Nat
CqRec == [w : WR, ok : BOOLEAN]
TxRec == [snd : [WR -> SndRec], list : Seq(WR), sq : Seq(WR), pq : Seq(FrameRec),
          ring : Seq(FrameRec), wrs : Int, frm : Int, out : Int, late : SUBSET WR,
          cq : Seq(CqRec)]





\* The frames of v in a queue are finitely many.
LEMMA CountFacts ==
  ASSUME NEW s \in Seq(FrameRec), NEW v
  PROVE  /\ FramesOf(s, v) \in Nat /\ IsFiniteSet({k \in DOMAIN s : s[k][1] = v})
         /\ FramesOf(s, v) = 0 <=> \A k \in DOMAIN s : s[k][1] # v
<1> PICK S : S = {k \in DOMAIN s : s[k][1] = v}
  OBVIOUS
<1>1. S \in SUBSET (1..Len(s)) /\ Len(s) \in Nat
  OBVIOUS
<1>2. IsFiniteSet(1..Len(s))
  BY <1>1, FS_Interval
<1>3. IsFiniteSet(S) /\ Cardinality(S) \in Nat
  BY ONLY <1>1, <1>2, FS_Subset, FS_CardinalityType
<1>4. Cardinality(S) = 0 <=> S = {}
  BY ONLY <1>3, FS_EmptySet
<1> QED
  BY <1>3, <1>4 DEF FramesOf

\* One frame more.
LEMMA CountAppend ==
  ASSUME NEW s \in Seq(FrameRec), NEW f \in FrameRec, NEW v
  PROVE  FramesOf(Append(s, f), v) = FramesOf(s, v) + (IF f[1] = v THEN 1 ELSE 0)
<1> PICK S : S = {k \in DOMAIN s : s[k][1] = v}
  OBVIOUS
<1> PICK n \in Nat : n = Len(s)
  OBVIOUS
<1>1. IsFiniteSet(S) /\ Cardinality(S) \in Nat
  BY CountFacts, FS_CardinalityType
<1> PICK U : U = {k \in DOMAIN Append(s, f) : Append(s, f)[k][1] = v}
  OBVIOUS
<1>2. DOMAIN Append(s, f) = 1..(n + 1) /\ DOMAIN s = 1..n
  OBVIOUS
<1>3. Append(s, f)[n + 1] = f /\ \A k \in 1..n : Append(s, f)[k] = s[k]
  OBVIOUS
<1>4. n + 1 \notin S
  BY <1>2
<1>5. U = IF f[1] = v THEN S \cup {n + 1} ELSE S
  BY <1>2, <1>3
<1>6. Cardinality(S \cup {n + 1}) = Cardinality(S) + 1
  BY ONLY <1>1, <1>4, FS_AddElement
<1>7. FramesOf(s, v) = Cardinality(S) /\ FramesOf(Append(s, f), v) = Cardinality(U)
  BY DEF FramesOf
<1> QED
  BY ONLY <1>1, <1>5, <1>6, <1>7

\* One frame less.
LEMMA CountTail ==
  ASSUME NEW s \in Seq(FrameRec), s # <<>>, NEW v
  PROVE  /\ Tail(s) \in Seq(FrameRec) /\ Head(s) \in FrameRec
         /\ FramesOf(s, v) = FramesOf(Tail(s), v) + (IF Head(s)[1] = v THEN 1 ELSE 0)
<1> PICK n \in Nat : Len(s) = n + 1
  <2>1. Len(s) \in Nat /\ Len(s) # 0
    OBVIOUS
  <2>2. Len(s) - 1 \in Nat /\ Len(s) = (Len(s) - 1) + 1
    BY <2>1
  <2> QED
    BY <2>2
<1>0. Tail(s) \in Seq(FrameRec)
  OBVIOUS
<1> PICK t \in Seq(FrameRec) : t = Tail(s)
  BY <1>0
<1>1. DOMAIN s = 1..(n + 1) /\ DOMAIN t = 1..n /\ Head(s) = s[1] /\ Head(s) \in FrameRec
  OBVIOUS
<1>2. \A k \in 1..n : t[k] = s[k + 1]
  OBVIOUS
<1> PICK S : S = {k \in DOMAIN s : s[k][1] = v}
  OBVIOUS
<1> PICK A : A = {k \in DOMAIN t : t[k][1] = v}
  OBVIOUS
<1> PICK B : B = S \ {1}
  OBVIOUS
<1>3. IsFiniteSet(S) /\ IsFiniteSet(A) /\ Cardinality(S) \in Nat /\ Cardinality(A) \in Nat
  BY CountFacts, FS_CardinalityType
<1>4. Cardinality(B) = IF 1 \in S THEN Cardinality(S) - 1 ELSE Cardinality(S)
  BY ONLY <1>3, B = S \ {1}, FS_RemoveElement
<1>5. Cardinality(B) = Cardinality(A)
  <2> PICK g : g = [k \in A |-> k + 1]
    OBVIOUS
  <2>1. g \in [A -> B]
    BY <1>1, <1>2
  <2>2. \A x, y \in A : g[x] = g[y] => x = y
    BY <1>1
  <2>3. \A y \in B : \E x \in A : g[x] = y
    <3> TAKE y \in B
    <3>1. y \in 2..(n + 1) /\ s[y][1] = v
      BY <1>1
    <3>2. y - 1 \in 1..n /\ (y - 1) + 1 = y
      BY <3>1
    <3>3. y - 1 \in A
      BY <1>1, <1>2, <3>1, <3>2
    <3>4. g[y - 1] = y
      BY <3>2, <3>3
    <3> QED
      BY <3>3, <3>4
  <2>4. g \in Bijection(A, B)
    BY <2>1, <2>2, <2>3 DEF Bijection, Injection, Surjection, IsInjective
  <2>5. ExistsBijection(A, B)
    BY <2>4 DEF ExistsBijection
  <2> QED
    BY ONLY <1>3, <2>5, FS_Bijection
<1>6. 1 \in S <=> Head(s)[1] = v
  BY <1>1
<1>7. FramesOf(s, v) = Cardinality(S) /\ FramesOf(t, v) = Cardinality(A)
  BY DEF FramesOf
<1>8. FramesOf(s, v) = FramesOf(t, v) + (IF Head(s)[1] = v THEN 1 ELSE 0)
  BY ONLY <1>3, <1>4, <1>5, <1>6, <1>7
<1> QED
  BY <1>1, <1>8

-----------------------------------------------------------------------------
(* The rail, its quiesce and the user's thread.                            *)

QpRec == [inc : 0..MaxQp, st : {"NONE", "RESET", "RTR", "RTS", "ERR"}, closing : BOOLEAN,
          bound : BOOLEAN, ep : Nat, tun : BOOLEAN]
PosterRec == [pc : {"idle", "slot", "queue", "entry"}, w : 0..MaxWr]
RailRec == [st : {"UNBOUND", "BOUND", "QUIESCING", "QUARANTINED"}, qp : Nat, ep : Nat,
            remote : Nat, noisy : BOOLEAN, err : BOOLEAN, closed : BOOLEAN,
            stopped : BOOLEAN, removing : BOOLEAN, reg : BOOLEAN, tunqps : Int]
QzRec == [pc : {"idle", "mark", "flush", "worker", "timer", "cancel", "drain", "refs", "end"},
          by : {"none", "user", "wd", "rm"}, owner : Nat, ref : BOOLEAN, wasq : BOOLEAN,
          barrier : BOOLEAN, restart : BOOLEAN, err : BOOLEAN]
UserRec == [pc : {"idle", "bind", "commit", "flush", "join", "quiesce", "in", "end", "free"},
            next : {"NONE", "RESET", "RTR", "RTS", "ERR"}, remote : Nat, got : BOOLEAN]
ThreadRec == [pc : {"idle", "quiesce", "in"}, n : Nat]

RailTypes ==
  /\ conf \in Conf /\ qp \in QpRec /\ poster \in PosterRec /\ rail \in RailRec
  /\ qz \in QzRec /\ user \in UserRec /\ wd \in ThreadRec /\ rm \in ThreadRec

\* The quiesce under way was called for, or has taken over, a queue pair.
Owned == qz.pc # "idle" /\ qz.owner # 0

\* The binding names the queue pair that has it, in its epoch.
BindInv ==
  /\ rail.tunqps = (IF qp.tun THEN 1 ELSE 0)
  /\ user.pc \in {"bind", "commit"} => qp.tun
  /\ rail.qp \in {0, qp.inc} /\ (qp.bound <=> rail.qp # 0)
  /\ qp.bound => rail.ep = qp.ep
  /\ qp.ep <= rail.ep
  /\ rail.st = "BOUND" => qp.bound
  /\ Exists => qp.inc > 0
  /\ ~Exists => /\ qp.closing = FALSE /\ qp.bound = FALSE /\ qp.ep = 0 /\ qp.tun = FALSE
                /\ user.pc = "idle" /\ poster = IdlePoster

\* Who is in the quiesce, and what it has closed.
QuiesceInv ==
  /\ qz.pc = "idle" => qz = IdleQz
  /\ user.pc = "in" <=> qz.by = "user"
  /\ wd.pc = "in" <=> qz.by = "wd"
  /\ rm.pc = "in" <=> qz.by = "rm"
  /\ qz.pc # "idle" => qz.by # "none"
  /\ qz.pc \in {"mark", "flush"} => qz.by # "user"
  /\ qz.pc \in {"mark", "flush", "worker", "timer"} => qz.owner # 0
  /\ qz.by = "user" => qz.owner # 0
  /\ Owned => /\ qz.owner = qp.inc /\ Exists /\ rail.closed
              /\ rail.st \in {"QUIESCING", "QUARANTINED"}
              /\ user.pc \notin {"end", "free"}
              /\ qz.by # "user" => qp.bound
              /\ qz.pc # "mark" => ~UsesTransport(qp.st) \/ qp.closing
  /\ qz.pc # "idle" => rail.st # "UNBOUND"
  /\ rail.st = "QUIESCING" => qz.pc # "idle" /\ ~qz.wasq /\ rail.closed
  /\ qz.pc # "idle" /\ ~qz.wasq => rail.st = "QUIESCING"
  /\ rail.st = "QUARANTINED" => rail.closed \/ qp.bound
  /\ qz.pc # "end" => ~qz.err

\* Where the user's thread can be in which state of the queue pair.
UserInv ==
  /\ user.pc \in {"end", "free"} => ~qp.bound
  /\ user.pc = "free" => qp.closing
  /\ qp.closing => poster = IdlePoster /\ user.pc \in {"idle", "quiesce", "in", "free"}
  /\ user.pc \in {"quiesce", "in"} => ~UsesTransport(qp.st) \/ qp.closing
  /\ UsesTransport(qp.st) /\ ~qp.closing => qp.bound /\ (Owned => qz.pc = "mark")
  /\ user.pc = "commit" => qp.st = "ERR" \/ (qp.bound /\ (Owned => qz.pc = "mark"))
  /\ user.pc \in {"flush", "join", "end"} => ~UsesTransport(qp.st) /\ ~qp.closing
  /\ user.pc \in {"bind", "commit"} => qp.st \in {"RESET", "RTR", "ERR"} /\ ~qp.closing
  /\ IF poster.pc = "idle" THEN poster = IdlePoster ELSE poster.w \in WR

RailInv == RailTypes /\ BindInv /\ QuiesceInv /\ UserInv

railOnly == <<conf, qp, poster, rail, qz, user, wd, rm>>

\* The initial states have what is said of the rail.
LEMMA RailInit1 == Init => RailInv
<1> SUFFICES ASSUME Init PROVE RailInv
  OBVIOUS
<1> USE DEF Init, NoQp, RailInit, IdleQz, IdleUser, IdleThread, IdlePoster, Exists, Owned, UsesTransport
<1>1. RailTypes
  BY SizeAssumption DEF RailTypes, QpRec, PosterRec, RailRec, QzRec, UserRec, ThreadRec
<1>2. BindInv
  BY DEF BindInv
<1>3. QuiesceInv
  BY DEF QuiesceInv
<1>4. UserInv
  BY DEF UserInv
<1> QED
  BY <1>1, <1>2, <1>3, <1>4 DEF RailInv

\* Steps of the send side alone keep it.
LEMMA RailStutter == RailInv /\ UNCHANGED railOnly => RailInv'
  BY DEF RailInv, railOnly, RailTypes, BindInv, QuiesceInv, UserInv, Exists, Owned, UsesTransport

\* A step that changes the stage of the quiesce and its notes, nothing else.
LEMMA RailPost ==
  ASSUME RailInv, (\E w \in WR : PostGetLive(w)) \/ PostSlot \/ PostQueueSend \/ PostQueueEntry,
         UNCHANGED railVars
  PROVE  RailInv'
<1> USE DEF RailInv, railVars, Exists, Owned, UsesTransport, IdlePoster, WR
<1>0. UNCHANGED <<conf, qp, rail, qz, user, wd, rm>>
  BY DEF PostGetLive, PostSlot, PostQueueSend, PostQueueEntry
<1>1. /\ poster' \in PosterRec /\ (poster'.pc # "idle" => poster'.w \in WR)
      /\ poster'.pc # "idle" => Exists /\ ~qp.closing
      /\ poster'.pc = "idle" => poster' = IdlePoster
  <2> USE DEF RailTypes, PosterRec, UserInv, BindInv
  <2>0. 0 \in 0..MaxWr /\ WR \subseteq 0..MaxWr
    BY SizeAssumption
  <2>1. ASSUME NEW w \in WR, PostGetLive(w) PROVE <1>1!:
    <3>1. poster' = [pc |-> "slot", w |-> w] /\ qp.st = "RTS" /\ ~qp.closing
      BY <2>1 DEF PostGetLive
    <3> QED
      BY <2>0, <3>1
  <2>2. CASE PostSlot
    <3>1. poster.pc = "slot" /\ (poster' = IdlePoster \/ poster' = [poster EXCEPT !.pc = "queue"])
      BY <2>2 DEF PostSlot
    <3> QED
      BY <2>0, <3>1
  <2>3. CASE PostQueueSend
    <3>1. poster.pc = "queue" /\ poster' = [poster EXCEPT !.pc = "entry"]
      BY <2>3 DEF PostQueueSend
    <3> QED
      BY <2>0, <3>1
  <2>4. CASE PostQueueEntry
    <3>1. poster' = IdlePoster
      BY <2>4 DEF PostQueueEntry
    <3> QED
      BY <2>0, <3>1
  <2> QED
    BY <2>1, <2>2, <2>3, <2>4
<1>3. RailTypes'
  BY <1>0, <1>1 DEF RailTypes
<1>4. BindInv'
  BY <1>0, <1>1, <1>3 DEF BindInv
<1>5. QuiesceInv'
  BY <1>0, <1>3 DEF QuiesceInv
<1>6. UserInv'
  BY <1>0, <1>1, <1>3 DEF UserInv, PosterRec, RailTypes
<1> QED
  BY <1>3, <1>4, <1>5, <1>6

\* The timeout work moves the queue pair to ERR.
LEMMA RailTimerErr ==
  ASSUME RailInv, Exists, TimerError, UNCHANGED railVars
  PROVE  RailInv'
<1> USE SizeAssumption, ConfAssumption DEF RailInv, Exists, Owned, UsesTransport, IdleUser, IdleQz, IdlePoster, IdleThread, TimerError, railVars
<1>1. RailTypes'
  <2>1. qp' \in QpRec
    BY DEF RailTypes, QpRec, RailRec
  <2>2. rail' \in RailRec
    BY DEF RailTypes, RailRec, UserRec, QpRec, QzRec
  <2>3. qz' \in QzRec
    BY DEF RailTypes, QzRec, QpRec
  <2>4. user' \in UserRec
    BY DEF RailTypes, UserRec, QpRec
  <2>5. wd' \in ThreadRec /\ rm' \in ThreadRec
    BY DEF RailTypes, ThreadRec
  <2>6. conf' \in Conf /\ poster' \in PosterRec
    BY DEF RailTypes
  <2> QED
    BY <2>1, <2>2, <2>3, <2>4, <2>5, <2>6 DEF RailTypes
<1>2. BindInv'
  BY <1>1 DEF RailTypes, QpRec, PosterRec, RailRec, QzRec, UserRec, ThreadRec, BindInv, QuiesceInv, UserInv
<1>3. QuiesceInv'
  BY <1>1 DEF RailTypes, QpRec, PosterRec, RailRec, QzRec, UserRec, ThreadRec, BindInv, QuiesceInv, UserInv
<1>4. UserInv'
  BY <1>1 DEF RailTypes, QpRec, PosterRec, RailRec, QzRec, UserRec, ThreadRec, BindInv, QuiesceInv, UserInv
<1> QED
  BY <1>1, <1>2, <1>3, <1>4

\* create_qp.
LEMMA RailCreate ==
  ASSUME RailInv, CreateQp
  PROVE  RailInv'
<1> USE SizeAssumption, ConfAssumption DEF RailInv, Exists, Owned, UsesTransport, IdleUser, IdleQz, IdlePoster, IdleThread, CreateQp, NoQp
<1>1. RailTypes'
  <2>1. qp' \in QpRec
    <3>1. qp.inc \in 0..MaxQp /\ qp.inc < conf.qps /\ conf.qps \in 0..MaxQp
      BY DEF RailTypes, QpRec
    <3>2. qp.inc + 1 \in 0..MaxQp
      BY <3>1
    <3>3. qp' = [inc |-> qp.inc + 1, st |-> "RESET", closing |-> FALSE, bound |-> FALSE,
                 ep |-> 0, tun |-> FALSE]
      BY DEF CreateQp, NoQp
    <3> QED
      BY ONLY <3>2, <3>3 DEF QpRec
  <2>2. rail' \in RailRec
    BY DEF RailTypes, RailRec, UserRec, QpRec, QzRec
  <2>3. qz' \in QzRec
    BY DEF RailTypes, QzRec, QpRec
  <2>4. user' \in UserRec
    BY DEF RailTypes, UserRec, QpRec
  <2>5. wd' \in ThreadRec /\ rm' \in ThreadRec
    BY DEF RailTypes, ThreadRec
  <2>6. conf' \in Conf /\ poster' \in PosterRec
    BY DEF RailTypes
  <2> QED
    BY <2>1, <2>2, <2>3, <2>4, <2>5, <2>6 DEF RailTypes
<1>2. BindInv'
  BY <1>1 DEF RailTypes, QpRec, PosterRec, RailRec, QzRec, UserRec, ThreadRec, BindInv, QuiesceInv, UserInv
<1>3. QuiesceInv'
  BY <1>1 DEF RailTypes, QpRec, PosterRec, RailRec, QzRec, UserRec, ThreadRec, BindInv, QuiesceInv, UserInv
<1>4. UserInv'
  BY <1>1 DEF RailTypes, QpRec, PosterRec, RailRec, QzRec, UserRec, ThreadRec, BindInv, QuiesceInv, UserInv
<1> QED
  BY <1>1, <1>2, <1>3, <1>4

\* modify_qp takes the tunnel.
LEMMA RailUp ==
  ASSUME RailInv, NEW n \in {"RTR", "RTS"}, NEW r \in Nat, ModifyUp(n, r)
  PROVE  RailInv'
<1> USE SizeAssumption, ConfAssumption DEF RailInv, Exists, Owned, UsesTransport, IdleUser, IdleQz, IdlePoster, IdleThread, ModifyUp, EnsureTunnel, Live, txVars
<1>1. RailTypes'
  <2>1. qp' \in QpRec
    BY DEF RailTypes, QpRec, RailRec
  <2>2. rail' \in RailRec
    BY DEF RailTypes, RailRec, UserRec, QpRec, QzRec
  <2>3. qz' \in QzRec
    BY DEF RailTypes, QzRec, QpRec
  <2>4. user' \in UserRec
    BY DEF RailTypes, UserRec, QpRec
  <2>5. wd' \in ThreadRec /\ rm' \in ThreadRec
    BY DEF RailTypes, ThreadRec
  <2>6. conf' \in Conf /\ poster' \in PosterRec
    BY DEF RailTypes
  <2> QED
    BY <2>1, <2>2, <2>3, <2>4, <2>5, <2>6 DEF RailTypes
<1>2. BindInv'
  BY <1>1 DEF RailTypes, QpRec, PosterRec, RailRec, QzRec, UserRec, ThreadRec, BindInv, QuiesceInv, UserInv
<1>3. QuiesceInv'
  BY <1>1 DEF RailTypes, QpRec, PosterRec, RailRec, QzRec, UserRec, ThreadRec, BindInv, QuiesceInv, UserInv
<1>4. UserInv'
  BY <1>1 DEF RailTypes, QpRec, PosterRec, RailRec, QzRec, UserRec, ThreadRec, BindInv, QuiesceInv, UserInv
<1> QED
  BY <1>1, <1>2, <1>3, <1>4

\* The binding is validated again.
LEMMA RailBindKeep ==
  ASSUME RailInv, user.pc = "bind", qp.bound, BoundTo, rail' = IF user.next = "RTR" THEN [rail EXCEPT !.remote = user.remote] ELSE rail, user' = [user EXCEPT !.pc = "commit"], UNCHANGED <<qp, txVars, qz, wd, rm>>
  PROVE  RailInv'
<1> USE SizeAssumption, ConfAssumption DEF RailInv, Exists, Owned, UsesTransport, IdleUser, IdleQz, IdlePoster, IdleThread, BoundTo, txVars
<1>1. RailTypes'
  <2>1. qp' \in QpRec
    BY DEF RailTypes, QpRec, RailRec
  <2>2. rail' \in RailRec
    BY DEF RailTypes, RailRec, UserRec, QpRec, QzRec
  <2>3. qz' \in QzRec
    BY DEF RailTypes, QzRec, QpRec
  <2>4. user' \in UserRec
    BY DEF RailTypes, UserRec, QpRec
  <2>5. wd' \in ThreadRec /\ rm' \in ThreadRec
    BY DEF RailTypes, ThreadRec
  <2>6. conf' \in Conf /\ poster' \in PosterRec
    BY DEF RailTypes
  <2> QED
    BY <2>1, <2>2, <2>3, <2>4, <2>5, <2>6 DEF RailTypes
<1>2. BindInv'
  BY <1>1 DEF RailTypes, QpRec, PosterRec, RailRec, QzRec, UserRec, ThreadRec, BindInv, QuiesceInv, UserInv
<1>3. QuiesceInv'
  BY <1>1 DEF RailTypes, QpRec, PosterRec, RailRec, QzRec, UserRec, ThreadRec, BindInv, QuiesceInv, UserInv
<1>4. UserInv'
  BY <1>1 DEF RailTypes, QpRec, PosterRec, RailRec, QzRec, UserRec, ThreadRec, BindInv, QuiesceInv, UserInv
<1> QED
  BY <1>1, <1>2, <1>3, <1>4

\* A new epoch begins.
LEMMA RailBindNew ==
  ASSUME RailInv, user.pc = "bind", ~qp.bound, NEW known \in BOOLEAN, Admitted(known), rail' = [rail EXCEPT !.st = "BOUND", !.qp = qp.inc, !.ep = @ + 1, !.remote = IF known THEN user.remote ELSE 0, !.closed = @ /\ rail.st # "QUARANTINED"], qp' = [qp EXCEPT !.bound = TRUE, !.ep = rail.ep + 1], user' = [user EXCEPT !.pc = "commit"], UNCHANGED <<txVars, qz, wd, rm>>
  PROVE  RailInv'
<1> USE SizeAssumption, ConfAssumption DEF RailInv, Exists, Owned, UsesTransport, IdleUser, IdleQz, IdlePoster, IdleThread, Admitted, txVars
<1>1. RailTypes'
  <2>1. qp' \in QpRec
    <3>1. qp \in QpRec /\ rail.ep + 1 \in Nat
      BY DEF RailTypes, RailRec
    <3> QED
      BY ONLY <3>1, qp' = [qp EXCEPT !.bound = TRUE, !.ep = rail.ep + 1] DEF QpRec
  <2>2. rail' \in RailRec
    <3> PICK r \in Nat : r = IF known THEN user.remote ELSE 0
      BY DEF RailTypes, UserRec
    <3> PICK cl \in BOOLEAN : cl = (rail.closed /\ rail.st # "QUARANTINED")
      OBVIOUS
    <3>1. rail \in RailRec /\ rail.ep + 1 \in Nat /\ qp.inc \in Nat
      BY DEF RailTypes, RailRec, QpRec
    <3>2. rail' = [rail EXCEPT !.st = "BOUND", !.qp = qp.inc, !.ep = rail.ep + 1, !.remote = r,
                               !.closed = cl]
      BY <3>1 DEF RailRec
    <3> QED
      BY ONLY <3>1, <3>2, r \in Nat, cl \in BOOLEAN DEF RailRec
  <2>3. qz' \in QzRec
    BY DEF RailTypes, QzRec, QpRec
  <2>4. user' \in UserRec
    BY DEF RailTypes, UserRec, QpRec
  <2>5. wd' \in ThreadRec /\ rm' \in ThreadRec
    BY DEF RailTypes, ThreadRec
  <2>6. conf' \in Conf /\ poster' \in PosterRec
    BY DEF RailTypes
  <2> QED
    BY <2>1, <2>2, <2>3, <2>4, <2>5, <2>6 DEF RailTypes
<1>2. BindInv'
  BY <1>1 DEF RailTypes, QpRec, PosterRec, RailRec, QzRec, UserRec, ThreadRec, BindInv, QuiesceInv, UserInv
<1>3. QuiesceInv'
  BY <1>1 DEF RailTypes, QpRec, PosterRec, RailRec, QzRec, UserRec, ThreadRec, BindInv, QuiesceInv, UserInv
<1>4. UserInv'
  BY <1>1 DEF RailTypes, QpRec, PosterRec, RailRec, QzRec, UserRec, ThreadRec, BindInv, QuiesceInv, UserInv
<1> QED
  BY <1>1, <1>2, <1>3, <1>4

\* The binding is refused.
LEMMA RailBindNot ==
  ASSUME RailInv, user.pc = "bind", NEW rearm \in BOOLEAN, rail' = [ReleaseTunnel(rail, user.got) EXCEPT !.noisy = @ /\ ~rearm], qp' = [qp EXCEPT !.tun = @ /\ ~user.got], user' = IdleUser, UNCHANGED <<txVars, qz, wd, rm>>
  PROVE  RailInv'
<1> USE SizeAssumption, ConfAssumption DEF RailInv, Exists, Owned, UsesTransport, IdleUser, IdleQz, IdlePoster, IdleThread, ReleaseTunnel, txVars
<1>1. RailTypes'
  <2>1. qp' \in QpRec
    BY DEF RailTypes, QpRec, RailRec
  <2>2. rail' \in RailRec
    <3> PICK no \in BOOLEAN : no = (rail.noisy /\ ~rearm)
      OBVIOUS
    <3> PICK tn \in Int : tn = IF user.got THEN rail.tunqps - 1 ELSE rail.tunqps
      BY DEF RailTypes, RailRec
    <3>1. rail \in RailRec
      BY DEF RailTypes
    <3>2. rail' = [rail EXCEPT !.tunqps = tn, !.noisy = no]
      BY <3>1 DEF RailRec
    <3> QED
      BY ONLY <3>1, <3>2, tn \in Int, no \in BOOLEAN DEF RailRec
  <2>3. qz' \in QzRec
    BY DEF RailTypes, QzRec, QpRec
  <2>4. user' \in UserRec
    BY DEF RailTypes, UserRec, QpRec
  <2>5. wd' \in ThreadRec /\ rm' \in ThreadRec
    BY DEF RailTypes, ThreadRec
  <2>6. conf' \in Conf /\ poster' \in PosterRec
    BY DEF RailTypes
  <2> QED
    BY <2>1, <2>2, <2>3, <2>4, <2>5, <2>6 DEF RailTypes
<1>2. BindInv'
  BY <1>1 DEF RailTypes, QpRec, PosterRec, RailRec, QzRec, UserRec, ThreadRec, BindInv, QuiesceInv, UserInv
<1>3. QuiesceInv'
  BY <1>1 DEF RailTypes, QpRec, PosterRec, RailRec, QzRec, UserRec, ThreadRec, BindInv, QuiesceInv, UserInv
<1>4. UserInv'
  BY <1>1 DEF RailTypes, QpRec, PosterRec, RailRec, QzRec, UserRec, ThreadRec, BindInv, QuiesceInv, UserInv
<1> QED
  BY <1>1, <1>2, <1>3, <1>4

\* modify_qp commits its transition.
LEMMA RailCommit ==
  ASSUME RailInv, Commit
  PROVE  RailInv'
<1> USE SizeAssumption, ConfAssumption DEF RailInv, Exists, Owned, UsesTransport, IdleUser, IdleQz, IdlePoster, IdleThread, Commit, ReleaseTunnel, txVars
<1>1. RailTypes'
  <2>1. qp' \in QpRec
    BY DEF RailTypes, QpRec, RailRec
  <2>2. rail' \in RailRec
    BY DEF RailTypes, RailRec, UserRec, QpRec, QzRec
  <2>3. qz' \in QzRec
    BY DEF RailTypes, QzRec, QpRec
  <2>4. user' \in UserRec
    BY DEF RailTypes, UserRec, QpRec
  <2>5. wd' \in ThreadRec /\ rm' \in ThreadRec
    BY DEF RailTypes, ThreadRec
  <2>6. conf' \in Conf /\ poster' \in PosterRec
    BY DEF RailTypes
  <2> QED
    BY <2>1, <2>2, <2>3, <2>4, <2>5, <2>6 DEF RailTypes
<1>2. BindInv'
  BY <1>1 DEF RailTypes, QpRec, PosterRec, RailRec, QzRec, UserRec, ThreadRec, BindInv, QuiesceInv, UserInv
<1>3. QuiesceInv'
  BY <1>1 DEF RailTypes, QpRec, PosterRec, RailRec, QzRec, UserRec, ThreadRec, BindInv, QuiesceInv, UserInv
<1>4. UserInv'
  BY <1>1 DEF RailTypes, QpRec, PosterRec, RailRec, QzRec, UserRec, ThreadRec, BindInv, QuiesceInv, UserInv
<1> QED
  BY <1>1, <1>2, <1>3, <1>4

\* modify_qp leaves the transport states.
LEMMA RailDown ==
  ASSUME RailInv, NEW n \in {"RESET", "ERR"}, ModifyDown(n)
  PROVE  RailInv'
<1> USE SizeAssumption, ConfAssumption DEF RailInv, Exists, Owned, UsesTransport, IdleUser, IdleQz, IdlePoster, IdleThread, ModifyDown, Live, txVars
<1>1. RailTypes'
  <2>1. qp' \in QpRec
    BY DEF RailTypes, QpRec, RailRec
  <2>2. rail' \in RailRec
    BY DEF RailTypes, RailRec, UserRec, QpRec, QzRec
  <2>3. qz' \in QzRec
    BY DEF RailTypes, QzRec, QpRec
  <2>4. user' \in UserRec
    <3>0. (UsesTransport(qp.st)) \in BOOLEAN
      BY ONLY TRUE DEF UsesTransport
    <3> PICK g \in BOOLEAN : g = UsesTransport(qp.st)
      BY ONLY <3>0
    <3> PICK pc \in {"flush", "idle"} : pc = IF UsesTransport(qp.st) \/ n = "ERR" THEN "flush" ELSE "idle"
      OBVIOUS
    <3>1. user' = [pc |-> pc, next |-> n, remote |-> 0, got |-> g]
      BY ONLY ModifyDown(n), g = UsesTransport(qp.st),
              pc = IF UsesTransport(qp.st) \/ n = "ERR" THEN "flush" ELSE "idle" DEF ModifyDown, IdleUser
    <3> QED
      BY ONLY <3>1, n \in {"RESET", "ERR"}, g \in BOOLEAN, pc \in {"flush", "idle"} DEF UserRec
  <2>5. wd' \in ThreadRec /\ rm' \in ThreadRec
    BY DEF RailTypes, ThreadRec
  <2>6. conf' \in Conf /\ poster' \in PosterRec
    BY DEF RailTypes
  <2> QED
    BY <2>1, <2>2, <2>3, <2>4, <2>5, <2>6 DEF RailTypes
<1>2. BindInv'
  BY <1>1 DEF RailTypes, QpRec, PosterRec, RailRec, QzRec, UserRec, ThreadRec, BindInv, QuiesceInv, UserInv
<1>3. QuiesceInv'
  BY <1>1 DEF RailTypes, QpRec, PosterRec, RailRec, QzRec, UserRec, ThreadRec, BindInv, QuiesceInv, UserInv
<1>4. UserInv'
  BY <1>1 DEF RailTypes, QpRec, PosterRec, RailRec, QzRec, UserRec, ThreadRec, BindInv, QuiesceInv, UserInv
<1> QED
  BY <1>1, <1>2, <1>3, <1>4

\* modify_qp has joined the worker.
LEMMA RailJoin ==
  ASSUME RailInv, ModifyJoin
  PROVE  RailInv'
<1> USE SizeAssumption, ConfAssumption DEF RailInv, Exists, Owned, UsesTransport, IdleUser, IdleQz, IdlePoster, IdleThread, ModifyJoin, txVars
<1>1. RailTypes'
  <2>1. qp' \in QpRec
    BY DEF RailTypes, QpRec, RailRec
  <2>2. rail' \in RailRec
    BY DEF RailTypes, RailRec, UserRec, QpRec, QzRec
  <2>3. qz' \in QzRec
    BY DEF RailTypes, QzRec, QpRec
  <2>4. user' \in UserRec
    BY DEF RailTypes, UserRec, QpRec
  <2>5. wd' \in ThreadRec /\ rm' \in ThreadRec
    BY DEF RailTypes, ThreadRec
  <2>6. conf' \in Conf /\ poster' \in PosterRec
    BY DEF RailTypes
  <2> QED
    BY <2>1, <2>2, <2>3, <2>4, <2>5, <2>6 DEF RailTypes
<1>2. BindInv'
  BY <1>1 DEF RailTypes, QpRec, PosterRec, RailRec, QzRec, UserRec, ThreadRec, BindInv, QuiesceInv, UserInv
<1>3. QuiesceInv'
  BY <1>1 DEF RailTypes, QpRec, PosterRec, RailRec, QzRec, UserRec, ThreadRec, BindInv, QuiesceInv, UserInv
<1>4. UserInv'
  BY <1>1 DEF RailTypes, QpRec, PosterRec, RailRec, QzRec, UserRec, ThreadRec, BindInv, QuiesceInv, UserInv
<1> QED
  BY <1>1, <1>2, <1>3, <1>4

\* modify_qp has quiesced.
LEMMA RailEnd ==
  ASSUME RailInv, ModifyEnd
  PROVE  RailInv'
<1> USE SizeAssumption, ConfAssumption DEF RailInv, Exists, Owned, UsesTransport, IdleUser, IdleQz, IdlePoster, IdleThread, ModifyEnd, ReleaseTunnel, txVars
<1>1. RailTypes'
  <2>1. qp' \in QpRec
    BY DEF RailTypes, QpRec, RailRec
  <2>2. rail' \in RailRec
    <3> PICK tn \in Int : tn = IF qp.tun THEN rail.tunqps - 1 ELSE rail.tunqps
      BY DEF RailTypes, RailRec
    <3> PICK q \in Nat : q = IF qp.bound /\ rail.qp = qp.inc THEN 0 ELSE rail.qp
      BY DEF RailTypes, RailRec
    
    <3> PICK st : /\ st \in {"UNBOUND", "BOUND", "QUIESCING", "QUARANTINED"}
                  /\ st = IF qp.bound /\ rail.qp = qp.inc /\ rail.st = "BOUND" THEN "UNBOUND" ELSE rail.st
      BY DEF RailTypes, RailRec
    <3>1. rail \in RailRec
      BY DEF RailTypes
    <3>2. rail' = [rail EXCEPT !.tunqps = tn, !.qp = q, !.st = st]
      BY <3>1 DEF RailRec
    <3> QED
      BY ONLY <3>1, <3>2, tn \in Int, q \in Nat, st \in {"UNBOUND", "BOUND", "QUIESCING", "QUARANTINED"}
         DEF RailRec
  <2>3. qz' \in QzRec
    BY DEF RailTypes, QzRec, QpRec
  <2>4. user' \in UserRec
    BY DEF RailTypes, UserRec, QpRec
  <2>5. wd' \in ThreadRec /\ rm' \in ThreadRec
    BY DEF RailTypes, ThreadRec
  <2>6. conf' \in Conf /\ poster' \in PosterRec
    BY DEF RailTypes
  <2> QED
    BY <2>1, <2>2, <2>3, <2>4, <2>5, <2>6 DEF RailTypes
<1>2. BindInv'
  BY <1>1 DEF RailTypes, QpRec, PosterRec, RailRec, QzRec, UserRec, ThreadRec, BindInv, QuiesceInv, UserInv
<1>3. QuiesceInv'
  BY <1>1 DEF RailTypes, QpRec, PosterRec, RailRec, QzRec, UserRec, ThreadRec, BindInv, QuiesceInv, UserInv
<1>4. UserInv'
  BY <1>1 DEF RailTypes, QpRec, PosterRec, RailRec, QzRec, UserRec, ThreadRec, BindInv, QuiesceInv, UserInv
<1> QED
  BY <1>1, <1>2, <1>3, <1>4

\* modify_qp has flushed.
LEMMA RailFlushed ==
  ASSUME RailInv, user.pc = "flush", ModifyFlushed, UNCHANGED <<flushOthers, qz>>
  PROVE  RailInv'
<1> USE SizeAssumption, ConfAssumption DEF RailInv, Exists, Owned, UsesTransport, IdleUser, IdleQz, IdlePoster, IdleThread, ModifyFlushed, flushOthers
<1>1. RailTypes'
  <2>1. qp' \in QpRec
    BY DEF RailTypes, QpRec, RailRec
  <2>2. rail' \in RailRec
    BY DEF RailTypes, RailRec, UserRec, QpRec, QzRec
  <2>3. qz' \in QzRec
    BY DEF RailTypes, QzRec, QpRec
  <2>4. user' \in UserRec
    BY DEF RailTypes, UserRec, QpRec
  <2>5. wd' \in ThreadRec /\ rm' \in ThreadRec
    BY DEF RailTypes, ThreadRec
  <2>6. conf' \in Conf /\ poster' \in PosterRec
    BY DEF RailTypes
  <2> QED
    BY <2>1, <2>2, <2>3, <2>4, <2>5, <2>6 DEF RailTypes
<1>2. BindInv'
  BY <1>1 DEF RailTypes, QpRec, PosterRec, RailRec, QzRec, UserRec, ThreadRec, BindInv, QuiesceInv, UserInv
<1>3. QuiesceInv'
  BY <1>1 DEF RailTypes, QpRec, PosterRec, RailRec, QzRec, UserRec, ThreadRec, BindInv, QuiesceInv, UserInv
<1>4. UserInv'
  BY <1>1 DEF RailTypes, QpRec, PosterRec, RailRec, QzRec, UserRec, ThreadRec, BindInv, QuiesceInv, UserInv
<1> QED
  BY <1>1, <1>2, <1>3, <1>4

\* destroy_qp begins.
LEMMA RailDestroy ==
  ASSUME RailInv, DestroyQp
  PROVE  RailInv'
<1> USE SizeAssumption, ConfAssumption DEF RailInv, Exists, Owned, UsesTransport, IdleUser, IdleQz, IdlePoster, IdleThread, DestroyQp, txVars
<1>1. RailTypes'
  <2>1. qp' \in QpRec
    BY DEF RailTypes, QpRec, RailRec
  <2>2. rail' \in RailRec
    BY DEF RailTypes, RailRec, UserRec, QpRec, QzRec
  <2>3. qz' \in QzRec
    BY DEF RailTypes, QzRec, QpRec
  <2>4. user' \in UserRec
    BY DEF RailTypes, UserRec, QpRec
  <2>5. wd' \in ThreadRec /\ rm' \in ThreadRec
    BY DEF RailTypes, ThreadRec
  <2>6. conf' \in Conf /\ poster' \in PosterRec
    BY DEF RailTypes
  <2> QED
    BY <2>1, <2>2, <2>3, <2>4, <2>5, <2>6 DEF RailTypes
<1>2. BindInv'
  BY <1>1 DEF RailTypes, QpRec, PosterRec, RailRec, QzRec, UserRec, ThreadRec, BindInv, QuiesceInv, UserInv
<1>3. QuiesceInv'
  BY <1>1 DEF RailTypes, QpRec, PosterRec, RailRec, QzRec, UserRec, ThreadRec, BindInv, QuiesceInv, UserInv
<1>4. UserInv'
  BY <1>1 DEF RailTypes, QpRec, PosterRec, RailRec, QzRec, UserRec, ThreadRec, BindInv, QuiesceInv, UserInv
<1> QED
  BY <1>1, <1>2, <1>3, <1>4

\* destroy_qp ends.
LEMMA RailFree ==
  ASSUME RailInv, NEW o, DestroyFree(o)
  PROVE  RailInv'
<1> USE SizeAssumption, ConfAssumption DEF RailInv, Exists, Owned, UsesTransport, IdleUser, IdleQz, IdlePoster, IdleThread, DestroyFree, ReleaseTunnel, NoQp, txVars
<1>1. RailTypes'
  <2>1. qp' \in QpRec
    BY DEF RailTypes, QpRec, RailRec
  <2>2. rail' \in RailRec
    <3> PICK tn \in Int : tn = IF qp.tun THEN rail.tunqps - 1 ELSE rail.tunqps
      BY DEF RailTypes, RailRec
    <3> PICK q \in Nat : q = IF qp.bound /\ rail.qp = qp.inc THEN 0 ELSE rail.qp
      BY DEF RailTypes, RailRec
    
    <3>1. rail \in RailRec
      BY DEF RailTypes
    <3>2. rail' = [rail EXCEPT !.tunqps = tn, !.qp = q]
      BY <3>1 DEF RailRec
    <3> QED
      BY ONLY <3>1, <3>2, tn \in Int, q \in Nat DEF RailRec
  <2>3. qz' \in QzRec
    BY DEF RailTypes, QzRec, QpRec
  <2>4. user' \in UserRec
    BY DEF RailTypes, UserRec, QpRec
  <2>5. wd' \in ThreadRec /\ rm' \in ThreadRec
    BY DEF RailTypes, ThreadRec
  <2>6. conf' \in Conf /\ poster' \in PosterRec
    BY DEF RailTypes
  <2> QED
    BY <2>1, <2>2, <2>3, <2>4, <2>5, <2>6 DEF RailTypes
<1>2. BindInv'
  BY <1>1 DEF RailTypes, QpRec, PosterRec, RailRec, QzRec, UserRec, ThreadRec, BindInv, QuiesceInv, UserInv
<1>3. QuiesceInv'
  BY <1>1 DEF RailTypes, QpRec, PosterRec, RailRec, QzRec, UserRec, ThreadRec, BindInv, QuiesceInv, UserInv
<1>4. UserInv'
  BY <1>1 DEF RailTypes, QpRec, PosterRec, RailRec, QzRec, UserRec, ThreadRec, BindInv, QuiesceInv, UserInv
<1> QED
  BY <1>1, <1>2, <1>3, <1>4

\* The watchdog asks for a quiesce.
LEMMA RailWd ==
  ASSUME RailInv, WatchdogFail
  PROVE  RailInv'
<1> USE SizeAssumption, ConfAssumption DEF RailInv, Exists, Owned, UsesTransport, IdleUser, IdleQz, IdlePoster, IdleThread, WatchdogFail, txVars
<1>1. RailTypes'
  <2>1. qp' \in QpRec
    BY DEF RailTypes, QpRec, RailRec
  <2>2. rail' \in RailRec
    BY DEF RailTypes, RailRec, UserRec, QpRec, QzRec
  <2>3. qz' \in QzRec
    BY DEF RailTypes, QzRec, QpRec
  <2>4. user' \in UserRec
    BY DEF RailTypes, UserRec, QpRec
  <2>5. wd' \in ThreadRec /\ rm' \in ThreadRec
    BY DEF RailTypes, ThreadRec
  <2>6. conf' \in Conf /\ poster' \in PosterRec
    BY DEF RailTypes
  <2> QED
    BY <2>1, <2>2, <2>3, <2>4, <2>5, <2>6 DEF RailTypes
<1>2. BindInv'
  BY <1>1 DEF RailTypes, QpRec, PosterRec, RailRec, QzRec, UserRec, ThreadRec, BindInv, QuiesceInv, UserInv
<1>3. QuiesceInv'
  BY <1>1 DEF RailTypes, QpRec, PosterRec, RailRec, QzRec, UserRec, ThreadRec, BindInv, QuiesceInv, UserInv
<1>4. UserInv'
  BY <1>1 DEF RailTypes, QpRec, PosterRec, RailRec, QzRec, UserRec, ThreadRec, BindInv, QuiesceInv, UserInv
<1> QED
  BY <1>1, <1>2, <1>3, <1>4

\* Rail removal or module exit asks for a quiesce.
LEMMA RailRm ==
  ASSUME RailInv, NEW how, RemoveStart(how)
  PROVE  RailInv'
<1> USE SizeAssumption, ConfAssumption DEF RailInv, Exists, Owned, UsesTransport, IdleUser, IdleQz, IdlePoster, IdleThread, RemoveStart, txVars
<1>1. RailTypes'
  <2>1. qp' \in QpRec
    BY DEF RailTypes, QpRec, RailRec
  <2>2. rail' \in RailRec
    BY DEF RailTypes, RailRec, UserRec, QpRec, QzRec
  <2>3. qz' \in QzRec
    BY DEF RailTypes, QzRec, QpRec
  <2>4. user' \in UserRec
    BY DEF RailTypes, UserRec, QpRec
  <2>5. wd' \in ThreadRec /\ rm' \in ThreadRec
    BY DEF RailTypes, ThreadRec
  <2>6. conf' \in Conf /\ poster' \in PosterRec
    BY DEF RailTypes
  <2> QED
    BY <2>1, <2>2, <2>3, <2>4, <2>5, <2>6 DEF RailTypes
<1>2. BindInv'
  BY <1>1 DEF RailTypes, QpRec, PosterRec, RailRec, QzRec, UserRec, ThreadRec, BindInv, QuiesceInv, UserInv
<1>3. QuiesceInv'
  BY <1>1 DEF RailTypes, QpRec, PosterRec, RailRec, QzRec, UserRec, ThreadRec, BindInv, QuiesceInv, UserInv
<1>4. UserInv'
  BY <1>1 DEF RailTypes, QpRec, PosterRec, RailRec, QzRec, UserRec, ThreadRec, BindInv, QuiesceInv, UserInv
<1> QED
  BY <1>1, <1>2, <1>3, <1>4

\* The quiesce of a destroy or of a modify begins.
LEMMA RailQCloseUser ==
  ASSUME RailInv, QClose("user")
  PROVE  RailInv'
<1> USE SizeAssumption, ConfAssumption DEF RailInv, Exists, Owned, UsesTransport, IdleUser, IdleQz, IdlePoster, IdleThread, QClose, Waiting, SetPc, Live, txVars
<1>1. RailTypes'
  <2>1. qp' \in QpRec
    BY DEF RailTypes, QpRec, RailRec
  <2>2. rail' \in RailRec
    BY DEF RailTypes, RailRec, UserRec, QpRec, QzRec
  <2>3. qz' \in QzRec
    <3> PICK take \in BOOLEAN : take = ("user" # "user" /\ rail.qp # 0 /\ rail.qp = qp.inc /\ Live)
      OBVIOUS
    <3> PICK o \in Nat : o = IF "user" = "user" \/ take THEN qp.inc ELSE 0
      BY DEF RailTypes, QpRec
    <3> PICK q \in BOOLEAN : q = (rail.st = "QUARANTINED")
      OBVIOUS
    <3> PICK pc \in {"mark", "worker", "cancel"} :
               pc = IF take THEN "mark" ELSE IF "user" = "user" THEN "worker" ELSE "cancel"
      OBVIOUS
    <3>1. qz' = [pc |-> pc, by |-> "user", owner |-> o, ref |-> take, wasq |-> q, barrier |-> FALSE,
                 restart |-> FALSE, err |-> FALSE]
      OBVIOUS
    <3> QED
      BY ONLY <3>1, o \in Nat, q \in BOOLEAN, take \in BOOLEAN, pc \in {"mark", "worker", "cancel"}, "user" \in {"user", "wd", "rm"}
         DEF QzRec
  <2>4. user' \in UserRec
    BY DEF RailTypes, UserRec, QpRec
  <2>5. wd' \in ThreadRec /\ rm' \in ThreadRec
    BY DEF RailTypes, ThreadRec
  <2>6. conf' \in Conf /\ poster' \in PosterRec
    BY DEF RailTypes
  <2> QED
    BY <2>1, <2>2, <2>3, <2>4, <2>5, <2>6 DEF RailTypes
<1>2. BindInv'
  BY <1>1 DEF RailTypes, QpRec, PosterRec, RailRec, QzRec, UserRec, ThreadRec, BindInv, QuiesceInv, UserInv
<1>3. QuiesceInv'
  BY <1>1 DEF RailTypes, QpRec, PosterRec, RailRec, QzRec, UserRec, ThreadRec, BindInv, QuiesceInv, UserInv
<1>4. UserInv'
  BY <1>1 DEF RailTypes, QpRec, PosterRec, RailRec, QzRec, UserRec, ThreadRec, BindInv, QuiesceInv, UserInv
<1> QED
  BY <1>1, <1>2, <1>3, <1>4

\* The quiesce of a caller that names no queue pair begins.
LEMMA RailQCloseOther ==
  ASSUME RailInv, NEW t \in {"wd", "rm"}, QClose(t)
  PROVE  RailInv'
<1> USE SizeAssumption, ConfAssumption DEF RailInv, Exists, Owned, UsesTransport, IdleUser, IdleQz, IdlePoster, IdleThread, QClose, Waiting, SetPc, Live, txVars
<1>1. RailTypes'
  <2>1. qp' \in QpRec
    BY DEF RailTypes, QpRec, RailRec
  <2>2. rail' \in RailRec
    BY DEF RailTypes, RailRec, UserRec, QpRec, QzRec
  <2>3. qz' \in QzRec
    <3> PICK take \in BOOLEAN : take = (t # "user" /\ rail.qp # 0 /\ rail.qp = qp.inc /\ Live)
      OBVIOUS
    <3> PICK o \in Nat : o = IF t = "user" \/ take THEN qp.inc ELSE 0
      BY DEF RailTypes, QpRec
    <3> PICK q \in BOOLEAN : q = (rail.st = "QUARANTINED")
      OBVIOUS
    <3> PICK pc \in {"mark", "worker", "cancel"} :
               pc = IF take THEN "mark" ELSE IF t = "user" THEN "worker" ELSE "cancel"
      OBVIOUS
    <3>1. qz' = [pc |-> pc, by |-> t, owner |-> o, ref |-> take, wasq |-> q, barrier |-> FALSE,
                 restart |-> FALSE, err |-> FALSE]
      OBVIOUS
    <3> QED
      BY ONLY <3>1, o \in Nat, q \in BOOLEAN, take \in BOOLEAN, pc \in {"mark", "worker", "cancel"}, t \in {"user", "wd", "rm"}
         DEF QzRec
  <2>4. user' \in UserRec
    BY DEF RailTypes, UserRec, QpRec
  <2>5. wd' \in ThreadRec /\ rm' \in ThreadRec
    BY DEF RailTypes, ThreadRec
  <2>6. conf' \in Conf /\ poster' \in PosterRec
    BY DEF RailTypes
  <2> QED
    BY <2>1, <2>2, <2>3, <2>4, <2>5, <2>6 DEF RailTypes
<1>2. BindInv'
  BY <1>1 DEF RailTypes, QpRec, PosterRec, RailRec, QzRec, UserRec, ThreadRec, BindInv, QuiesceInv, UserInv
<1>3. QuiesceInv'
  BY <1>1 DEF RailTypes, QpRec, PosterRec, RailRec, QzRec, UserRec, ThreadRec, BindInv, QuiesceInv, UserInv
<1>4. UserInv'
  BY <1>1 DEF RailTypes, QpRec, PosterRec, RailRec, QzRec, UserRec, ThreadRec, BindInv, QuiesceInv, UserInv
<1> QED
  BY <1>1, <1>2, <1>3, <1>4

\* The queue pair taken over is moved to ERR.
LEMMA RailQMark ==
  ASSUME RailInv, QMark
  PROVE  RailInv'
<1> USE SizeAssumption, ConfAssumption DEF RailInv, Exists, Owned, UsesTransport, IdleUser, IdleQz, IdlePoster, IdleThread, QMark, txVars
<1>1. RailTypes'
  <2>1. qp' \in QpRec
    BY DEF RailTypes, QpRec, RailRec
  <2>2. rail' \in RailRec
    BY DEF RailTypes, RailRec, UserRec, QpRec, QzRec
  <2>3. qz' \in QzRec
    BY DEF RailTypes, QzRec, QpRec
  <2>4. user' \in UserRec
    BY DEF RailTypes, UserRec, QpRec
  <2>5. wd' \in ThreadRec /\ rm' \in ThreadRec
    BY DEF RailTypes, ThreadRec
  <2>6. conf' \in Conf /\ poster' \in PosterRec
    BY DEF RailTypes
  <2> QED
    BY <2>1, <2>2, <2>3, <2>4, <2>5, <2>6 DEF RailTypes
<1>2. BindInv'
  BY <1>1 DEF RailTypes, QpRec, PosterRec, RailRec, QzRec, UserRec, ThreadRec, BindInv, QuiesceInv, UserInv
<1>3. QuiesceInv'
  BY <1>1 DEF RailTypes, QpRec, PosterRec, RailRec, QzRec, UserRec, ThreadRec, BindInv, QuiesceInv, UserInv
<1>4. UserInv'
  BY <1>1 DEF RailTypes, QpRec, PosterRec, RailRec, QzRec, UserRec, ThreadRec, BindInv, QuiesceInv, UserInv
<1> QED
  BY <1>1, <1>2, <1>3, <1>4

\* The quiesce goes from one stage to the next.
LEMMA RailQPc ==
  ASSUME RailInv, qz.pc \notin {"idle", "mark", "refs", "end"}, NEW p \in {"worker", "timer", "cancel", "drain", "refs"}, qz.pc \in {"flush", "worker"} \/ p \notin {"worker", "timer"}, qz' = [qz EXCEPT !.pc = p], UNCHANGED <<conf, qp, poster, rail, user, wd, rm>>
  PROVE  RailInv'
<1> USE SizeAssumption, ConfAssumption DEF RailInv, Exists, Owned, UsesTransport, IdleUser, IdleQz, IdlePoster, IdleThread
<1>1. RailTypes'
  <2>1. qp' \in QpRec
    BY DEF RailTypes, QpRec, RailRec
  <2>2. rail' \in RailRec
    BY DEF RailTypes, RailRec, UserRec, QpRec, QzRec
  <2>3. qz' \in QzRec
    BY DEF RailTypes, QzRec, QpRec
  <2>4. user' \in UserRec
    BY DEF RailTypes, UserRec, QpRec
  <2>5. wd' \in ThreadRec /\ rm' \in ThreadRec
    BY DEF RailTypes, ThreadRec
  <2>6. conf' \in Conf /\ poster' \in PosterRec
    BY DEF RailTypes
  <2> QED
    BY <2>1, <2>2, <2>3, <2>4, <2>5, <2>6 DEF RailTypes
<1>2. BindInv'
  BY <1>1 DEF RailTypes, QpRec, PosterRec, RailRec, QzRec, UserRec, ThreadRec, BindInv, QuiesceInv, UserInv
<1>3. QuiesceInv'
  BY <1>1 DEF RailTypes, QpRec, PosterRec, RailRec, QzRec, UserRec, ThreadRec, BindInv, QuiesceInv, UserInv
<1>4. UserInv'
  BY <1>1 DEF RailTypes, QpRec, PosterRec, RailRec, QzRec, UserRec, ThreadRec, BindInv, QuiesceInv, UserInv
<1> QED
  BY <1>1, <1>2, <1>3, <1>4

\* The ring barrier.
LEMMA RailQBar ==
  ASSUME RailInv, QBarrier
  PROVE  RailInv'
<1> USE SizeAssumption, ConfAssumption DEF RailInv, Exists, Owned, UsesTransport, IdleUser, IdleQz, IdlePoster, IdleThread
<1>0. UNCHANGED <<conf, poster, qp, user, wd, rm>> /\ qz.pc = "drain"
  BY DEF QBarrier
<1>a. PICK stop \in BOOLEAN : rail' = [rail EXCEPT !.stopped = stop]
  BY DEF QBarrier, RailTypes, RailRec
<1>b. PICK restart \in BOOLEAN, err \in BOOLEAN :
        qz' = [qz EXCEPT !.pc = IF err THEN "end" ELSE "refs", !.barrier = TRUE, !.restart = restart, !.err = err]
  <2>1. PICK restart \in BOOLEAN : restart = (~rail.removing /\ rail.reg)
    OBVIOUS
  <2>2. PICK err \in BOOLEAN : qz' = [qz EXCEPT !.pc = IF err THEN "end" ELSE "refs", !.barrier = TRUE,
                                             !.restart = restart, !.err = err]
    BY <2>1 DEF QBarrier, RailTypes
  <2> QED
    BY <2>2
<1> USE <1>0, <1>a, <1>b
<1>1. RailTypes'
  <2>1. qp' \in QpRec
    BY DEF RailTypes
  <2>2. rail' \in RailRec
    BY DEF RailTypes, RailRec
  <2>3. qz' \in QzRec
    BY DEF RailTypes, QzRec, QpRec
  <2>4. user' \in UserRec
    BY DEF RailTypes, UserRec, QpRec
  <2>5. wd' \in ThreadRec /\ rm' \in ThreadRec
    BY DEF RailTypes, ThreadRec
  <2>6. conf' \in Conf /\ poster' \in PosterRec
    BY DEF RailTypes
  <2> QED
    BY <2>1, <2>2, <2>3, <2>4, <2>5, <2>6 DEF RailTypes
<1>2. BindInv'
  BY <1>1 DEF RailTypes, QpRec, PosterRec, RailRec, QzRec, UserRec, ThreadRec, BindInv, QuiesceInv, UserInv
<1>c. /\ qz'.pc = (IF err THEN "end" ELSE "refs") /\ qz'.err = err /\ qz'.by = qz.by /\ qz'.owner = qz.owner
      /\ qz'.wasq = qz.wasq /\ rail'.st = rail.st /\ rail'.closed = rail.closed
  BY DEF RailTypes, QzRec, RailRec
<1>3. QuiesceInv'
  BY ONLY <1>0, <1>c, QuiesceInv, err \in BOOLEAN DEF QuiesceInv, Owned, Exists, UsesTransport
<1>4. UserInv'
  BY <1>1 DEF RailTypes, QpRec, PosterRec, RailRec, QzRec, UserRec, ThreadRec, BindInv, QuiesceInv, UserInv
<1> QED
  BY <1>1, <1>2, <1>3, <1>4

\* The wait for the references.
LEMMA RailQRefs ==
  ASSUME RailInv, NEW o, QRefs(o)
  PROVE  RailInv'
<1> USE SizeAssumption, ConfAssumption DEF RailInv, Exists, Owned, UsesTransport, IdleUser, IdleQz, IdlePoster, IdleThread, QRefs, txVars
<1>1. RailTypes'
  <2>1. qp' \in QpRec
    BY DEF RailTypes, QpRec, RailRec
  <2>2. rail' \in RailRec
    BY DEF RailTypes, RailRec, UserRec, QpRec, QzRec
  <2>3. qz' \in QzRec
    BY DEF RailTypes, QzRec, QpRec
  <2>4. user' \in UserRec
    BY DEF RailTypes, UserRec, QpRec
  <2>5. wd' \in ThreadRec /\ rm' \in ThreadRec
    BY DEF RailTypes, ThreadRec
  <2>6. conf' \in Conf /\ poster' \in PosterRec
    BY DEF RailTypes
  <2> QED
    BY <2>1, <2>2, <2>3, <2>4, <2>5, <2>6 DEF RailTypes
<1>2. BindInv'
  BY <1>1 DEF RailTypes, QpRec, PosterRec, RailRec, QzRec, UserRec, ThreadRec, BindInv, QuiesceInv, UserInv
<1>3. QuiesceInv'
  BY <1>1 DEF RailTypes, QpRec, PosterRec, RailRec, QzRec, UserRec, ThreadRec, BindInv, QuiesceInv, UserInv
<1>4. UserInv'
  BY <1>1 DEF RailTypes, QpRec, PosterRec, RailRec, QzRec, UserRec, ThreadRec, BindInv, QuiesceInv, UserInv
<1> QED
  BY <1>1, <1>2, <1>3, <1>4

\* The outcome of the quiesce.
LEMMA RailQEnd ==
  ASSUME RailInv, QEnd
  PROVE  RailInv'
<1> USE SizeAssumption, ConfAssumption DEF RailInv, Exists, Owned, UsesTransport, IdleUser, IdleQz, IdlePoster, IdleThread, QEnd, SetPc, txVars
<1>1. RailTypes'
  <2>1. qp' \in QpRec
    BY DEF RailTypes, QpRec, RailRec
  <2>2. rail' \in RailRec
    <3> PICK st : /\ st \in {"UNBOUND", "BOUND", "QUIESCING", "QUARANTINED"}
                  /\ st = IF ~(~qz.err /\ ~(qz.barrier /\ qz.restart)) THEN "QUARANTINED"
                          ELSE IF qz.wasq THEN rail.st ELSE "UNBOUND"
      BY DEF RailTypes, RailRec
    <3> PICK q \in Nat : q = IF qz.owner # 0 /\ rail.qp = qz.owner THEN 0 ELSE rail.qp
      BY DEF RailTypes, RailRec
    <3> PICK no \in BOOLEAN : no = IF ~qz.err /\ ~(qz.barrier /\ qz.restart) THEN rail.noisy ELSE FALSE
      BY DEF RailTypes, RailRec
    <3> PICK cl \in BOOLEAN : cl = (rail.closed /\ ~(st = "UNBOUND" /\ ~qz.barrier /\ ~rail.removing))
      OBVIOUS
    <3>1. rail \in RailRec /\ qz.err \in BOOLEAN
      BY DEF RailTypes, QzRec
    <3>2. rail' = [rail EXCEPT !.st = st, !.err = qz.err, !.qp = q, !.noisy = no, !.closed = cl]
      BY <3>1 DEF RailRec
    <3> QED
      BY ONLY <3>1, <3>2, st \in {"UNBOUND", "BOUND", "QUIESCING", "QUARANTINED"}, q \in Nat,
              no \in BOOLEAN, cl \in BOOLEAN DEF RailRec
  <2>3. qz' \in QzRec
    BY DEF RailTypes, QzRec, QpRec
  <2>4. user' \in UserRec
    BY DEF RailTypes, UserRec, QpRec
  <2>5. wd' \in ThreadRec /\ rm' \in ThreadRec
    BY DEF RailTypes, ThreadRec
  <2>6. conf' \in Conf /\ poster' \in PosterRec
    BY DEF RailTypes
  <2> QED
    BY <2>1, <2>2, <2>3, <2>4, <2>5, <2>6 DEF RailTypes
<1>2. BindInv'
  BY <1>1 DEF RailTypes, QpRec, PosterRec, RailRec, QzRec, UserRec, ThreadRec, BindInv, QuiesceInv, UserInv
<1>3. QuiesceInv'
  BY <1>1 DEF RailTypes, QpRec, PosterRec, RailRec, QzRec, UserRec, ThreadRec, BindInv, QuiesceInv, UserInv
<1>4. UserInv'
  BY <1>1 DEF RailTypes, QpRec, PosterRec, RailRec, QzRec, UserRec, ThreadRec, BindInv, QuiesceInv, UserInv
<1> QED
  BY <1>1, <1>2, <1>3, <1>4

-----------------------------------------------------------------------------
(* Sequences in order, and what Without() leaves.                          *)

\* Frames in the order of their work requests.
InOrder(s) == \A j, k \in DOMAIN s : j < k => s[j][1] <= s[k][1]
Rising(s) == \A j, k \in DOMAIN s : j < k => s[j] < s[k]

\* The first k elements of a sequence, one by one.
LEMMA FirstFacts ==
  ASSUME NEW S, NEW s \in Seq(S), NEW n \in Nat, Len(s) = n
  PROVE  /\ SubSeq(s, 1, 0) = <<>> /\ SubSeq(s, 1, n) = s
         /\ \A k \in 1..n : /\ SubSeq(s, 1, k - 1) \in Seq(S) /\ s[k] \in S
                            /\ SubSeq(s, 1, k) = Append(SubSeq(s, 1, k - 1), s[k])
<1>1. SubSeq(s, 1, 0) = <<>> /\ SubSeq(s, 1, n) = s
  OBVIOUS
<1>2. ASSUME NEW k \in 1..n
      PROVE  /\ SubSeq(s, 1, k - 1) \in Seq(S) /\ s[k] \in S
             /\ SubSeq(s, 1, k) = Append(SubSeq(s, 1, k - 1), s[k])
  <2>1. SubSeq(s, 1, k - 1) \in Seq(S) /\ s[k] \in S
    OBVIOUS
  <2>2. SubSeq(s, 1, k) = Append(SubSeq(s, 1, k - 1), s[k])
    OBVIOUS
  <2> QED
    BY <2>1, <2>2
<1> QED
  BY <1>1, <1>2

\* The last elements of a sequence, one by one.
LEMMA LastFacts ==
  ASSUME NEW S, NEW s \in Seq(S), NEW n \in Nat, Len(s) = n
  PROVE  /\ SubSeq(s, 1, n) = s /\ SubSeq(s, n + 1, n) = <<>>
         /\ \A k \in 1..n : /\ SubSeq(s, k, n) \in Seq(S) /\ SubSeq(s, k, n) # <<>>
                            /\ Head(SubSeq(s, k, n)) = s[k] /\ s[k] \in S
                            /\ Tail(SubSeq(s, k, n)) = SubSeq(s, k + 1, n)
<1>1. SubSeq(s, 1, n) = s /\ SubSeq(s, n + 1, n) = <<>>
  OBVIOUS
<1>2. ASSUME NEW k \in 1..n
      PROVE  /\ SubSeq(s, k, n) \in Seq(S) /\ SubSeq(s, k, n) # <<>>
             /\ Head(SubSeq(s, k, n)) = s[k] /\ s[k] \in S
             /\ Tail(SubSeq(s, k, n)) = SubSeq(s, k + 1, n)
  <2>1. SubSeq(s, k, n) \in Seq(S) /\ SubSeq(s, k, n) # <<>> /\ s[k] \in S
    OBVIOUS
  <2>2. Head(SubSeq(s, k, n)) = s[k]
    OBVIOUS
  <2>3. Tail(SubSeq(s, k, n)) = SubSeq(s, k + 1, n)
    OBVIOUS
  <2> QED
    BY <2>1, <2>2, <2>3
<1> QED
  BY <1>1, <1>2

\* Cancelling the frames of w leaves the others, in their order.
Others(s, w, r) ==
  /\ r \in Seq(FrameRec)
  /\ \A k \in DOMAIN r : r[k][1] # w /\ \E j \in DOMAIN s : r[k] = s[j]
  /\ \A v \in WR : FramesOf(r, v) = IF v = w THEN 0 ELSE FramesOf(s, v)
  /\ InOrder(s) => InOrder(r)

\* One turn of the loop of tbv_path_cancel_data_owner_ctx().
LEMMA OthersAppend ==
  ASSUME NEW s \in Seq(FrameRec), NEW w \in WR, NEW r, Others(s, w, r), NEW f \in FrameRec
  PROVE  Others(Append(s, f), w, KeepOther(w, r, f))
<1> PICK n \in Nat : n = Len(s)
  OBVIOUS
<1> PICK m \in Nat : m = Len(r)
  BY DEF Others
<1> PICK t \in Seq(FrameRec) : t = Append(s, f)
  BY AppendFacts
<1>1. DOMAIN t = 1..(n + 1) /\ DOMAIN s = 1..n /\ t[n + 1] = f /\ \A k \in 1..n : t[k] = s[k]
  OBVIOUS
<1>2. r \in Seq(FrameRec) /\ DOMAIN r = 1..m
  BY DEF Others
<1>0. \A v \in WR : FramesOf(s, v) \in Nat
  BY CountFacts
<1>3. \A v \in WR : FramesOf(t, v) = FramesOf(s, v) + (IF f[1] = v THEN 1 ELSE 0)
  BY CountAppend
<1>4. InOrder(t) => InOrder(s)
  BY <1>1 DEF InOrder
<1>5. CASE f[1] = w
  <2>1. KeepOther(w, r, f) = r
    BY <1>5 DEF KeepOther
  <2>2. \A k \in DOMAIN r : r[k][1] # w /\ \E j \in DOMAIN t : r[k] = t[j]
    BY <1>1 DEF Others
  <2>3. \A v \in WR : FramesOf(r, v) = IF v = w THEN 0 ELSE FramesOf(t, v)
    BY <1>0, <1>3, <1>5 DEF Others
  <2> QED
    BY <1>2, <1>4, <2>1, <2>2, <2>3 DEF Others
<1>6. CASE f[1] # w
  <2> PICK q \in Seq(FrameRec) : q = Append(r, f)
    BY <1>2, AppendFacts
  <2>1. KeepOther(w, r, f) = q
    BY <1>6 DEF KeepOther
  <2>2. DOMAIN q = 1..(m + 1) /\ q[m + 1] = f /\ \A k \in 1..m : q[k] = r[k]
    BY <1>2
  <2>3. \A k \in DOMAIN q : q[k][1] # w /\ \E j \in DOMAIN t : q[k] = t[j]
    <3> TAKE k \in DOMAIN q
    <3>1. CASE k \in 1..m
      BY <1>1, <1>2, <2>2, <3>1 DEF Others
    <3>2. CASE k = m + 1
      <4>1. n + 1 \in DOMAIN t /\ q[k] = t[n + 1]
        BY <1>1, <2>2, <3>2
      <4> QED
        BY <1>6, <2>2, <3>2, <4>1
    <3> QED
      BY <2>2, <3>1, <3>2
  <2>4. \A v \in WR : FramesOf(q, v) = FramesOf(r, v) + (IF f[1] = v THEN 1 ELSE 0)
    BY <1>2, CountAppend
  <2>5. \A v \in WR : FramesOf(q, v) = IF v = w THEN 0 ELSE FramesOf(t, v)
    BY <1>0, <1>3, <1>6, <2>4 DEF Others
  <2>6. ASSUME InOrder(t) PROVE InOrder(q)
    <3>1. InOrder(r)
      BY <1>4, <2>6 DEF Others
    <3>2. ASSUME NEW j \in 1..(m + 1), NEW k \in 1..(m + 1), j < k PROVE q[j][1] <= q[k][1]
      <4>1. CASE k \in 1..m
        <5>1. j \in 1..m
          BY <3>2, <4>1
        <5> QED
          BY <1>2, <2>2, <3>1, <3>2, <4>1, <5>1 DEF InOrder
      <4>2. CASE k = m + 1
        <5>1. j \in 1..m
          BY <3>2, <4>2
        <5>2. PICK i \in 1..n : r[j] = s[i]
          BY <1>1, <1>2, <5>1 DEF Others
        <5>3. i < n + 1 /\ i \in DOMAIN t /\ n + 1 \in DOMAIN t
          BY <1>1
        <5>4. t[i][1] <= t[n + 1][1]
          BY <2>6, <5>3 DEF InOrder
        <5> QED
          BY <1>1, <2>2, <4>2, <5>1, <5>2, <5>4
      <4> QED
        BY <4>1, <4>2
    <3> QED
      BY <2>2, <3>2 DEF InOrder
  <2> QED
    BY <2>1, <2>3, <2>5, <2>6 DEF Others
<1> QED
  BY <1>5, <1>6

\* What Without() leaves are the frames of the others, in their order.
LEMMA WithoutFacts ==
  ASSUME NEW s \in Seq(FrameRec), NEW w \in WR
  PROVE  Others(s, w, Without(s, w))
<1> PICK n \in Nat : n = Len(s)
  OBVIOUS
<1> PICK J : J = [k \in 0..n |-> {r \in Seq(FrameRec) : Others(SubSeq(s, 1, k), w, r)}]
  OBVIOUS
<1>1. <<>> \in J[0]
  <2>1. SubSeq(s, 1, 0) = <<>>
    BY FirstFacts
  <2>2. <<>> \in Seq(FrameRec) /\ DOMAIN <<>> = {}
    OBVIOUS
  <2>3. \A v \in WR : FramesOf(<<>>, v) = 0
    BY <2>2, CountFacts
  <2>4. Others(<<>>, w, <<>>)
    BY <2>2, <2>3 DEF Others, InOrder
  <2> QED
    BY <2>1, <2>2, <2>4
<1>2. ASSUME NEW k \in 1..n, NEW r \in J[k - 1] PROVE KeepOther(w, r, s[k]) \in J[k]
  <2>1. k - 1 \in 0..n /\ k \in 0..n
    OBVIOUS
  <2>2. Others(SubSeq(s, 1, k - 1), w, r)
    BY <2>1
  <2>3. /\ SubSeq(s, 1, k - 1) \in Seq(FrameRec) /\ s[k] \in FrameRec
        /\ SubSeq(s, 1, k) = Append(SubSeq(s, 1, k - 1), s[k])
    BY FirstFacts
  <2>4. Others(SubSeq(s, 1, k), w, KeepOther(w, r, s[k]))
    BY <2>2, <2>3, OthersAppend
  <2> QED
    BY <2>1, <2>4 DEF Others
<1>3. Keeping!Run(w, <<>>, s) \in J[n]
  BY <1>1, <1>2, KeepingRun
<1>4. SubSeq(s, 1, n) = s
  BY FirstFacts
<1> QED
  BY <1>3, <1>4 DEF Without

\* The members of a sequence.
Ran(s) == {s[k] : k \in DOMAIN s}

\* The elements of a sequence.
LEMMA RanFacts ==
  ASSUME NEW S, NEW s \in Seq(S)
  PROVE  /\ Ran(s) \subseteq S /\ (s = <<>> <=> Ran(s) = {}) /\ Ran(<<>>) = {}
         /\ \A x : Contains(s, x) <=> x \in Ran(s)
<1>1. DOMAIN s = 1..Len(s) /\ Len(s) \in Nat
  OBVIOUS
<1>2. Ran(s) \subseteq S
  BY DEF Ran
<1>3. s = <<>> <=> Ran(s) = {}
  <2>1. CASE s = <<>>
    BY <2>1 DEF Ran
  <2>2. CASE s # <<>>
    <3>1. 1 \in DOMAIN s
      BY <1>1, <2>2
    <3> QED
      BY <2>2, <3>1 DEF Ran
  <2> QED
    BY <2>1, <2>2
<1>4. Ran(<<>>) = {}
  BY DEF Ran
<1>5. \A x : Contains(s, x) <=> x \in Ran(s)
  BY <1>1 DEF Contains, Ran
<1> QED
  BY <1>2, <1>3, <1>4, <1>5

\* The elements after an append.
LEMMA RanAppend ==
  ASSUME NEW S, NEW s \in Seq(S), NEW x \in S
  PROVE  Ran(Append(s, x)) = Ran(s) \cup {x}
<1> PICK n \in Nat : n = Len(s)
  OBVIOUS
<1> PICK t \in Seq(S) : t = Append(s, x)
  BY AppendFacts
<1>1. DOMAIN t = 1..(n + 1) /\ DOMAIN s = 1..n /\ t[n + 1] = x /\ \A k \in 1..n : t[k] = s[k]
  BY AppendFacts
<1>2. \A k \in 1..n : k \in 1..(n + 1)
  OBVIOUS
<1>3. n + 1 \in 1..(n + 1) /\ \A k \in 1..(n + 1) : k \in 1..n \/ k = n + 1
  OBVIOUS
<1> QED
  BY <1>1, <1>2, <1>3 DEF Ran

\* The elements without the head.
LEMMA RanTail ==
  ASSUME NEW S, NEW s \in Seq(S), s # <<>>
  PROVE  /\ Tail(s) \in Seq(S) /\ Head(s) \in S
         /\ Ran(s) = Ran(Tail(s)) \cup {Head(s)}
<1> PICK n \in Nat : n = Len(s)
  OBVIOUS
<1>0. n > 0 /\ Tail(s) \in Seq(S) /\ Head(s) \in S
  OBVIOUS
<1> PICK t \in Seq(S) : t = Tail(s)
  BY <1>0
<1>1. DOMAIN t = 1..(n - 1) /\ DOMAIN s = 1..n /\ s[1] = Head(s) /\ \A k \in 1..(n - 1) : t[k] = s[k + 1]
  BY <1>0
<1>2. \A k \in 1..(n - 1) : k + 1 \in 1..n
  OBVIOUS
<1>3. 1 \in 1..n /\ \A k \in 1..n : k = 1 \/ (k - 1 \in 1..(n - 1) /\ (k - 1) + 1 = k)
  BY <1>0
<1>4. ASSUME NEW x \in Ran(s) PROVE x \in Ran(t) \cup {Head(s)}
  <2>1. PICK k \in 1..n : x = s[k]
    BY <1>1 DEF Ran
  <2>2. CASE k = 1
    BY <1>1, <2>1, <2>2
  <2>3. CASE k # 1
    <3>1. k - 1 \in 1..(n - 1) /\ t[k - 1] = x
      BY <1>1, <1>3, <2>1, <2>3
    <3> QED
      BY <1>1, <3>1 DEF Ran
  <2> QED
    BY <2>2, <2>3
<1>5. ASSUME NEW x \in Ran(t) PROVE x \in Ran(s)
  <2>1. PICK k \in 1..(n - 1) : x = t[k]
    BY <1>1 DEF Ran
  <2>2. k + 1 \in 1..n /\ s[k + 1] = x
    BY <1>1, <1>2, <2>1
  <2> QED
    BY <1>1, <2>2 DEF Ran
<1>6. Head(s) \in Ran(s)
  BY <1>1, <1>3 DEF Ran
<1> QED
  BY <1>0, <1>4, <1>5, <1>6

\* A part of a sequence keeps its order; what follows a prefix comes after it.
LEMMA SubRising ==
  ASSUME NEW s \in Seq(WR), NEW n \in Nat, n <= Len(s)
  PROVE  /\ SubSeq(s, 1, n) \in Seq(WR) /\ SubSeq(s, n + 1, Len(s)) \in Seq(WR)
         /\ Len(SubSeq(s, 1, n)) = n /\ \A k \in 1..n : SubSeq(s, 1, n)[k] = s[k]
         /\ Ran(s) = Ran(SubSeq(s, 1, n)) \cup Ran(SubSeq(s, n + 1, Len(s)))
         /\ Rising(s) => /\ Rising(SubSeq(s, 1, n)) /\ Rising(SubSeq(s, n + 1, Len(s)))
                         /\ \A x \in Ran(SubSeq(s, 1, n)), y \in Ran(SubSeq(s, n + 1, Len(s))) : x < y
<1> PICK m \in Nat : m = Len(s)
  OBVIOUS
<1>0. SubSeq(s, 1, n) \in Seq(WR) /\ SubSeq(s, n + 1, m) \in Seq(WR)
  OBVIOUS
<1> PICK a \in Seq(WR) : a = SubSeq(s, 1, n)
  BY <1>0
<1> PICK b \in Seq(WR) : b = SubSeq(s, n + 1, m)
  BY <1>0
<1>1. DOMAIN s = 1..m /\ DOMAIN a = 1..n /\ DOMAIN b = 1..(m - n) /\ n <= m
  OBVIOUS
<1>2. \A k \in 1..n : a[k] = s[k]
  OBVIOUS
<1>3. \A k \in 1..(m - n) : b[k] = s[n + k]
  OBVIOUS
<1>4. Ran(s) = Ran(a) \cup Ran(b)
  <2>1. \A k \in 1..m : k \in 1..n \/ (k - n \in 1..(m - n) /\ n + (k - n) = k)
    OBVIOUS
  <2>2. \A k \in 1..(m - n) : n + k \in 1..m
    OBVIOUS
  <2>3. \A k \in 1..n : k \in 1..m
    BY <1>1
  <2>4. ASSUME NEW x \in Ran(s) PROVE x \in Ran(a) \cup Ran(b)
    <3>1. PICK k \in 1..m : x = s[k]
      BY <1>1 DEF Ran
    <3>2. CASE k \in 1..n
      BY <1>1, <1>2, <3>1, <3>2 DEF Ran
    <3>3. CASE k \notin 1..n
      <4>1. k - n \in 1..(m - n) /\ b[k - n] = x
        BY <1>3, <2>1, <3>1, <3>3
      <4> QED
        BY <1>1, <4>1 DEF Ran
    <3> QED
      BY <3>2, <3>3
  <2>5. Ran(a) \subseteq Ran(s)
    BY <1>1, <1>2, <2>3 DEF Ran
  <2>6. ASSUME NEW x \in Ran(b) PROVE x \in Ran(s)
    <3>1. PICK k \in 1..(m - n) : x = b[k]
      BY <1>1 DEF Ran
    <3>2. n + k \in 1..m /\ s[n + k] = x
      BY <1>3, <2>2, <3>1
    <3> QED
      BY <1>1, <3>2 DEF Ran
  <2> QED
    BY <2>4, <2>5, <2>6
<1>5. ASSUME Rising(s) PROVE Rising(a) /\ Rising(b) /\ \A x \in Ran(a), y \in Ran(b) : x < y
  <2>1. Rising(a)
    BY <1>1, <1>2, <1>5 DEF Rising
  <2>2. Rising(b)
    <3>1. \A j, k \in 1..(m - n) : j < k => n + j \in 1..m /\ n + k \in 1..m /\ n + j < n + k
      OBVIOUS
    <3>2. ASSUME NEW j \in 1..(m - n), NEW k \in 1..(m - n), j < k PROVE b[j] < b[k]
      <4>1. n + j \in DOMAIN s /\ n + k \in DOMAIN s /\ n + j < n + k
        BY <1>1, <3>1, <3>2
      <4>2. s[n + j] < s[n + k]
        BY <1>5, <4>1 DEF Rising
      <4> QED
        BY <1>3, <4>2
    <3> QED
      BY <1>1, <3>2 DEF Rising
  <2>3. \A j \in 1..n, k \in 1..(m - n) : j \in 1..m /\ n + k \in 1..m /\ j < n + k
    BY <1>1
  <2>4. ASSUME NEW x \in Ran(a), NEW y \in Ran(b) PROVE x < y
    <3>1. PICK j \in 1..n : x = a[j]
      BY <1>1 DEF Ran
    <3>2. PICK k \in 1..(m - n) : y = b[k]
      BY <1>1 DEF Ran
    <3>3. j \in DOMAIN s /\ n + k \in DOMAIN s /\ j < n + k
      BY <1>1, <2>3
    <3>4. s[j] < s[n + k]
      BY <1>5, <3>3 DEF Rising
    <3> QED
      BY <1>2, <1>3, <3>1, <3>2, <3>4
  <2> QED
    BY <2>1, <2>2, <2>4
<1> QED
  BY <1>0, <1>1, <1>2, <1>4, <1>5

\* list_del()
LEMMA RemoveFacts ==
  ASSUME NEW s \in Seq(WR), NEW n \in Nat, n = Len(s), NEW i \in Nat, i > 0, i <= n
  PROVE  /\ RemoveAt(s, i) \in Seq(WR) /\ DOMAIN RemoveAt(s, i) = 1..(n - 1)
         /\ \A k \in 1..(n - 1) : RemoveAt(s, i)[k] = IF k < i THEN s[k] ELSE s[k + 1]
<1>1. /\ SubSeq(s, 1, i - 1) \in Seq(WR) /\ Len(SubSeq(s, 1, i - 1)) = i - 1
      /\ \A k \in 1..(i - 1) : SubSeq(s, 1, i - 1)[k] = s[k]
  OBVIOUS
<1>2. /\ SubSeq(s, i + 1, n) \in Seq(WR) /\ Len(SubSeq(s, i + 1, n)) = n - i
      /\ \A k \in 1..(n - i) : SubSeq(s, i + 1, n)[k] = s[i + k]
  OBVIOUS
<1> PICK a \in Seq(WR) : a = SubSeq(s, 1, i - 1)
  BY <1>1
<1> PICK b \in Seq(WR) : b = SubSeq(s, i + 1, n)
  BY <1>2
<1>0. n - i \in Nat /\ i - 1 \in Nat
  OBVIOUS
<1> PICK m \in Nat : m = n - i
  BY <1>0
<1> PICK l \in Nat : l = i - 1
  BY <1>0
<1>3. m = Len(b) /\ l = Len(a)
  BY <1>1, <1>2
<1>4. /\ a \o b \in Seq(WR) /\ Len(a \o b) = l + m
      /\ \A k \in 1..l : (a \o b)[k] = a[k]
      /\ \A k \in 1..m : (a \o b)[l + k] = b[k]
  BY ONLY <1>3, ConcatFacts, a \in Seq(WR), b \in Seq(WR), m \in Nat, l \in Nat
<1> PICK d \in Seq(WR) : d = a \o b
  BY <1>4
<1>5. RemoveAt(s, i) = d /\ DOMAIN d = 1..(n - 1)
  <2>1. RemoveAt(s, i) = d
    BY DEF RemoveAt
  <2>2. l + m = n - 1
    BY ONLY l = i - 1, m = n - i, i \in Nat, n \in Nat
  <2>3. DOMAIN d = 1..(l + m)
    BY ONLY <1>4, d = a \o b, d \in Seq(WR)
  <2> QED
    BY <2>1, <2>2, <2>3
<1>6. ASSUME NEW k \in 1..(n - 1) PROVE d[k] = IF k < i THEN s[k] ELSE s[k + 1]
  <2>1. CASE k < i
    <3>1. k \in 1..l /\ k \in 1..(i - 1)
      BY <2>1
    <3> QED
      BY <1>1, <1>4, <2>1, <3>1
  <2>2. CASE ~(k < i)
    <3>1. k - l \in 1..m /\ l + (k - l) = k /\ i + (k - l) = k + 1
      BY ONLY <2>2, k \in 1..(n - 1), l = i - 1, m = n - i, i \in Nat, n \in Nat, l \in Nat, m \in Nat
    <3>2. d[k] = b[k - l]
      BY <1>4, <3>1
    <3>3. b[k - l] = s[k + 1]
      BY <1>2, <3>1
    <3> QED
      BY <2>2, <3>2, <3>3
  <2> QED
    BY <2>1, <2>2
<1> QED
  BY <1>5, <1>6

\* list_del() takes one entry and keeps the order.
LEMMA DropFacts ==
  ASSUME NEW s \in Seq(WR), NEW x \in WR, Contains(s, x)
  PROVE  /\ Drop(s, x) \in Seq(WR) /\ Ran(s) = Ran(Drop(s, x)) \cup {x}
         /\ Rising(s) => Rising(Drop(s, x)) /\ x \notin Ran(Drop(s, x))
<1> PICK n \in Nat : n = Len(s)
  OBVIOUS
<1>0. DOMAIN s = 1..n
  OBVIOUS
<1>1. \E k \in DOMAIN s : s[k] = x
  BY <1>0 DEF Contains
<1>2. PICK i \in DOMAIN s : s[i] = x /\ i = CHOOSE k \in DOMAIN s : s[k] = x
  BY <1>1
<1>3. i \in Nat /\ i > 0 /\ i <= n
  BY <1>0
<1> PICK d : d = RemoveAt(s, i)
  OBVIOUS
<1>4. Drop(s, x) = d
  BY <1>2 DEF Drop
<1>5. /\ d \in Seq(WR) /\ DOMAIN d = 1..(n - 1)
      /\ \A k \in 1..(n - 1) : d[k] = IF k < i THEN s[k] ELSE s[k + 1]
  BY <1>3, RemoveFacts
<1>6. \A k \in 1..(n - 1) : k \in 1..n /\ k + 1 \in 1..n /\ k \in Int
  BY <1>3
<1>7. \A j \in 1..n : s[j] \in Int
  <2>1. \A j \in 1..n : s[j] \in WR
    BY <1>0
  <2> QED
    BY <2>1, SizeAssumption DEF WR
<1>8. ASSUME NEW y \in Ran(s), y # x PROVE y \in Ran(d)
  <2>1. PICK k \in 1..n : y = s[k]
    BY <1>0, <1>8 DEF Ran
  <2>2. k # i
    BY <1>2, <1>8, <2>1
  <2>3. CASE k < i
    <3>1. k \in 1..(n - 1) /\ d[k] = y
      BY <1>3, <1>5, <2>1, <2>3
    <3> QED
      BY <1>5, <3>1 DEF Ran
  <2>4. CASE k > i
    <3>1. k - 1 \in 1..(n - 1) /\ ~(k - 1 < i) /\ (k - 1) + 1 = k
      BY <1>3, <2>4
    <3>2. d[k - 1] = y
      BY <1>5, <2>1, <3>1
    <3> QED
      BY <1>5, <3>1, <3>2 DEF Ran
  <2> QED
    BY <1>3, <2>2, <2>3, <2>4
<1>9. ASSUME NEW y \in Ran(d) PROVE y \in Ran(s)
  <2>1. PICK k \in 1..(n - 1) : y = d[k]
    BY <1>5 DEF Ran
  <2> QED
    BY <1>0, <1>5, <1>6, <2>1 DEF Ran
<1>10. x \in Ran(s)
  BY <1>2 DEF Ran
<1>11. ASSUME Rising(s) PROVE Rising(d) /\ x \notin Ran(d)
  <2>1. ASSUME NEW j \in 1..n, NEW k \in 1..n, j < k PROVE s[j] < s[k]
    BY <1>0, <1>11, <2>1 DEF Rising
  <2>2. ASSUME NEW j \in 1..(n - 1), NEW k \in 1..(n - 1), j < k PROVE d[j] < d[k]
    <3> PICK a \in 1..n : d[j] = s[a] /\ a = (IF j < i THEN j ELSE j + 1)
      BY <1>5, <1>6
    <3> PICK b \in 1..n : d[k] = s[b] /\ b = (IF k < i THEN k ELSE k + 1)
      BY <1>5, <1>6
    <3>1. a < b
      BY <1>3, <2>2
    <3> QED
      BY <2>1, <3>1
  <2>3. ASSUME NEW k \in 1..(n - 1) PROVE d[k] # x
    <3> PICK b \in 1..n : d[k] = s[b] /\ b = (IF k < i THEN k ELSE k + 1)
      BY <1>5, <1>6
    <3>1. b < i \/ i < b
      BY <1>3
    <3>2. s[b] < s[i] \/ s[i] < s[b]
      BY ONLY <1>3, <2>1, <3>1, b \in 1..n, n \in Nat
    <3> QED
      BY <1>0, <1>2, <1>7, <3>2
  <2> QED
    BY <1>5, <2>2, <2>3 DEF Rising, Ran
<1> QED
  BY <1>4, <1>5, <1>8, <1>9, <1>10, <1>11

\* The ready sends at the head of a list.
LEMMA PrefixFacts ==
  ASSUME NEW T \in TxRec
  PROVE  \E n \in Nat : /\ n <= Len(T.list) /\ ReadyPrefix(T) = SubSeq(T.list, 1, n)
                        /\ \A i \in 1..n : T.snd[T.list[i]].ready
                        /\ n = Len(T.list) \/ ~T.snd[T.list[n + 1]].ready
                        /\ Len(ReadyPrefix(T)) = n
<1> PICK m \in Nat : m = Len(T.list)
  BY DEF TxRec
<1> DEFINE P(k) == /\ \A i \in 1..k : T.snd[T.list[i]].ready
                   /\ k = m \/ ~T.snd[T.list[k + 1]].ready
<1> PICK S : S = {k \in 0..m : k = m \/ ~T.snd[T.list[k + 1]].ready}
  OBVIOUS
<1>1. S \subseteq Nat /\ m \in S
  OBVIOUS
<1>2. PICK x \in S : \A y \in S : x <= y
  BY <1>1, Least
<1>3. x \in 0..m /\ P(x)
  <2>1. ASSUME NEW i \in 1..x PROVE T.snd[T.list[i]].ready
    <3>1. i - 1 \in 0..m /\ i - 1 < x /\ (i - 1) + 1 = i
      BY <1>1
    <3>2. i - 1 \notin S
      BY ONLY <1>1, <1>2, <3>1, x \in S, i \in 1..x
    <3> QED
      BY <3>1, <3>2
  <2> QED
    BY <1>2, <2>1
<1> PICK n : n = CHOOSE k \in 0..m : P(k)
  BY Zenon
<1>4. n \in 0..m /\ P(n)
  BY <1>3, Zenon
<1>5. ReadyPrefix(T) = SubSeq(T.list, 1, n)
  BY DEF ReadyPrefix
<1>6. n \in Nat /\ n <= m /\ T.list \in Seq(WR)
  <2>1. n \in 0..m
    BY <1>4, Zenon
  <2>2. T.list \in Seq(WR)
    BY DEF TxRec
  <2>3. n \in Nat /\ n <= m
    BY ONLY <2>1, m \in Nat
  <2> QED
    BY <2>2, <2>3, Zenon
<1>7. Len(SubSeq(T.list, 1, n)) = n
  BY ONLY <1>6, m = Len(T.list), m \in Nat
<1> QED
  BY <1>4, <1>5, <1>6, <1>7, Zenon

-----------------------------------------------------------------------------
(* What the completions make of tx.                                        *)

\* What a completion of w makes of T.
DoneTo(t, T, w, ok, U) ==
  /\ U \in TxRec
  /\ U.list = T.list /\ U.sq = T.sq /\ U.ring = T.ring /\ U.late = T.late
  /\ U.snd[w] = [T.snd[w] EXCEPT !.done = TRUE, !.counted = FALSE, !.win = FALSE,
                                 !.left = T.snd[w].left - FramesOf(T.pq, w)]
  /\ \A v \in WR : v # w => U.snd[v] = T.snd[v]
  /\ Others(T.pq, w, U.pq)
  /\ U.cq = Append(T.cq, [w |-> w, ok |-> ok])
  /\ U.out = T.out - (IF T.snd[w].counted THEN 1 ELSE 0)
  /\ U.wrs = T.wrs - (IF T.snd[w].win /\ t THEN 1 ELSE 0)

\* What the constants say of a behaviour.
LEMMA ConfFacts ==
  ASSUME conf \in Conf
  PROVE  /\ \A w \in WR : conf.len[w] \in Nat /\ FrameCharge(w) \in Nat
         /\ conf.slots \in Nat /\ conf.wrs \in Nat /\ conf.group \in Nat
         /\ TakesWr \in BOOLEAN /\ conf.delay \in BOOLEAN /\ conf.pipeline \in BOOLEAN
<1>1. /\ conf.len \in [WR -> Nat] /\ conf.group \in Nat /\ conf.wrs \in Nat /\ conf.slots \in Nat
      /\ conf.pipeline \in BOOLEAN /\ conf.delay \in BOOLEAN
  BY ConfAssumption
<1>2. TakesWr \in BOOLEAN
  BY DEF TakesWr, Exclusive
<1> QED
  BY <1>1, <1>2 DEF FrameCharge

\* tbv_send_complete() completes a send once.
LEMMA DoneShape ==
  ASSUME conf \in Conf, NEW T \in TxRec, NEW w \in WR, NEW ok \in BOOLEAN
  PROVE  IF T.snd[w].done THEN SendComplete(T, w, ok) = T
         ELSE DoneTo(TakesWr, T, w, ok, SendComplete(T, w, ok))
<1> SUFFICES ASSUME ~T.snd[w].done PROVE DoneTo(TakesWr, T, w, ok, SendComplete(T, w, ok))
  BY DEF SendComplete
<1>1. FrameCharge(w) \in Nat /\ TakesWr \in BOOLEAN
  BY ConfFacts
<1>2. /\ T.snd \in [WR -> SndRec] /\ T.list \in Seq(WR) /\ T.sq \in Seq(WR)
      /\ T.pq \in Seq(FrameRec) /\ T.ring \in Seq(FrameRec) /\ T.wrs \in Int /\ T.frm \in Int
      /\ T.out \in Int /\ T.late \in SUBSET WR /\ T.cq \in Seq(CqRec)
  BY DEF TxRec
<1>3. T.snd[w] \in SndRec
  BY <1>2
<1>9. T.snd[w].left \in Int /\ FramesOf(T.pq, w) \in Nat
  BY <1>2, <1>3, CountFacts DEF SndRec
<1> PICK left \in Int : left = T.snd[w].left - FramesOf(T.pq, w)
  BY <1>9
<1> PICK s \in SndRec : s = [T.snd[w] EXCEPT !.done = TRUE, !.counted = FALSE, !.win = FALSE, !.left = left]
  BY <1>3 DEF SndRec
<1> PICK pq \in Seq(FrameRec) : pq = Without(T.pq, w) /\ Others(T.pq, w, pq)
  BY <1>2, WithoutFacts DEF Others
<1> PICK out \in Int : out = T.out - (IF T.snd[w].counted THEN 1 ELSE 0)
  BY <1>2
<1> PICK wrs \in Int : wrs = T.wrs - (IF T.snd[w].win /\ TakesWr THEN 1 ELSE 0)
  BY <1>2
<1> PICK frm \in Int : frm = T.frm - (IF T.snd[w].win THEN FrameCharge(w) ELSE 0)
  BY <1>1, <1>2
<1>4. [w |-> w, ok |-> ok] \in CqRec
  BY DEF CqRec
<1> PICK cq \in Seq(CqRec) : cq = Append(T.cq, [w |-> w, ok |-> ok])
  BY <1>2, <1>4, AppendFacts
<1> PICK snd \in [WR -> SndRec] : snd = [T.snd EXCEPT ![w] = s]
  BY <1>2
<1> PICK U : U = [snd |-> snd, list |-> T.list, sq |-> T.sq, pq |-> pq, ring |-> T.ring, wrs |-> wrs,
                  frm |-> frm, out |-> out, late |-> T.late, cq |-> cq]
  OBVIOUS
<1>5. U \in TxRec
  BY <1>2 DEF TxRec
<1>6. SendComplete(T, w, ok) = U
  <2> PICK V : V = IF T.snd[w].win THEN ReleaseWindow(T, w) ELSE T
    OBVIOUS
  <2>1. V = [T EXCEPT !.wrs = wrs, !.frm = frm]
    <3>1. CASE T.snd[w].win
      <4>1. wrs = T.wrs - (IF TakesWr THEN 1 ELSE 0) /\ frm = T.frm - FrameCharge(w)
        BY <3>1
      <4> QED
        BY <3>1, <4>1 DEF ReleaseWindow
    <3>2. CASE ~T.snd[w].win
      <4>1. wrs = T.wrs /\ frm = T.frm
        BY <1>2, <3>2
      <4> QED
        BY <3>2, <4>1 DEF TxRec
    <3> QED
      BY <3>1, <3>2
  <2>2. /\ V \in TxRec /\ V.snd = T.snd /\ V.list = T.list /\ V.sq = T.sq /\ V.pq = T.pq /\ V.ring = T.ring
        /\ V.wrs = wrs /\ V.frm = frm /\ V.out = T.out /\ V.late = T.late /\ V.cq = T.cq
    BY ONLY <2>1, T \in TxRec, wrs \in Int, frm \in Int DEF TxRec
  <2> PICK Z : Z = [V EXCEPT !.snd = snd, !.pq = pq, !.out = out, !.cq = cq]
    OBVIOUS
  <2>3. /\ Z \in TxRec /\ Z.snd = snd /\ Z.list = T.list /\ Z.sq = T.sq /\ Z.pq = pq /\ Z.ring = T.ring
        /\ Z.wrs = wrs /\ Z.frm = frm /\ Z.out = out /\ Z.late = T.late /\ Z.cq = cq
    BY ONLY <2>2, Z = [V EXCEPT !.snd = snd, !.pq = pq, !.out = out, !.cq = cq],
            snd \in [WR -> SndRec], pq \in Seq(FrameRec), out \in Int, cq \in Seq(CqRec) DEF TxRec
  <2>4. Z = U
    BY ONLY <1>5, <2>3, U = [snd |-> snd, list |-> T.list, sq |-> T.sq, pq |-> pq, ring |-> T.ring, wrs |-> wrs,
                  frm |-> frm, out |-> out, late |-> T.late, cq |-> cq] DEF TxRec
  <2>5. SendComplete(T, w, ok) =
          [V EXCEPT !.snd[w] = s, !.pq = pq, !.out = @ - (IF T.snd[w].counted THEN 1 ELSE 0),
                    !.cq = Append(@, [w |-> w, ok |-> ok])]
    BY DEF SendComplete
  <2>6. [V EXCEPT !.snd[w] = s, !.pq = pq, !.out = @ - (IF T.snd[w].counted THEN 1 ELSE 0),
                  !.cq = Append(@, [w |-> w, ok |-> ok])] = Z
    BY ONLY <2>2, Z = [V EXCEPT !.snd = snd, !.pq = pq, !.out = out, !.cq = cq],
            snd = [T.snd EXCEPT ![w] = s], out = T.out - (IF T.snd[w].counted THEN 1 ELSE 0),
            cq = Append(T.cq, [w |-> w, ok |-> ok]) DEF TxRec
  <2> QED
    BY <2>4, <2>5, <2>6
<1>7. U.snd[w] = s /\ \A v \in WR : v # w => U.snd[v] = T.snd[v]
  BY <1>2
<1> QED
  BY <1>5, <1>6, <1>7 DEF DoneTo

\* A set of values of tx that no completion of a send in A, no delay of a
\* completion of one in L and no removal from the list leads out of.
Closed(I, A, L) ==
  /\ I \subseteq TxRec /\ A \subseteq WR /\ L \subseteq A
  /\ \A T \in I : Ran(T.list) \subseteq L
  /\ \A T \in I, w \in A, ok \in BOOLEAN : SendComplete(T, w, ok) \in I
  /\ \A T \in I, w \in L : T.snd[w].ok => [T EXCEPT !.late = @ \cup {w}] \in I
  /\ \A T \in I, l \in Seq(WR) :
       Ran(l) \subseteq Ran(T.list) /\ (Rising(T.list) => Rising(l)) => [T EXCEPT !.list = l] \in I

\* The elements of s are in S, one by one.
LEMMA RanIn ==
  ASSUME NEW S, NEW s, Ran(s) \subseteq S, NEW n \in Nat, n = Len(s), DOMAIN s = 1..Len(s)
  PROVE  \A k \in 1..n : s[k] \in S
  BY DEF Ran

\* What completions keep, tbv_qp_unqueue_send() keeps.
LEMMA UnqueueIn ==
  ASSUME NEW I, NEW A, NEW L, Closed(I, A, L), NEW T \in I, NEW w \in A, NEW ok \in BOOLEAN
  PROVE  Unqueue(ok, T, w) \in I
<1>1. T.list \in Seq(WR) /\ w \in WR
  BY DEF Closed, TxRec
<1>2. CASE ~Contains(T.list, w)
  BY <1>2 DEF Unqueue
<1>3. CASE Contains(T.list, w)
  <2> PICK l : l = Drop(T.list, w)
    OBVIOUS
  <2>1. l \in Seq(WR) /\ Ran(l) \subseteq Ran(T.list) /\ (Rising(T.list) => Rising(l))
    BY <1>1, <1>3, DropFacts
  <2> PICK U : U = [T EXCEPT !.list = l]
    OBVIOUS
  <2>2. U \in I
    BY <2>1 DEF Closed
  <2>3. Unqueue(ok, T, w) = SendComplete(U, w, ok)
    BY <1>3 DEF Unqueue
  <2> QED
    BY <2>2, <2>3 DEF Closed
<1> QED
  BY <1>2, <1>3

\* What completions keep, the flush of the send queue keeps.
LEMMA EntriesIn ==
  ASSUME NEW I, NEW A, NEW L, Closed(I, A, L), NEW T \in I, NEW s \in Seq(WR), Ran(s) \subseteq A
  PROVE  Entries!Run(FALSE, T, s) \in I
<1> PICK n \in Nat : n = Len(s)
  OBVIOUS
<1>1. \A k \in 1..n : s[k] \in A
  BY RanIn
<1>2. \A k \in 1..n : \A U \in I : Unqueue(FALSE, U, s[k]) \in I
  BY <1>1, UnqueueIn
<1> QED
  BY ONLY <1>2, EntriesStays, n \in Nat, n = Len(s), T \in I

\* What completions keep, completing a list keeps.
LEMMA SendsIn ==
  ASSUME NEW I, NEW A, NEW L, Closed(I, A, L), NEW T \in I, NEW s \in Seq(WR), Ran(s) \subseteq A
  PROVE  Sends!Run(FALSE, T, s) \in I
<1> PICK n \in Nat : n = Len(s)
  OBVIOUS
<1>1. \A k \in 1..n : s[k] \in A
  BY RanIn
<1>2. ASSUME NEW k \in 1..n, NEW U \in I PROVE Finish(FALSE, U, s[k]) \in I
  <2> PICK w \in A : w = s[k]
    BY <1>1
  <2>1. U.snd[w] \in SndRec
    BY DEF Closed, TxRec
  <2> PICK ok \in BOOLEAN : ok = IF U.snd[w].ready THEN U.snd[w].ok ELSE FALSE
    BY <2>1 DEF SndRec
  <2>2. Finish(FALSE, U, s[k]) = SendComplete(U, w, ok)
    BY DEF Finish
  <2> QED
    BY <2>2 DEF Closed
<1> QED
  BY ONLY <1>2, SendsStays, n \in Nat, n = Len(s), T \in I

\* What completions keep, the ordered completions keep.
LEMMA OrderedIn ==
  ASSUME NEW I, NEW A, NEW L, Closed(I, A, L), NEW T \in I, NEW s \in Seq(WR), Ran(s) \subseteq L,
         NEW d
  PROVE  Ordered!Run(d, T, s) \in I
<1> PICK n \in Nat : n = Len(s)
  OBVIOUS
<1>1. \A k \in 1..n : s[k] \in L
  BY RanIn
<1>2. ASSUME NEW k \in 1..n, NEW U \in I PROVE CompleteOrdered(d, U, s[k]) \in I
  <2> PICK w \in L : w = s[k]
    BY <1>1
  <2>1. U.snd[w] \in SndRec /\ w \in A
    BY DEF Closed, TxRec
  <2>2. CASE U.snd[w].ok /\ d
    <3>1. CompleteOrdered(d, U, s[k]) = [U EXCEPT !.late = @ \cup {w}]
      BY <2>2 DEF CompleteOrdered
    <3> QED
      BY <2>2, <3>1 DEF Closed
  <2>3. CASE ~(U.snd[w].ok /\ d)
    <3> PICK ok \in BOOLEAN : ok = U.snd[w].ok
      BY <2>1 DEF SndRec
    <3>1. CompleteOrdered(d, U, s[k]) = SendComplete(U, w, ok)
      BY <2>3 DEF CompleteOrdered
    <3> QED
      BY <2>1, <3>1 DEF Closed
  <2> QED
    BY <2>2, <2>3
<1> QED
  BY ONLY <1>2, OrderedStays, n \in Nat, n = Len(s), T \in I

\* The list is empty and no completion fills it.
LEMMA SendsEmpty ==
  ASSUME conf \in Conf, NEW T \in TxRec, T.list = <<>>, NEW s \in Seq(WR)
  PROVE  Sends!Run(FALSE, T, s) \in TxRec /\ Sends!Run(FALSE, T, s).list = <<>>
<1> PICK n \in Nat : n = Len(s)
  OBVIOUS
<1> PICK I : I = {U \in TxRec : U.list = <<>>}
  BY Zenon
<1>1. ASSUME NEW k \in 1..n, NEW U \in I PROVE Finish(FALSE, U, s[k]) \in I
  <2> PICK w \in WR : w = s[k]
    OBVIOUS
  <2>1. U.snd[w] \in SndRec /\ U \in TxRec
    BY DEF TxRec
  <2> PICK ok \in BOOLEAN : ok = IF U.snd[w].ready THEN U.snd[w].ok ELSE FALSE
    BY <2>1 DEF SndRec
  <2>2. Finish(FALSE, U, s[k]) = SendComplete(U, w, ok)
    BY DEF Finish
  <2>3. IF U.snd[w].done THEN SendComplete(U, w, ok) = U
        ELSE DoneTo(TakesWr, U, w, ok, SendComplete(U, w, ok))
    BY <2>1, DoneShape
  <2>4. SendComplete(U, w, ok) \in TxRec /\ SendComplete(U, w, ok).list = <<>>
    BY <2>1, <2>3, Zenon DEF DoneTo
  <2> QED
    BY <2>2, <2>4
<1>2. T \in I
  OBVIOUS
<1>3. Sends!Run(FALSE, T, s) \in I
  BY ONLY <1>1, <1>2, SendsStays, n \in Nat, n = Len(s)
<1> QED
  BY <1>3

\* The flush of the send queue's entries, then of the list.
LEMMA FlushIn ==
  ASSUME conf \in Conf, NEW I, NEW A, NEW L, Closed(I, A, L), NEW T \in TxRec,
         [T EXCEPT !.sq = <<>>] \in I, Ran(T.sq) \subseteq A
  PROVE  Flush(T) \in I /\ Flush(T).list = <<>>
<1> PICK S : S = [T EXCEPT !.sq = <<>>]
  OBVIOUS
<1>1. T.sq \in Seq(WR)
  BY DEF TxRec
<1> PICK U : U = Entries!Run(FALSE, S, T.sq)
  OBVIOUS
<1>2. U \in I
  BY ONLY <1>1, EntriesIn, Closed(I, A, L), Ran(T.sq) \subseteq A, S \in I, U = Entries!Run(FALSE, S, T.sq),
     S = [T EXCEPT !.sq = <<>>], [T EXCEPT !.sq = <<>>] \in I
<1>3. U \in TxRec /\ U.list \in Seq(WR) /\ Ran(U.list) \subseteq A
  BY <1>2 DEF Closed, TxRec
<1> PICK V : V = [U EXCEPT !.list = <<>>]
  OBVIOUS
<1>4. V \in I /\ V \in TxRec /\ V.list = <<>>
  <2>1. <<>> \in Seq(WR) /\ Ran(<<>>) \subseteq Ran(U.list) /\ Rising(<<>>)
    BY DEF Ran, Rising
  <2>2. V \in I
    BY <1>2, <2>1 DEF Closed
  <2>3. V \in TxRec /\ V.list = <<>>
    BY <1>3, <2>1 DEF TxRec
  <2> QED
    BY <2>2, <2>3
<1>5. Flush(T) = Sends!Run(FALSE, V, U.list)
  BY DEF Flush, FlushSends, FlushAppleSq
<1>6. Sends!Run(FALSE, V, U.list) \in I
  BY ONLY <1>3, <1>4, SendsIn, Closed(I, A, L)
<1>7. Sends!Run(FALSE, V, U.list).list = <<>>
  BY ONLY <1>3, <1>4, SendsEmpty, conf \in Conf
<1> QED
  BY <1>5, <1>6, <1>7

\* One frame of w leaves the path.
LEMMA TxDoneIn ==
  ASSUME NEW I, NEW A, NEW L, Closed(I, A, L), NEW T \in TxRec, NEW w \in WR, NEW ok \in BOOLEAN,
         [T EXCEPT !.snd[w].left = @ - 1] \in I,
         w \in Ran(T.list) => Ready([T EXCEPT !.snd[w].left = @ - 1], w, ok) \in I
  PROVE  TxDone(T, w, ok) \in I
<1> PICK U : U = [T EXCEPT !.snd[w].left = @ - 1]
  OBVIOUS
<1>1. CASE (ok /\ U.snd[w].left # 0) \/ ~Contains(T.list, w)
  BY <1>1 DEF TxDone
<1>2. CASE ~((ok /\ U.snd[w].left # 0) \/ ~Contains(T.list, w))
  <2> PICK V : V = Ready(U, w, ok)
    OBVIOUS
  <2>1. w \in Ran(T.list)
    BY <1>2, RanFacts DEF TxRec
  <2>2. V \in I /\ V \in TxRec
    BY <2>1 DEF Closed
  <2>3. V.list \in Seq(WR)
    BY <2>2 DEF TxRec
  <2>4. PICK n \in Nat : n <= Len(V.list) /\ ReadyPrefix(V) = SubSeq(V.list, 1, n) /\ Len(ReadyPrefix(V)) = n
    BY <2>2, PrefixFacts
  <2> PICK p : p = ReadyPrefix(V)
    OBVIOUS
  <2> PICK l : l = SubSeq(V.list, n + 1, Len(V.list))
    OBVIOUS
  <2>5. /\ p \in Seq(WR) /\ l \in Seq(WR) /\ Ran(p) \subseteq Ran(V.list) /\ Ran(l) \subseteq Ran(V.list)
        /\ Rising(V.list) => Rising(l)
    BY ONLY <2>3, <2>4, SubRising, p = ReadyPrefix(V), l = SubSeq(V.list, n + 1, Len(V.list)), n \in Nat
  <2> PICK W : W = [V EXCEPT !.list = l]
    OBVIOUS
  <2>6. W \in I
    BY <2>2, <2>5 DEF Closed
  <2>7. Ran(p) \subseteq L
    BY <2>2, <2>5 DEF Closed
  <2>8. TxDone(T, w, ok) = Ordered!Run(conf.delay, W, p)
    BY <1>2, <2>4 DEF TxDone
  <2> QED
    BY ONLY <2>5, <2>6, <2>7, <2>8, OrderedIn, Closed(I, A, L)
<1> QED
  BY <1>1, <1>2

\* U differs from T in the fields of sends only.
SameQueues(T, U) ==
  /\ U \in TxRec /\ U.list = T.list /\ U.sq = T.sq /\ U.pq = T.pq /\ U.ring = T.ring
  /\ U.wrs = T.wrs /\ U.frm = T.frm /\ U.out = T.out /\ U.late = T.late /\ U.cq = T.cq

\* tx with another list.
LEMMA ListShape ==
  ASSUME NEW T \in TxRec, NEW l \in Seq(WR), NEW U, U = [T EXCEPT !.list = l]
  PROVE  /\ U \in TxRec /\ U.snd = T.snd /\ U.list = l /\ U.sq = T.sq /\ U.pq = T.pq
         /\ U.ring = T.ring /\ U.wrs = T.wrs /\ U.frm = T.frm /\ U.out = T.out
         /\ U.late = T.late /\ U.cq = T.cq
  BY DEF TxRec

\* tx with another send queue.
LEMMA SqShape ==
  ASSUME NEW T \in TxRec, NEW l \in Seq(WR), NEW U, U = [T EXCEPT !.sq = l]
  PROVE  /\ U \in TxRec /\ U.snd = T.snd /\ U.list = T.list /\ U.sq = l /\ U.pq = T.pq
         /\ U.ring = T.ring /\ U.wrs = T.wrs /\ U.frm = T.frm /\ U.out = T.out
         /\ U.late = T.late /\ U.cq = T.cq
  BY DEF TxRec

\* tx with other delayed completions.
LEMMA LateShape ==
  ASSUME NEW T \in TxRec, NEW l \in SUBSET WR, NEW U, U = [T EXCEPT !.late = l]
  PROVE  /\ U \in TxRec /\ U.snd = T.snd /\ U.list = T.list /\ U.sq = T.sq /\ U.pq = T.pq
         /\ U.ring = T.ring /\ U.wrs = T.wrs /\ U.frm = T.frm /\ U.out = T.out
         /\ U.late = l /\ U.cq = T.cq
  BY DEF TxRec

\* U is T with the send w replaced by s.
SndTo(T, w, s, U) ==
  SameQueues(T, U) /\ U.snd[w] = s /\ \A v \in WR : v # w => U.snd[v] = T.snd[v]

\* tx with another send.
LEMMA SndShape ==
  ASSUME NEW T \in TxRec, NEW w \in WR, NEW s \in SndRec
  PROVE  SndTo(T, w, s, [T EXCEPT !.snd[w] = s])
<1> PICK U : U = [T EXCEPT !.snd[w] = s]
  OBVIOUS
<1>1. T.snd \in [WR -> SndRec]
  BY DEF TxRec
<1> PICK f \in [WR -> SndRec] : f = [T.snd EXCEPT ![w] = s]
  BY <1>1
<1>2. U = [T EXCEPT !.snd = f]
  OBVIOUS
<1>3. f[w] = s /\ \A v \in WR : v # w => f[v] = T.snd[v]
  BY <1>1
<1>4. SameQueues(T, U) /\ U.snd = f
  BY ONLY <1>2, T \in TxRec, f \in [WR -> SndRec] DEF SameQueues, TxRec
<1> QED
  BY <1>3, <1>4 DEF SndTo

\* One frame less, and ready with a result.
LeftLess(s) == [s EXCEPT !.left = s.left - 1]
ReadyWith(s, ok) == [s EXCEPT !.ready = TRUE, !.ok = ok]

\* One frame less to wait for.
LEMMA LeftShape ==
  ASSUME NEW T \in TxRec, NEW w \in WR
  PROVE  /\ SndTo(T, w, LeftLess(T.snd[w]), [T EXCEPT !.snd[w].left = @ - 1])
         /\ LeftLess(T.snd[w]) \in SndRec /\ LeftLess(T.snd[w]).left = T.snd[w].left - 1
<1> PICK U : U = [T EXCEPT !.snd[w].left = @ - 1]
  OBVIOUS
<1>1. T.snd[w] \in SndRec
  BY DEF TxRec
<1>2. T.snd[w].left - 1 \in Int
  BY <1>1 DEF SndRec
<1> PICK s \in SndRec : s = [T.snd[w] EXCEPT !.left = T.snd[w].left - 1]
  BY <1>1, <1>2 DEF SndRec
<1>3. s.left = T.snd[w].left - 1
  BY <1>1 DEF SndRec
<1>4. U = [T EXCEPT !.snd[w] = s] /\ s = LeftLess(T.snd[w])
  BY DEF LeftLess
<1>5. SndTo(T, w, s, [T EXCEPT !.snd[w] = s])
  BY SndShape
<1> QED
  BY ONLY <1>3, <1>4, <1>5, U = [T EXCEPT !.snd[w].left = @ - 1], s \in SndRec

\* A send becomes ready once.
LEMMA ReadyShape ==
  ASSUME NEW T \in TxRec, NEW w \in WR, NEW ok \in BOOLEAN
  PROVE  IF T.snd[w].ready THEN Ready(T, w, ok) = T
         ELSE ReadyWith(T.snd[w], ok) \in SndRec /\ SndTo(T, w, ReadyWith(T.snd[w], ok), Ready(T, w, ok))
<1> SUFFICES ASSUME ~T.snd[w].ready
             PROVE  ReadyWith(T.snd[w], ok) \in SndRec /\ SndTo(T, w, ReadyWith(T.snd[w], ok), Ready(T, w, ok))
  BY DEF Ready
<1>1. T.snd[w] \in SndRec /\ T.snd \in [WR -> SndRec]
  BY DEF TxRec
<1> PICK s \in SndRec : s = ReadyWith(T.snd[w], ok)
  BY <1>1 DEF SndRec, ReadyWith
<1>2. Ready(T, w, ok) = [T EXCEPT !.snd[w].ready = TRUE, !.snd[w].ok = ok]
  BY DEF Ready
<1>3. Ready(T, w, ok) = [T EXCEPT !.snd[w] = s]
  BY <1>1, <1>2 DEF TxRec, ReadyWith
<1>4. SndTo(T, w, s, [T EXCEPT !.snd[w] = s])
  BY SndShape
<1> QED
  BY ONLY <1>3, <1>4, s = ReadyWith(T.snd[w], ok), s \in SndRec

-----------------------------------------------------------------------------
\* What completions leave of a send and of tx.
SndLess(s, r) ==
  /\ r.qp = s.qp /\ r.ep = s.ep /\ r.armed = s.armed /\ r.sent = s.sent /\ r.expired = s.expired
  /\ r.left <= s.left
  /\ s.done => r.done
  /\ s.ready => r.ready /\ r.ok = s.ok
  /\ ~r.ready => r.ok = s.ok
  /\ IF r.done = s.done THEN r.win = s.win /\ r.counted = s.counted
     ELSE r.win = FALSE /\ r.counted = FALSE
Less(T, U) ==
  /\ U \in TxRec /\ U.sq = T.sq /\ U.ring = T.ring
  /\ Ran(U.list) \subseteq Ran(T.list) /\ (Rising(T.list) => Rising(U.list))
  /\ U.late \subseteq T.late \cup Ran(T.list)
  /\ Ran(U.pq) \subseteq Ran(T.pq) /\ (InOrder(T.pq) => InOrder(U.pq))
  /\ \A v \in WR : FramesOf(U.pq, v) <= FramesOf(T.pq, v)
  /\ \A v \in WR : SndLess(T.snd[v], U.snd[v])

\* A send is below itself.
LEMMA SndLessRefl ==
  ASSUME NEW s \in SndRec
  PROVE  SndLess(s, s)
  BY DEF SndLess, SndRec

\* And below what is above.
LEMMA SndLessTrans ==
  ASSUME NEW s \in SndRec, NEW r \in SndRec, NEW q \in SndRec, SndLess(s, r), SndLess(r, q)
  PROVE  SndLess(s, q)
<1>1. s.left \in Int /\ r.left \in Int /\ q.left \in Int
  BY DEF SndRec
<1>2. q.left <= s.left
  BY <1>1 DEF SndLess
<1>3. /\ s.done \in BOOLEAN /\ r.done \in BOOLEAN /\ q.done \in BOOLEAN
      /\ s.ready \in BOOLEAN /\ r.ready \in BOOLEAN /\ q.ready \in BOOLEAN
  BY DEF SndRec
<1> QED
  BY <1>2, <1>3 DEF SndLess

\* Less is reflexive ...
LEMMA LessRefl ==
  ASSUME NEW T \in TxRec
  PROVE  Less(T, T)
<1>1. \A v \in WR : T.snd[v] \in SndRec /\ FramesOf(T.pq, v) \in Nat
  BY CountFacts DEF TxRec
<1> QED
  BY <1>1, SndLessRefl DEF Less

\* ... and transitive.
LEMMA LessTrans ==
  ASSUME NEW T \in TxRec, NEW U, NEW V, Less(T, U), Less(U, V)
  PROVE  Less(T, V)
<1>1. U \in TxRec /\ V \in TxRec
  BY DEF Less
<1>2. \A v \in WR : /\ T.snd[v] \in SndRec /\ U.snd[v] \in SndRec /\ V.snd[v] \in SndRec
                    /\ FramesOf(T.pq, v) \in Nat /\ FramesOf(U.pq, v) \in Nat /\ FramesOf(V.pq, v) \in Nat
  BY <1>1, CountFacts DEF TxRec
<1>3. \A v \in WR : SndLess(T.snd[v], V.snd[v])
  BY <1>2, SndLessTrans DEF Less
<1>4. \A v \in WR : FramesOf(V.pq, v) <= FramesOf(T.pq, v)
  BY <1>2 DEF Less
<1> QED
  BY <1>1, <1>3, <1>4 DEF Less

\* A completion goes down.
LEMMA DoneLess ==
  ASSUME conf \in Conf, NEW T \in TxRec, NEW w \in WR, NEW ok \in BOOLEAN
  PROVE  Less(T, SendComplete(T, w, ok))
<1> PICK U : U = SendComplete(T, w, ok)
  OBVIOUS
<1>1. CASE T.snd[w].done
  BY <1>1, DoneShape, LessRefl
<1>2. CASE ~T.snd[w].done
  <2>1. DoneTo(TakesWr, T, w, ok, U)
    BY <1>2, DoneShape
  <2>2. \A v \in WR : T.snd[v] \in SndRec /\ FramesOf(T.pq, v) \in Nat
    BY CountFacts DEF TxRec
  <2> PICK n \in Nat : n = FramesOf(T.pq, w)
    BY <2>2
  <2>3. SndLess(T.snd[w], U.snd[w])
    <3> PICK s \in SndRec : s = T.snd[w]
      BY <2>2
    <3>1. U.snd[w] = [s EXCEPT !.done = TRUE, !.counted = FALSE, !.win = FALSE, !.left = s.left - n]
      BY <2>1 DEF DoneTo
    <3>2. s.left \in Int /\ s.left - n <= s.left /\ s.done = FALSE
      BY <1>2 DEF SndRec
    <3> QED
      BY ONLY <3>1, <3>2, s \in SndRec, s = T.snd[w] DEF SndLess, SndRec
  <2>4. \A v \in WR : SndLess(T.snd[v], U.snd[v])
    BY <2>1, <2>2, <2>3, SndLessRefl DEF DoneTo
  <2>5. /\ U \in TxRec /\ U.list = T.list /\ U.sq = T.sq /\ U.ring = T.ring /\ U.late = T.late
        /\ Others(T.pq, w, U.pq)
    BY <2>1 DEF DoneTo
  <2>6. Ran(U.pq) \subseteq Ran(T.pq) /\ (InOrder(T.pq) => InOrder(U.pq))
    BY <2>5 DEF Others, Ran
  <2>7. \A v \in WR : FramesOf(U.pq, v) <= FramesOf(T.pq, v)
    BY <2>2, <2>5 DEF Others
  <2> QED
    BY <2>4, <2>5, <2>6, <2>7 DEF Less
<1> QED
  BY <1>1, <1>2

\* So does a shorter list,
LEMMA ListLess ==
  ASSUME NEW T \in TxRec, NEW l \in Seq(WR), Ran(l) \subseteq Ran(T.list), Rising(T.list) => Rising(l)
  PROVE  Less(T, [T EXCEPT !.list = l])
<1> PICK U : U = [T EXCEPT !.list = l]
  OBVIOUS
<1>1. /\ U \in TxRec /\ U.snd = T.snd /\ U.list = l /\ U.sq = T.sq /\ U.pq = T.pq
      /\ U.ring = T.ring /\ U.late = T.late
  BY ListShape
<1>2. Less(T, T)
  BY LessRefl
<1> QED
  BY <1>1, <1>2 DEF Less

\* a delayed completion of a send that was on the list,
LEMMA LateLess ==
  ASSUME NEW T \in TxRec, NEW U, Less(T, U), NEW w \in Ran(T.list)
  PROVE  Less(T, [U EXCEPT !.late = @ \cup {w}])
<1>1. U \in TxRec /\ w \in WR
  BY RanFacts DEF Less, TxRec
<1> PICK l \in SUBSET WR : l = U.late \cup {w}
  BY <1>1 DEF TxRec
<1> PICK V : V = [U EXCEPT !.late = l]
  OBVIOUS
<1>2. /\ V \in TxRec /\ V.snd = U.snd /\ V.list = U.list /\ V.sq = U.sq /\ V.pq = U.pq
      /\ V.ring = U.ring /\ V.late = l
  BY <1>1, LateShape
<1>3. l \subseteq T.late \cup Ran(T.list)
  BY DEF Less
<1>4. Less(T, V)
  BY <1>2, <1>3 DEF Less
<1> QED
  BY <1>4

\* a send that becomes ready,
LEMMA ReadyLess ==
  ASSUME NEW T \in TxRec, NEW w \in WR, NEW ok \in BOOLEAN
  PROVE  Less(T, Ready(T, w, ok))
<1> PICK U : U = Ready(T, w, ok)
  OBVIOUS
<1>0. IF T.snd[w].ready THEN U = T ELSE SndTo(T, w, ReadyWith(T.snd[w], ok), U)
  BY ReadyShape
<1>1. CASE T.snd[w].ready
  BY <1>0, <1>1, LessRefl
<1>2. CASE ~T.snd[w].ready
  <2>1. /\ SameQueues(T, U) /\ U.snd[w] = [T.snd[w] EXCEPT !.ready = TRUE, !.ok = ok]
        /\ \A v \in WR : v # w => U.snd[v] = T.snd[v]
    BY <1>0, <1>2 DEF SndTo, ReadyWith
  <2>2. \A v \in WR : T.snd[v] \in SndRec
    BY DEF TxRec
  <2>3. SndLess(T.snd[w], U.snd[w])
    <3> PICK s \in SndRec : s = T.snd[w]
      BY <2>2
    <3>1. U.snd[w] = [s EXCEPT !.ready = TRUE, !.ok = ok] /\ s.ready = FALSE
      BY <1>2, <2>1 DEF SndRec
    <3> QED
      BY ONLY <3>1, s \in SndRec, s = T.snd[w], ok \in BOOLEAN DEF SndLess, SndRec
  <2>4. \A v \in WR : SndLess(T.snd[v], U.snd[v])
    BY <2>1, <2>2, <2>3, SndLessRefl
  <2>5. Less(T, T)
    BY LessRefl
  <2> QED
    BY <2>1, <2>4, <2>5 DEF Less, SameQueues
<1> QED
  BY <1>1, <1>2

\* The values left of T.
LEMMA LessClosed ==
  ASSUME conf \in Conf, NEW T \in TxRec, NEW A, A \subseteq WR, Ran(T.list) \subseteq A,
         NEW I, I = {U \in TxRec : Less(T, U)}
  PROVE  Closed(I, A, Ran(T.list))
<1>1. \A U \in I : U \in TxRec /\ Less(T, U) /\ Ran(U.list) \subseteq Ran(T.list)
  BY DEF Less
<1>2. ASSUME NEW U \in I, NEW w \in A, NEW ok \in BOOLEAN PROVE SendComplete(U, w, ok) \in I
  <2>1. Less(U, SendComplete(U, w, ok))
    BY <1>1, DoneLess
  <2>2. Less(T, SendComplete(U, w, ok))
    BY <1>1, <2>1, LessTrans
  <2> QED
    BY <2>2 DEF Less
<1>3. ASSUME NEW U \in I, NEW w \in Ran(T.list) PROVE [U EXCEPT !.late = @ \cup {w}] \in I
  <2>1. Less(T, [U EXCEPT !.late = @ \cup {w}])
    BY <1>1, LateLess
  <2> QED
    BY <2>1 DEF Less
<1>4. ASSUME NEW U \in I, NEW l \in Seq(WR), Ran(l) \subseteq Ran(U.list), Rising(U.list) => Rising(l)
      PROVE  [U EXCEPT !.list = l] \in I
  <2>1. Less(U, [U EXCEPT !.list = l])
    BY <1>1, <1>4, ListLess
  <2>2. Less(T, [U EXCEPT !.list = l])
    BY <1>1, <2>1, LessTrans
  <2> QED
    BY <2>2 DEF Less
<1> QED
  BY <1>1, <1>2, <1>3, <1>4 DEF Closed

\* tbv_qp_unqueue_send(),
LEMMA UnqueueLess ==
  ASSUME conf \in Conf, NEW T \in TxRec, NEW w \in WR, NEW ok \in BOOLEAN
  PROVE  Less(T, Unqueue(ok, T, w))
<1> PICK I : I = {U \in TxRec : Less(T, U)}
  OBVIOUS
<1>1. Closed(I, WR, Ran(T.list)) /\ T \in I
  <2>1. Ran(T.list) \subseteq WR
    BY RanFacts DEF TxRec
  <2> QED
    BY <2>1, LessClosed, LessRefl
<1>2. Unqueue(ok, T, w) \in I
  BY <1>1, UnqueueIn
<1> QED
  BY <1>2

\* the completion of a list,
LEMMA SendsLess ==
  ASSUME conf \in Conf, NEW T \in TxRec, NEW s \in Seq(WR)
  PROVE  Less(T, Sends!Run(FALSE, T, s))
<1> PICK I : I = {U \in TxRec : Less(T, U)}
  OBVIOUS
<1>1. Closed(I, WR, Ran(T.list)) /\ T \in I
  <2>1. Ran(T.list) \subseteq WR
    BY RanFacts DEF TxRec
  <2> QED
    BY <2>1, LessClosed, LessRefl
<1>2. Ran(s) \subseteq WR
  BY RanFacts
<1>3. Sends!Run(FALSE, T, s) \in I
  BY <1>1, <1>2, SendsIn
<1> QED
  BY <1>3

\* a flush,
LEMMA FlushLess ==
  ASSUME conf \in Conf, NEW T \in TxRec
  PROVE  Less([T EXCEPT !.sq = <<>>], Flush(T)) /\ Flush(T).list = <<>>
<1> PICK S : S = [T EXCEPT !.sq = <<>>]
  OBVIOUS
<1>0. S \in TxRec
  <2>1. <<>> \in Seq(WR)
    OBVIOUS
  <2> QED
    BY <2>1, SqShape
<1> PICK I : I = {U \in TxRec : Less(S, U)}
  OBVIOUS
<1>1. Closed(I, WR, Ran(S.list)) /\ S \in I
  <2>1. Ran(S.list) \subseteq WR
    BY <1>0, RanFacts DEF TxRec
  <2> QED
    BY <1>0, <2>1, LessClosed, LessRefl
<1>2. Ran(T.sq) \subseteq WR
  BY RanFacts DEF TxRec
<1>3. Flush(T) \in I /\ Flush(T).list = <<>>
  BY <1>1, <1>2, FlushIn
<1> QED
  BY <1>3

\* tbv_apple_send_tx_done() of a frame,
LEMMA TxDoneLess ==
  ASSUME conf \in Conf, NEW T \in TxRec, NEW w \in WR, NEW ok \in BOOLEAN
  PROVE  Less(T, TxDone(T, w, ok))
<1> PICK I : I = {U \in TxRec : Less(T, U)}
  OBVIOUS
<1>1. Closed(I, WR, Ran(T.list))
  <2>1. Ran(T.list) \subseteq WR
    BY RanFacts DEF TxRec
  <2> QED
    BY <2>1, LessClosed
<1> PICK U : U = [T EXCEPT !.snd[w].left = @ - 1]
  OBVIOUS
<1>2. U \in TxRec /\ Less(T, U)
  <2>1. SndTo(T, w, LeftLess(T.snd[w]), U)
    BY LeftShape
  <2>2. \A v \in WR : T.snd[v] \in SndRec
    BY DEF TxRec
  <2>3. SndLess(T.snd[w], LeftLess(T.snd[w]))
    <3> PICK s \in SndRec : s = T.snd[w]
      BY <2>2
    <3>1. s.left \in Int /\ s.left - 1 <= s.left
      BY DEF SndRec
    <3> QED
      BY ONLY <3>1, s \in SndRec, s = T.snd[w] DEF SndLess, SndRec, LeftLess
  <2>4. \A v \in WR : SndLess(T.snd[v], U.snd[v])
    BY <2>1, <2>2, <2>3, SndLessRefl DEF SndTo
  <2>5. Less(T, T)
    BY LessRefl
  <2> QED
    BY <2>1, <2>4, <2>5 DEF Less, SndTo, SameQueues
<1>3. Less(U, Ready(U, w, ok))
  BY <1>2, ReadyLess
<1>4. Less(T, Ready(U, w, ok))
  BY <1>2, <1>3, LessTrans
<1>5. U \in I /\ Ready(U, w, ok) \in I
  BY <1>2, <1>4 DEF Less
<1>6. TxDone(T, w, ok) \in I
  BY <1>1, <1>5, TxDoneIn
<1> QED
  BY <1>6

\* and of all the frames of a queue.
LEMMA FramesLess ==
  ASSUME conf \in Conf, NEW T \in TxRec, NEW s \in Seq(FrameRec)
  PROVE  Less(T, Frames!Run(FALSE, T, s))
<1> PICK I : I = {U \in TxRec : Less(T, U)}
  OBVIOUS
<1> PICK n \in Nat : n = Len(s)
  OBVIOUS
<1>1. T \in I
  BY LessRefl
<1>2. ASSUME NEW k \in 1..n, NEW U \in I PROVE FrameDone(FALSE, U, s[k]) \in I
  <2>1. s[k] \in FrameRec
    OBVIOUS
  <2> PICK w \in WR : w = s[k][1]
    BY <2>1 DEF FrameRec
  <2>2. FrameDone(FALSE, U, s[k]) = TxDone(U, w, FALSE)
    BY DEF FrameDone
  <2>3. Less(U, TxDone(U, w, FALSE))
    BY TxDoneLess
  <2>4. Less(T, TxDone(U, w, FALSE))
    BY <2>3, LessTrans
  <2> QED
    BY <2>2, <2>4 DEF Less
<1>3. Frames!Run(FALSE, T, s) \in I
  BY ONLY <1>1, <1>2, FramesStays, n \in Nat, n = Len(s)
<1> QED
  BY <1>3

-----------------------------------------------------------------------------
(* What the actions make of tx.                                            *)

WkRec == [pc : {"idle", "top", "popped", "path", "window", "reserve", "set", "post", "frame",
                "group", "end", "fail"},
          w : 0..MaxWr, posted : Nat, group : Nat, ref : BOOLEAN]
TimerRec == [pc : {"idle", "err", "flush", "complete"}, taken : Seq(WR)]

TxTypes ==
  /\ tx \in TxRec /\ wk \in WkRec /\ timer \in TimerRec /\ kicked \in BOOLEAN /\ freed \in BOOLEAN
  /\ wk.pc \notin {"idle", "top"} => wk.w \in WR
  /\ wk.ref = (wk.pc \notin {"idle", "top", "popped"})
  /\ timer.pc = "idle" => timer.taken = <<>>


SameLists(T, U) == U.list = T.list /\ U.sq = T.sq /\ U.late = T.late /\ U.cq = T.cq
SamePath(T, U) == U.pq = T.pq /\ U.ring = T.ring
SameCounts(T, U) == U.wrs = T.wrs /\ U.frm = T.frm /\ U.out = T.out

\* A post takes its reference.
LEMMA PostGetLiveTx ==
  ASSUME RailInv, TxTypes, NEW w \in WR, PostGetLive(w)
  PROVE  SndTo(tx, w, [tx.snd[w] EXCEPT !.qp = qp.inc, !.ep = qp.ep], tx')
<1>1. tx \in TxRec /\ tx.snd[w] \in SndRec /\ tx.snd \in [WR -> SndRec]
  BY DEF TxTypes, TxRec
<1>2. qp.inc \in Nat /\ qp.ep \in Nat
  BY SizeAssumption DEF RailInv, RailTypes, QpRec
<1> PICK s \in SndRec : s = [tx.snd[w] EXCEPT !.qp = qp.inc, !.ep = qp.ep]
  BY <1>1, <1>2 DEF SndRec
<1>3. tx' = [tx EXCEPT !.snd[w] = s]
  <2>1. tx' = [tx EXCEPT !.snd[w].qp = qp.inc, !.snd[w].ep = qp.ep]
    BY DEF PostGetLive
  <2> QED
    BY <1>1, <2>1 DEF TxRec
<1>4. SndTo(tx, w, s, [tx EXCEPT !.snd[w] = s])
  BY <1>1, SndShape
<1> QED
  BY <1>3, <1>4

\* A post is refused or takes a slot.
LEMMA PostSlotTx ==
  ASSUME RailInv, TxTypes, PostSlot
  PROVE  LET w == poster.w IN
         \/ poster' = IdlePoster /\ SndTo(tx, w, [tx.snd[w] EXCEPT !.done = TRUE], tx')
         \/ /\ poster' = [poster EXCEPT !.pc = "queue"] /\ tx.out < conf.slots
            /\ tx' \in TxRec /\ SameLists(tx, tx') /\ SamePath(tx, tx')
            /\ tx'.wrs = tx.wrs /\ tx'.frm = tx.frm /\ tx'.out = tx.out + 1
            /\ tx'.snd[w] = [tx.snd[w] EXCEPT !.counted = TRUE]
            /\ \A v \in WR : v # w => tx'.snd[v] = tx.snd[v]
<1>0. poster.w \in WR
  BY DEF RailInv, UserInv, PostSlot
<1> PICK w \in WR : w = poster.w
  BY <1>0
<1>1. tx \in TxRec /\ tx.snd[w] \in SndRec /\ tx.snd \in [WR -> SndRec] /\ tx.out \in Int
  BY DEF TxTypes, TxRec
<1>2. CASE qp.closing \/ qp.st = "ERR" \/ tx.out >= conf.slots
  <2> PICK s \in SndRec : s = [tx.snd[w] EXCEPT !.done = TRUE]
    BY <1>1 DEF SndRec
  <2>1. tx' = [tx EXCEPT !.snd[w] = s] /\ poster' = IdlePoster
    BY <1>2 DEF PostSlot
  <2>2. SndTo(tx, w, s, [tx EXCEPT !.snd[w] = s])
    BY <1>1, SndShape
  <2> QED
    BY <2>1, <2>2
<1>3. CASE ~(qp.closing \/ qp.st = "ERR" \/ tx.out >= conf.slots)
  <2> PICK s \in SndRec : s = [tx.snd[w] EXCEPT !.counted = TRUE]
    BY <1>1 DEF SndRec
  <2> PICK f \in [WR -> SndRec] : f = [tx.snd EXCEPT ![w] = s]
    BY <1>1
  <2> PICK o \in Int : o = tx.out + 1
    BY <1>1
  <2>1. tx' = [tx EXCEPT !.snd = f, !.out = o] /\ poster' = [poster EXCEPT !.pc = "queue"]
    BY <1>3 DEF PostSlot
  <2>2. tx' \in TxRec /\ SameLists(tx, tx') /\ SamePath(tx, tx')
            /\ tx'.wrs = tx.wrs /\ tx'.frm = tx.frm /\ tx'.out = o /\ tx'.snd = f
    BY ONLY <1>1, <2>1, f \in [WR -> SndRec], o \in Int DEF TxRec, SameLists, SamePath
  <2>3. f[w] = s /\ \A v \in WR : v # w => f[v] = tx.snd[v]
    BY <1>1
  <2>4. conf.slots \in Nat
    BY ConfFacts DEF RailInv, RailTypes
  <2>5. tx.out < conf.slots
    BY ONLY <1>1, <1>3, <2>4
  <2> QED
    BY <2>1, <2>2, <2>3, <2>5
<1> QED
  BY <1>2, <1>3

\* A post enters pending_sends.
LEMMA PostQueueSendTx ==
  ASSUME RailInv, TxTypes, PostQueueSend
  PROVE  /\ tx' \in TxRec /\ tx'.snd = tx.snd /\ tx'.list = Append(tx.list, poster.w) /\ tx'.sq = tx.sq
         /\ tx'.late = tx.late /\ tx'.cq = tx.cq /\ SamePath(tx, tx') /\ SameCounts(tx, tx')
         /\ poster.w \in WR
<1>1. tx \in TxRec /\ tx.list \in Seq(WR) /\ poster.w \in WR
  BY DEF TxTypes, TxRec, RailInv, UserInv, PostQueueSend
<1> PICK l \in Seq(WR) : l = Append(tx.list, poster.w)
  BY <1>1, AppendFacts
<1>2. tx' = [tx EXCEPT !.list = l]
  BY DEF PostQueueSend
<1>3. tx' \in TxRec /\ tx'.snd = tx.snd /\ tx'.list = l /\ tx'.sq = tx.sq
         /\ tx'.late = tx.late /\ tx'.cq = tx.cq /\ SamePath(tx, tx') /\ SameCounts(tx, tx')
  BY ONLY <1>1, <1>2, l \in Seq(WR) DEF TxRec, SamePath, SameCounts
<1> QED
  BY <1>1, <1>3

\* A post enters the send queue.
LEMMA PostQueueEntryTx ==
  ASSUME RailInv, TxTypes, PostQueueEntry
  PROVE  /\ tx' \in TxRec /\ tx'.snd = tx.snd /\ tx'.list = tx.list /\ tx'.sq = Append(tx.sq, poster.w)
         /\ tx'.late = tx.late /\ tx'.cq = tx.cq /\ SamePath(tx, tx') /\ SameCounts(tx, tx')
         /\ poster.w \in WR
<1>1. tx \in TxRec /\ tx.sq \in Seq(WR) /\ poster.w \in WR
  BY DEF TxTypes, TxRec, RailInv, UserInv, PostQueueEntry
<1> PICK l \in Seq(WR) : l = Append(tx.sq, poster.w)
  BY <1>1, AppendFacts
<1>2. tx' = [tx EXCEPT !.sq = l]
  BY DEF PostQueueEntry
<1>3. tx' \in TxRec /\ tx'.snd = tx.snd /\ tx'.list = tx.list /\ tx'.sq = l
         /\ tx'.late = tx.late /\ tx'.cq = tx.cq /\ SamePath(tx, tx') /\ SameCounts(tx, tx')
  BY ONLY <1>1, <1>2, l \in Seq(WR) DEF TxRec, SamePath, SameCounts
<1> QED
  BY <1>1, <1>3

\* The worker takes an entry.
LEMMA WorkerPopTx ==
  ASSUME TxTypes, WorkerPop
  PROVE  \/ tx.sq = <<>> /\ wk' = IdleWorker /\ tx' = tx
         \/ /\ tx.sq # <<>> /\ wk' = [IdleWorker EXCEPT !.pc = "popped", !.w = Head(tx.sq)]
            /\ tx' \in TxRec /\ tx'.snd = tx.snd /\ tx'.list = tx.list /\ tx'.sq = Tail(tx.sq)
            /\ tx'.late = tx.late /\ tx'.cq = tx.cq /\ SamePath(tx, tx') /\ SameCounts(tx, tx')
            /\ Head(tx.sq) \in WR /\ Tail(tx.sq) \in Seq(WR) /\ Ran(tx.sq) = Ran(Tail(tx.sq)) \cup {Head(tx.sq)}
<1>1. tx \in TxRec /\ tx.sq \in Seq(WR)
  BY DEF TxTypes, TxRec
<1>2. CASE tx.sq = <<>>
  BY <1>2 DEF WorkerPop
<1>3. CASE tx.sq # <<>>
  <2>1. Head(tx.sq) \in WR /\ Tail(tx.sq) \in Seq(WR) /\ Ran(tx.sq) = Ran(Tail(tx.sq)) \cup {Head(tx.sq)}
    BY <1>1, <1>3, RanTail
  <2> PICK l \in Seq(WR) : l = Tail(tx.sq)
    BY <2>1
  <2>2. tx' = [tx EXCEPT !.sq = l] /\ wk' = [IdleWorker EXCEPT !.pc = "popped", !.w = Head(tx.sq)]
    BY <1>3 DEF WorkerPop
  <2>3. tx' \in TxRec /\ tx'.snd = tx.snd /\ tx'.list = tx.list /\ tx'.sq = l
         /\ tx'.late = tx.late /\ tx'.cq = tx.cq /\ SamePath(tx, tx') /\ SameCounts(tx, tx')
    BY ONLY <1>1, <2>2, l \in Seq(WR) DEF TxRec, SamePath, SameCounts
  <2> QED
    BY <1>3, <2>1, <2>2, <2>3
<1> QED
  BY <1>2, <1>3

\* Window taken or given back.
WindowTo(T, d, U) ==
  /\ U \in TxRec /\ U.snd = T.snd /\ SameLists(T, U) /\ SamePath(T, U) /\ U.out = T.out
  /\ U.wrs = T.wrs + d

\* The transmit window is taken or given back.
LEMMA WindowTx ==
  ASSUME conf \in Conf, NEW T \in TxRec, NEW w \in WR
  PROVE  /\ WindowTo(T, IF TakesWr THEN -1 ELSE 0, ReleaseWindow(T, w))
         /\ T = tx /\ AcquireWindow(w) => WindowTo(T, IF TakesWr THEN 1 ELSE 0, tx')
<1>1. FrameCharge(w) \in Nat /\ T.wrs \in Int /\ T.frm \in Int
  BY ConfFacts DEF TxRec
<1>2. WindowTo(T, IF TakesWr THEN -1 ELSE 0, ReleaseWindow(T, w))
  <2> PICK a \in Int : a = T.wrs - (IF TakesWr THEN 1 ELSE 0)
    BY <1>1
  <2> PICK b \in Int : b = T.frm - FrameCharge(w)
    BY <1>1
  <2>0. a = T.wrs + (IF TakesWr THEN -1 ELSE 0)
    BY <1>1
  <2>1. ReleaseWindow(T, w) = [T EXCEPT !.wrs = a, !.frm = b]
    BY DEF ReleaseWindow
  <2> PICK U : U = [T EXCEPT !.wrs = a, !.frm = b]
    OBVIOUS
  <2>2. /\ U \in TxRec /\ U.snd = T.snd /\ SameLists(T, U) /\ SamePath(T, U) /\ U.out = T.out
        /\ U.wrs = a
    BY ONLY T \in TxRec, U = [T EXCEPT !.wrs = a, !.frm = b], a \in Int, b \in Int
       DEF TxRec, SameLists, SamePath
  <2> QED
    BY <2>0, <2>1, <2>2 DEF WindowTo
<1>3. ASSUME T = tx, AcquireWindow(w) PROVE WindowTo(T, IF TakesWr THEN 1 ELSE 0, tx')
  <2> PICK a \in Int : a = T.wrs + (IF TakesWr THEN 1 ELSE 0)
    BY <1>1
  <2> PICK b \in Int : b = T.frm + FrameCharge(w)
    BY <1>1
  <2>1. tx' = [T EXCEPT !.wrs = a, !.frm = b]
    BY <1>3 DEF AcquireWindow
  <2>2. /\ tx' \in TxRec /\ tx'.snd = T.snd /\ SameLists(T, tx') /\ SamePath(T, tx') /\ tx'.out = T.out
        /\ tx'.wrs = a
    BY ONLY T \in TxRec, <2>1, a \in Int, b \in Int DEF TxRec, SameLists, SamePath
  <2> QED
    BY <2>2 DEF WindowTo
<1> QED
  BY <1>2, <1>3

\* The window is written into the context.
LEMMA WorkerSetTx ==
  ASSUME RailInv, TxTypes, WorkerSet
  PROVE  /\ wk.w \in WR
         /\ SndTo(tx, wk.w, [tx.snd[wk.w] EXCEPT !.win = TRUE, !.left = conf.len[wk.w],
                                             !.armed = (wk.w \in Ran(tx.list))], tx')
<1>0. wk.w \in WR /\ conf \in Conf
  BY DEF TxTypes, WorkerSet, RailInv, RailTypes
<1> PICK w \in WR : w = wk.w
  BY <1>0
<1>1. tx \in TxRec /\ tx.snd[w] \in SndRec /\ tx.snd \in [WR -> SndRec] /\ tx.list \in Seq(WR)
  BY DEF TxTypes, TxRec
<1>2. conf.len[w] \in Int
  BY <1>0, ConfFacts
<1> PICK b \in BOOLEAN : b = Contains(tx.list, w)
  BY DEF Contains
<1>3. b = (w \in Ran(tx.list))
  BY <1>1, RanFacts
<1> PICK s \in SndRec : s = [tx.snd[w] EXCEPT !.win = TRUE, !.left = conf.len[w], !.armed = b]
  BY ONLY <1>1, <1>2, b \in BOOLEAN DEF SndRec
<1>4. tx' = [tx EXCEPT !.snd[w] = s]
  <2>1. tx' = [tx EXCEPT !.snd[w].win = TRUE, !.snd[w].left = conf.len[w], !.snd[w].armed = b]
    BY DEF WorkerSet
  <2> QED
    BY ONLY <1>1, <2>1, s = [tx.snd[w] EXCEPT !.win = TRUE, !.left = conf.len[w], !.armed = b] DEF TxRec
<1>5. SndTo(tx, w, s, [tx EXCEPT !.snd[w] = s])
  BY <1>1, SndShape
<1> QED
  BY <1>0, <1>3, <1>4, <1>5

\* A frame is queued, handed on, transmitted.
LEMMA WorkerPostTx ==
  ASSUME RailInv, TxTypes, NEW cl, WorkerPost(cl), ~cl
  PROVE  /\ wk.w \in WR /\ <<wk.w, qp.ep>> \in FrameRec
         /\ tx' \in TxRec /\ tx'.snd = tx.snd /\ SameLists(tx, tx') /\ tx'.ring = tx.ring
         /\ tx'.pq = Append(tx.pq, <<wk.w, qp.ep>>) /\ SameCounts(tx, tx')
<1>1. tx \in TxRec /\ tx.pq \in Seq(FrameRec) /\ wk.w \in WR /\ qp.ep \in Nat
  BY DEF TxTypes, TxRec, WorkerPost, RailInv, RailTypes, QpRec
<1>2. <<wk.w, qp.ep>> \in FrameRec
  BY <1>1 DEF FrameRec
<1> PICK l \in Seq(FrameRec) : l = Append(tx.pq, <<wk.w, qp.ep>>)
  BY <1>1, <1>2, AppendFacts
<1>3. tx' = [tx EXCEPT !.pq = l]
  BY DEF WorkerPost
<1>4. /\ tx' \in TxRec /\ tx'.snd = tx.snd /\ SameLists(tx, tx') /\ tx'.ring = tx.ring
      /\ tx'.pq = l /\ SameCounts(tx, tx')
  BY ONLY <1>1, <1>3, l \in Seq(FrameRec) DEF TxRec, SameLists, SameCounts
<1> QED
  BY <1>1, <1>2, <1>4

\* A frame goes from the queue to the ring.
LEMMA PathScheduleTx ==
  ASSUME TxTypes, NEW cl, PathSchedule(cl)
  PROVE  /\ tx.pq # <<>> /\ Head(tx.pq) \in FrameRec /\ Tail(tx.pq) \in Seq(FrameRec)
         /\ tx' \in TxRec /\ tx'.snd = tx.snd /\ SameLists(tx, tx') /\ SameCounts(tx, tx')
         /\ tx'.ring = Append(tx.ring, Head(tx.pq)) /\ tx'.pq = Tail(tx.pq)
<1>1. tx \in TxRec /\ tx.pq \in Seq(FrameRec) /\ tx.ring \in Seq(FrameRec) /\ tx.pq # <<>>
  BY DEF TxTypes, TxRec, PathSchedule
<1>2. Head(tx.pq) \in FrameRec /\ Tail(tx.pq) \in Seq(FrameRec)
  BY <1>1, RanTail
<1> PICK l \in Seq(FrameRec) : l = Append(tx.ring, Head(tx.pq))
  BY <1>1, <1>2, AppendFacts
<1> PICK m \in Seq(FrameRec) : m = Tail(tx.pq)
  BY <1>2
<1>3. tx' = [tx EXCEPT !.ring = l, !.pq = m]
  BY DEF PathSchedule
<1>4. /\ tx' \in TxRec /\ tx'.snd = tx.snd /\ SameLists(tx, tx') /\ tx'.ring = l
      /\ tx'.pq = m /\ SameCounts(tx, tx')
  BY ONLY <1>1, <1>3, l \in Seq(FrameRec), m \in Seq(FrameRec) DEF TxRec, SameLists, SameCounts
<1> QED
  BY <1>1, <1>2, <1>4

\* The value on which the transmit callback starts.
SentTo(T, w, U) ==
  /\ U \in TxRec /\ SameLists(T, U) /\ SameCounts(T, U) /\ U.pq = T.pq /\ U.ring = Tail(T.ring)
  /\ U.snd[w] = [T.snd[w] EXCEPT !.sent = T.snd[w].sent + 1]
  /\ \A v \in WR : v # w => U.snd[v] = T.snd[v]

\* A frame is transmitted and its callback runs.
LEMMA NhiSendTx ==
  ASSUME TxTypes, NhiSend
  PROVE  /\ tx.ring # <<>> /\ Head(tx.ring) \in FrameRec /\ Head(tx.ring)[1] \in WR
         /\ Tail(tx.ring) \in Seq(FrameRec)
         /\ \E U : SentTo(tx, Head(tx.ring)[1], U) /\ tx' = TxDone(U, Head(tx.ring)[1], TRUE)
<1>1. tx \in TxRec /\ tx.ring \in Seq(FrameRec) /\ tx.ring # <<>>
  BY DEF TxTypes, TxRec, NhiSend
<1>2. Head(tx.ring) \in FrameRec /\ Tail(tx.ring) \in Seq(FrameRec)
  BY <1>1, RanTail
<1> PICK w \in WR : w = Head(tx.ring)[1]
  BY <1>2 DEF FrameRec
<1>3. tx.snd[w] \in SndRec /\ tx.snd \in [WR -> SndRec]
  BY <1>1 DEF TxRec
<1>4. tx.snd[w].sent + 1 \in Int
  BY <1>3 DEF SndRec
<1> PICK s \in SndRec : s = [tx.snd[w] EXCEPT !.sent = tx.snd[w].sent + 1]
  BY <1>3, <1>4 DEF SndRec
<1> PICK f \in [WR -> SndRec] : f = [tx.snd EXCEPT ![w] = s]
  BY <1>3
<1> PICK m \in Seq(FrameRec) : m = Tail(tx.ring)
  BY <1>2
<1> PICK U : U = [tx EXCEPT !.ring = m, !.snd = f]
  OBVIOUS
<1>5. U = [tx EXCEPT !.ring = Tail(@), !.snd[w].sent = @ + 1]
  BY ONLY <1>1, <1>3, U = [tx EXCEPT !.ring = m, !.snd = f], m = Tail(tx.ring), f = [tx.snd EXCEPT ![w] = s],
          s = [tx.snd[w] EXCEPT !.sent = tx.snd[w].sent + 1] DEF TxRec
<1>6. tx' = TxDone(U, w, TRUE)
  BY <1>5, Zenon DEF NhiSend
<1>7. U \in TxRec /\ SameLists(tx, U) /\ SameCounts(tx, U) /\ U.pq = tx.pq /\ U.ring = m /\ U.snd = f
  BY ONLY <1>1, U = [tx EXCEPT !.ring = m, !.snd = f], m \in Seq(FrameRec), f \in [WR -> SndRec]
     DEF TxRec, SameLists, SameCounts
<1>8. f[w] = s /\ \A v \in WR : v # w => f[v] = tx.snd[v]
  BY <1>3
<1>9. SentTo(tx, w, U)
  BY <1>7, <1>8, Zenon DEF SentTo
<1> QED
  BY <1>1, <1>2, <1>6, <1>9, Zenon

\* The delayed completion of w.
LateTo(T, w, U) ==
  /\ U \in TxRec /\ U.late = T.late \ {w}
  /\ U.snd = T.snd /\ U.list = T.list /\ U.sq = T.sq /\ U.cq = T.cq /\ SamePath(T, U) /\ SameCounts(T, U)

\* A delayed completion runs.
LEMMA LateTx ==
  ASSUME RailInv, TxTypes, NEW w, SendCompleteWork(w)
  PROVE  w \in WR /\ w \in tx.late /\ LateTo(SendComplete(tx, w, TRUE), w, tx')
<1>1. tx \in TxRec /\ w \in tx.late /\ w \in WR /\ conf \in Conf
  BY DEF TxTypes, TxRec, SendCompleteWork, RailInv, RailTypes
<1> PICK T \in TxRec : T = SendComplete(tx, w, TRUE)
  BY <1>1, DoneLess DEF Less
<1>2. T.late \in SUBSET WR
  BY DEF TxRec
<1> PICK l \in SUBSET WR : l = T.late \ {w}
  BY <1>2
<1>3. tx' = [T EXCEPT !.late = l]
  BY DEF SendCompleteWork
<1>4. LateTo(T, w, tx')
  BY ONLY <1>3, T \in TxRec, l \in SUBSET WR, l = T.late \ {w} DEF TxRec, LateTo, SamePath, SameCounts
<1> QED
  BY <1>1, <1>4

\* The scan fails w and takes the ready sends off the head of the list.
Expired(s) == [s EXCEPT !.ready = TRUE, !.ok = FALSE, !.expired = TRUE]
ExpireTo(T, w, n, p, U) ==
  /\ U \in TxRec /\ n \in Nat /\ n <= Len(T.list)
  /\ p = SubSeq(T.list, 1, n) /\ U.list = SubSeq(T.list, n + 1, Len(T.list))
  /\ U.sq = T.sq /\ U.late = T.late /\ U.cq = T.cq /\ SamePath(T, U) /\ SameCounts(T, U)
  /\ U.snd[w] = Expired(T.snd[w]) /\ \A v \in WR : v # w => U.snd[v] = T.snd[v]
  /\ \A k \in 1..n : U.snd[T.list[k]].ready

\* The timeout scan fails a send.
LEMMA ExpireTx ==
  ASSUME TxTypes, NEW w \in WR, TimerExpire(w)
  PROVE  /\ w \in Ran(tx.list) /\ tx.snd[w].armed /\ ~tx.snd[w].ready /\ timer.pc = "idle"
         /\ \E n \in Nat : ExpireTo(tx, w, n, timer'.taken, tx') /\ timer' = [pc |-> "err", taken |-> SubSeq(tx.list, 1, n)]
<1>1. tx \in TxRec /\ tx.list \in Seq(WR) /\ tx.snd[w] \in SndRec
  BY DEF TxTypes, TxRec
<1>2. w \in Ran(tx.list) /\ tx.snd[w].armed /\ ~tx.snd[w].ready /\ timer.pc = "idle"
  BY <1>1, RanFacts DEF TimerExpire
<1> PICK Z : Z = Ready(tx, w, FALSE)
  OBVIOUS
<1> PICK z : z = ReadyWith(tx.snd[w], FALSE)
  OBVIOUS
<1>3. z \in SndRec /\ SndTo(tx, w, z, Z)
  BY <1>1, <1>2, ReadyShape
<1>4. Z \in TxRec /\ Z.snd[w] = z
  BY <1>3 DEF SndTo, SameQueues
<1> PICK s \in SndRec : s = [z EXCEPT !.expired = TRUE]
  BY <1>3 DEF SndRec
<1>5. s = Expired(tx.snd[w]) /\ s.ready
  BY <1>1 DEF SndRec, Expired, ReadyWith
<1> PICK V : V = [Z EXCEPT !.snd[w].expired = TRUE]
  OBVIOUS
<1>6. V = [Z EXCEPT !.snd[w] = s]
  BY <1>4
<1>7. SndTo(Z, w, s, V)
  <2>1. SndTo(Z, w, s, [Z EXCEPT !.snd[w] = s])
    BY ONLY <1>4, SndShape, w \in WR, s \in SndRec
  <2> QED
    BY ONLY <1>6, <2>1
<1>8. SndTo(tx, w, s, V)
  BY <1>3, <1>7 DEF SndTo, SameQueues
<1>9. V \in TxRec /\ V.list = tx.list
  BY <1>8 DEF SndTo, SameQueues
<1>10. PICK n \in Nat : /\ n <= Len(V.list) /\ ReadyPrefix(V) = SubSeq(V.list, 1, n)
                        /\ Len(ReadyPrefix(V)) = n /\ \A k \in 1..n : V.snd[V.list[k]].ready
  BY <1>9, PrefixFacts
<1> PICK l \in Seq(WR) : l = SubSeq(tx.list, n + 1, Len(tx.list))
  BY <1>1, <1>9, <1>10, SubRising
<1>11. tx' = [V EXCEPT !.list = l] /\ timer' = [pc |-> "err", taken |-> SubSeq(tx.list, 1, n)]
  <2>1. /\ tx' = [V EXCEPT !.list = SubSeq(@, Len(ReadyPrefix(V)) + 1, Len(@))]
        /\ timer' = [pc |-> "err", taken |-> ReadyPrefix(V)]
    BY DEF TimerExpire
  <2> QED
    BY <1>9, <1>10, <2>1
<1>12. /\ tx' \in TxRec /\ tx'.snd = V.snd /\ tx'.list = l /\ tx'.sq = V.sq /\ tx'.pq = V.pq
       /\ tx'.ring = V.ring /\ tx'.wrs = V.wrs /\ tx'.frm = V.frm /\ tx'.out = V.out
       /\ tx'.late = V.late /\ tx'.cq = V.cq
  BY ONLY <1>9, <1>11, l \in Seq(WR), ListShape
<1>13. ExpireTo(tx, w, n, SubSeq(tx.list, 1, n), tx')
  BY ONLY <1>5, <1>8, <1>9, <1>10, <1>12, l = SubSeq(tx.list, n + 1, Len(tx.list)), n \in Nat
     DEF ExpireTo, SndTo, SameQueues, SamePath, SameCounts
<1>14. timer'.taken = SubSeq(tx.list, 1, n)
  BY <1>11
<1> QED
  BY <1>2, <1>11, <1>13, <1>14

\* A new queue pair has its counters at zero.
LEMMA CreateTx ==
  ASSUME TxTypes, CreateQp
  PROVE  /\ tx' \in TxRec /\ tx'.snd = tx.snd /\ SameLists(tx, tx') /\ SamePath(tx, tx')
         /\ tx'.wrs = 0 /\ tx'.frm = 0 /\ tx'.out = 0
<1>1. tx \in TxRec /\ tx' = [tx EXCEPT !.wrs = 0, !.frm = 0, !.out = 0]
  BY DEF TxTypes, CreateQp
<1> PICK z \in Int : z = 0
  OBVIOUS
<1>2. tx' = [tx EXCEPT !.wrs = z, !.frm = z, !.out = z]
  BY <1>1
<1>3. /\ tx' \in TxRec /\ tx'.snd = tx.snd /\ SameLists(tx, tx') /\ SamePath(tx, tx')
      /\ tx'.wrs = z /\ tx'.frm = z /\ tx'.out = z
  BY ONLY <1>1, <1>2, z \in Int DEF TxRec, SameLists, SamePath
<1> QED
  BY <1>3

\* A queue is emptied.
PqEmptied(T) == [T EXCEPT !.pq = <<>>]
RingEmptied(T) == [T EXCEPT !.ring = <<>>]
\* A queue of the path is emptied.
LEMMA EmptiedTx ==
  ASSUME NEW T \in TxRec
  PROVE  /\ PqEmptied(T) \in TxRec /\ PqEmptied(T).snd = T.snd /\ SameLists(T, PqEmptied(T))
         /\ SameCounts(T, PqEmptied(T)) /\ PqEmptied(T).pq = <<>> /\ PqEmptied(T).ring = T.ring
         /\ RingEmptied(T) \in TxRec /\ RingEmptied(T).snd = T.snd /\ SameLists(T, RingEmptied(T))
         /\ SameCounts(T, RingEmptied(T)) /\ RingEmptied(T).pq = T.pq /\ RingEmptied(T).ring = <<>>
         /\ T.pq \in Seq(FrameRec) /\ T.ring \in Seq(FrameRec)
<1>1. <<>> \in Seq(FrameRec)
  OBVIOUS
<1> QED
  BY <1>1 DEF TxRec, PqEmptied, RingEmptied, SameLists, SameCounts

\* What is left of tx after each of the loops.
LEMMA LoopTx ==
  ASSUME RailInv, TxTypes
  PROVE  /\ WorkerEnd => Less(tx, tx')
         /\ TimerComplete => Less(tx, tx') /\ tx' = Sends!Run(FALSE, tx, timer.taken)
         /\ tx' = Flush(tx) => Less([tx EXCEPT !.sq = <<>>], tx') /\ tx'.list = <<>>
         /\ QCancel => Less(PqEmptied(tx), tx')
         /\ QBarrier => Less(RingEmptied(tx), tx')
<1>1. tx \in TxRec /\ conf \in Conf
  BY DEF TxTypes, RailInv, RailTypes
<1>2. ASSUME WorkerEnd PROVE Less(tx, tx')
  <2>1. CASE wk.pc = "fail"
    <3>1. wk.w \in WR /\ tx' = Unqueue(FALSE, tx, wk.w)
      BY <1>2, <2>1 DEF TxTypes, WorkerEnd
    <3> QED
      BY <1>1, <3>1, UnqueueLess
  <2>2. CASE wk.pc # "fail"
    BY <1>1, <1>2, <2>2, LessRefl DEF WorkerEnd
  <2> QED
    BY <2>1, <2>2
<1>3. ASSUME TimerComplete PROVE Less(tx, tx') /\ tx' = Sends!Run(FALSE, tx, timer.taken)
  <2>1. timer.taken \in Seq(WR) /\ tx' = Sends!Run(FALSE, tx, timer.taken)
    BY <1>3 DEF TxTypes, TimerRec, TimerComplete
  <2> QED
    BY <1>1, <2>1, SendsLess
<1>4. ASSUME tx' = Flush(tx) PROVE Less([tx EXCEPT !.sq = <<>>], tx') /\ tx'.list = <<>>
  BY <1>1, <1>4, FlushLess
<1>5. ASSUME QCancel PROVE Less(PqEmptied(tx), tx')
  <2>1. tx' = Frames!Run(FALSE, PqEmptied(tx), tx.pq)
    BY <1>5 DEF QCancel, PqEmptied
  <2> QED
    BY <1>1, <2>1, EmptiedTx, FramesLess
<1>6. ASSUME QBarrier PROVE Less(RingEmptied(tx), tx')
  <2>1. tx' = Frames!Run(FALSE, RingEmptied(tx), tx.ring)
    BY <1>6 DEF QBarrier, RingEmptied
  <2> QED
    BY <1>1, <2>1, EmptiedTx, FramesLess
<1> QED
  BY <1>2, <1>3, <1>4, <1>5, <1>6

-----------------------------------------------------------------------------
(* What tx holds is the queue pair's, and what a destroy has emptied.      *)

\* What tx holds is of the queue pair i.
OwnT(i, T) ==
  /\ \A w \in WR : T.snd[w].qp <= i
  /\ \A w \in Ran(T.sq) \cup Ran(T.list) \cup T.late : T.snd[w].qp = i
  /\ \A f \in Ran(T.pq) \cup Ran(T.ring) : T.snd[f[1]].qp = i
OwnInv ==
  /\ OwnT(qp.inc, tx)
  /\ poster.pc # "idle" => tx.snd[poster.w].qp = qp.inc
  /\ wk.pc \notin {"idle", "top"} => tx.snd[wk.w].qp = qp.inc
  /\ \A w \in Ran(timer.taken) : tx.snd[w].qp = qp.inc

\* How far destroy_qp has come.
Past(S) == user.pc = "free" \/ ~Exists \/ (qp.closing /\ qz.by = "user" /\ qz.pc \in S)
Past1 == Past({"timer", "cancel", "drain", "refs", "end"})
Past2 == Past({"cancel", "drain", "refs", "end"})
Past3 == Past({"drain", "refs", "end"})
Past4 == Past({"refs", "end"})
DestroyInv ==
  /\ Past1 => wk.pc = "idle" /\ kicked = FALSE
  /\ Past2 => tx.sq = <<>> /\ tx.list = <<>> /\ timer.pc = "idle"
  /\ Past3 => tx.pq = <<>>
  /\ Past4 => tx.ring = <<>>
  /\ ~Exists => tx.late = {}

Inv1 == RailInv /\ TxTypes /\ OwnInv /\ DestroyInv

\* Completions leave what is there to its queue pair.
LEMMA OwnLess ==
  ASSUME NEW i, NEW T \in TxRec, NEW U, Less(T, U), OwnT(i, T)
  PROVE  OwnT(i, U)
<1>1. /\ U \in TxRec /\ U.sq = T.sq /\ U.ring = T.ring /\ Ran(U.list) \subseteq Ran(T.list)
      /\ U.late \subseteq T.late \cup Ran(T.list) /\ Ran(U.pq) \subseteq Ran(T.pq)
      /\ \A v \in WR : U.snd[v].qp = T.snd[v].qp
  BY DEF Less, SndLess
<1>2. /\ Ran(T.sq) \subseteq WR /\ Ran(T.list) \subseteq WR /\ T.late \subseteq WR
      /\ Ran(T.pq) \subseteq FrameRec /\ Ran(T.ring) \subseteq FrameRec
  BY RanFacts DEF TxRec
<1>3. \A f \in FrameRec : f[1] \in WR
  BY DEF FrameRec
<1> QED
  BY ONLY <1>1, <1>2, <1>3, OwnT(i, T) DEF OwnT

\* The empty sequence has none.
LEMMA RanEmpty ==
  ASSUME NEW S, NEW s \in Seq(S)
  PROVE  s = <<>> <=> Ran(s) = {}
  BY RanFacts

\* Completions put nothing where nothing was.
LEMMA EmptyLess ==
  ASSUME NEW T \in TxRec, NEW U, Less(T, U)
  PROVE  /\ T.pq = <<>> => U.pq = <<>> 
         /\ T.list = <<>> => U.list = <<>>
         /\ T.list = <<>> /\ T.late = {} => U.late = {}
<1>1. U \in TxRec /\ Ran(U.pq) \subseteq Ran(T.pq) /\ Ran(U.list) \subseteq Ran(T.list)
      /\ U.late \subseteq T.late \cup Ran(T.list)
  BY DEF Less
<1>2. U.pq \in Seq(FrameRec) /\ T.pq \in Seq(FrameRec) /\ U.list \in Seq(WR) /\ T.list \in Seq(WR)
  BY <1>1 DEF TxRec
<1>3. (U.pq = <<>> <=> Ran(U.pq) = {}) /\ (T.pq = <<>> <=> Ran(T.pq) = {})
  BY ONLY <1>2, RanEmpty
<1>4. (U.list = <<>> <=> Ran(U.list) = {}) /\ (T.list = <<>> <=> Ran(T.list) = {})
  BY ONLY <1>2, RanEmpty
<1> QED
  BY ONLY <1>1, <1>3, <1>4

\* The stages of a destroy, in their order.
LEMMA PastFacts ==
  ASSUME Inv1
  PROVE  /\ Past4 => Past3 
         /\ Past3 => Past2
         /\ Past2 => Past1
         /\ ~Exists => Past4
         /\ Past1 => poster = IdlePoster /\ (qp.closing \/ ~Exists)
  BY DEF Inv1, RailInv, BindInv, UserInv, Past, Past1, Past2, Past3, Past4

\* Nothing of tx and of the work items changes.
LEMMA Quiet1 ==
  ASSUME Inv1, UNCHANGED <<tx, wk, timer, kicked, freed, poster>>, qp'.inc = qp.inc,
         Past1' => Past1, Past2' => Past2, Past3' => Past3, Past4' => Past4, Exists => Exists'
  PROVE  TxTypes' /\ OwnInv' /\ DestroyInv'
<1>1. TxTypes'
  BY DEF Inv1, TxTypes
<1>2. OwnInv'
  BY DEF Inv1, OwnInv
<1>3. DestroyInv'
  <2>1. ~Exists' => ~Exists
    OBVIOUS
  <2> QED
    BY <2>1 DEF Inv1, DestroyInv
<1> QED
  BY <1>1, <1>2, <1>3

\* The steps of the rail, of the quiesce and of the user's thread that leave tx.
LEMMA OwnUp ==
  ASSUME Inv1, RailInv', NEW n \in {"RTR", "RTS"}, NEW r \in Nat, ModifyUp(n, r)
  PROVE  TxTypes' /\ OwnInv' /\ DestroyInv'
<1> USE DEF Inv1, ModifyUp, Live, txVars, RailInv, RailTypes, QpRec, UserRec, QzRec
<1>1. UNCHANGED <<tx, wk, timer, kicked, freed, poster>> /\ qp'.inc = qp.inc /\ (Exists => Exists')
  BY DEF Exists, BindInv
<1>2. (Past1' => Past1) /\ (Past2' => Past2) /\ (Past3' => Past3) /\ (Past4' => Past4)
  BY DEF Past, Past1, Past2, Past3, Past4, Exists, BindInv, QuiesceInv, UserInv
<1> HIDE DEF Inv1, ModifyUp, Live, txVars, RailInv, RailTypes, QpRec, UserRec, QzRec
<1> QED
  BY ONLY <1>1, <1>2, Quiet1, Inv1, Zenon

\* tbv_qp_apple_bind_rail().
LEMMA OwnBind ==
  ASSUME Inv1, RailInv', Bind
  PROVE  TxTypes' /\ OwnInv' /\ DestroyInv'
<1> USE DEF Inv1, Bind, IdleUser, txVars, RailInv, RailTypes, QpRec, UserRec, QzRec
<1>1. UNCHANGED <<tx, wk, timer, kicked, freed, poster>> /\ qp'.inc = qp.inc /\ (Exists => Exists')
  BY DEF Exists, BindInv
<1>2. (Past1' => Past1) /\ (Past2' => Past2) /\ (Past3' => Past3) /\ (Past4' => Past4)
  BY DEF Past, Past1, Past2, Past3, Past4, Exists, BindInv, QuiesceInv, UserInv
<1> QED
  BY <1>1, <1>2, Quiet1

\* The transition is committed.
LEMMA OwnCommit ==
  ASSUME Inv1, RailInv', Commit
  PROVE  TxTypes' /\ OwnInv' /\ DestroyInv'
<1> USE DEF Inv1, Commit, IdleUser, txVars, RailInv, RailTypes, QpRec, UserRec, QzRec
<1>1. UNCHANGED <<tx, wk, timer, kicked, freed, poster>> /\ qp'.inc = qp.inc /\ (Exists => Exists')
  BY DEF Exists, BindInv
<1>2. (Past1' => Past1) /\ (Past2' => Past2) /\ (Past3' => Past3) /\ (Past4' => Past4)
  BY DEF Past, Past1, Past2, Past3, Past4, Exists, BindInv, QuiesceInv, UserInv
<1> QED
  BY <1>1, <1>2, Quiet1

\* modify_qp out of the transport states.
LEMMA OwnDown ==
  ASSUME Inv1, RailInv', NEW n \in {"RESET", "ERR"}, ModifyDown(n)
  PROVE  TxTypes' /\ OwnInv' /\ DestroyInv'
<1> USE DEF Inv1, ModifyDown, Live, IdleUser, txVars, RailInv, RailTypes, QpRec, UserRec, QzRec
<1>1. UNCHANGED <<tx, wk, timer, kicked, freed, poster>> /\ qp'.inc = qp.inc /\ (Exists => Exists')
  BY DEF Exists, BindInv
<1>2. (Past1' => Past1) /\ (Past2' => Past2) /\ (Past3' => Past3) /\ (Past4' => Past4)
  BY DEF Past, Past1, Past2, Past3, Past4, Exists, BindInv, QuiesceInv, UserInv
<1> QED
  BY <1>1, <1>2, Quiet1

\* The worker is joined.
LEMMA OwnJoin ==
  ASSUME Inv1, RailInv', ModifyJoin
  PROVE  TxTypes' /\ OwnInv' /\ DestroyInv'
<1> USE DEF Inv1, ModifyJoin, txVars, RailInv, RailTypes, QpRec, UserRec, QzRec
<1>1. UNCHANGED <<tx, wk, timer, kicked, freed, poster>> /\ qp'.inc = qp.inc /\ (Exists => Exists')
  BY DEF Exists, BindInv
<1>2. (Past1' => Past1) /\ (Past2' => Past2) /\ (Past3' => Past3) /\ (Past4' => Past4)
  BY DEF Past, Past1, Past2, Past3, Past4, Exists, BindInv, QuiesceInv, UserInv
<1> QED
  BY <1>1, <1>2, Quiet1

\* modify_qp ends.
LEMMA OwnEnd ==
  ASSUME Inv1, RailInv', ModifyEnd
  PROVE  TxTypes' /\ OwnInv' /\ DestroyInv'
<1> USE DEF Inv1, ModifyEnd, IdleUser, txVars, RailInv, RailTypes, QpRec, UserRec, QzRec
<1>1. UNCHANGED <<tx, wk, timer, kicked, freed, poster>> /\ qp'.inc = qp.inc /\ (Exists => Exists')
  BY DEF Exists, BindInv
<1>2. (Past1' => Past1) /\ (Past2' => Past2) /\ (Past3' => Past3) /\ (Past4' => Past4)
  BY DEF Past, Past1, Past2, Past3, Past4, Exists, BindInv, QuiesceInv, UserInv
<1> QED
  BY <1>1, <1>2, Quiet1

\* destroy_qp begins.
LEMMA OwnDestroy ==
  ASSUME Inv1, RailInv', DestroyQp
  PROVE  TxTypes' /\ OwnInv' /\ DestroyInv'
<1> USE DEF Inv1, DestroyQp, IdleUser, txVars, RailInv, RailTypes, QpRec, UserRec, QzRec
<1>1. UNCHANGED <<tx, wk, timer, kicked, freed, poster>> /\ qp'.inc = qp.inc /\ (Exists => Exists')
  BY DEF Exists, BindInv
<1>2. (Past1' => Past1) /\ (Past2' => Past2) /\ (Past3' => Past3) /\ (Past4' => Past4)
  BY DEF Past, Past1, Past2, Past3, Past4, Exists, BindInv, QuiesceInv, UserInv
<1> QED
  BY <1>1, <1>2, Quiet1

\* The watchdog.
LEMMA OwnWd ==
  ASSUME Inv1, RailInv', WatchdogFail
  PROVE  TxTypes' /\ OwnInv' /\ DestroyInv'
<1> USE DEF Inv1, WatchdogFail, txVars, RailInv, RailTypes, QpRec, UserRec, QzRec
<1>1. UNCHANGED <<tx, wk, timer, kicked, freed, poster>> /\ qp'.inc = qp.inc /\ (Exists => Exists')
  BY DEF Exists, BindInv
<1>2. (Past1' => Past1) /\ (Past2' => Past2) /\ (Past3' => Past3) /\ (Past4' => Past4)
  BY DEF Past, Past1, Past2, Past3, Past4, Exists, BindInv, QuiesceInv, UserInv
<1> QED
  BY <1>1, <1>2, Quiet1

\* Rail removal and module exit.
LEMMA OwnRm ==
  ASSUME Inv1, RailInv', NEW how, RemoveStart(how)
  PROVE  TxTypes' /\ OwnInv' /\ DestroyInv'
<1> USE DEF Inv1, RemoveStart, txVars, RailInv, RailTypes, QpRec, UserRec, QzRec
<1>1. UNCHANGED <<tx, wk, timer, kicked, freed, poster>> /\ qp'.inc = qp.inc /\ (Exists => Exists')
  BY DEF Exists, BindInv
<1>2. (Past1' => Past1) /\ (Past2' => Past2) /\ (Past3' => Past3) /\ (Past4' => Past4)
  BY DEF Past, Past1, Past2, Past3, Past4, Exists, BindInv, QuiesceInv, UserInv
<1> QED
  BY <1>1, <1>2, Quiet1

\* The quiesce begins.
LEMMA OwnQClose ==
  ASSUME Inv1, RailInv', NEW t \in {"user", "wd", "rm"}, QClose(t)
  PROVE  TxTypes' /\ OwnInv' /\ DestroyInv'
<1> USE DEF Inv1, QClose, SetPc, Waiting, IdleQz, txVars, RailInv, RailTypes, QpRec, UserRec, QzRec
<1>1. UNCHANGED <<tx, wk, timer, kicked, freed, poster>> /\ qp'.inc = qp.inc /\ (Exists => Exists')
  BY DEF Exists, BindInv
<1>2. (Past1' => Past1) /\ (Past2' => Past2) /\ (Past3' => Past3) /\ (Past4' => Past4)
  BY DEF Past, Past1, Past2, Past3, Past4, Exists, BindInv, QuiesceInv, UserInv
<1> QED
  BY <1>1, <1>2, Quiet1

\* The queue pair is moved to ERR.
LEMMA OwnQMark ==
  ASSUME Inv1, RailInv', QMark
  PROVE  TxTypes' /\ OwnInv' /\ DestroyInv'
<1> USE DEF Inv1, QMark, txVars, RailInv, RailTypes, QpRec, UserRec, QzRec
<1>1. UNCHANGED <<tx, wk, timer, kicked, freed, poster>> /\ qp'.inc = qp.inc /\ (Exists => Exists')
  BY DEF Exists, BindInv
<1>2. (Past1' => Past1) /\ (Past2' => Past2) /\ (Past3' => Past3) /\ (Past4' => Past4)
  BY DEF Past, Past1, Past2, Past3, Past4, Exists, BindInv, QuiesceInv, UserInv
<1> QED
  BY <1>1, <1>2, Quiet1

\* The ring has drained.
LEMMA OwnQDrained ==
  ASSUME Inv1, RailInv', QDrained
  PROVE  TxTypes' /\ OwnInv' /\ DestroyInv'
<1>1. UNCHANGED <<tx, wk, timer, kicked, freed, poster, qp, user>> /\ qz.pc = "drain" /\ tx.ring = <<>>
      /\ qz'.by = qz.by /\ qz'.pc = "refs"
  BY DEF Inv1, QDrained, txVars, RailInv, RailTypes, QzRec
<1>2. TxTypes' /\ OwnInv'
  BY <1>1 DEF Inv1, TxTypes, OwnInv
<1>3. DestroyInv'
  BY <1>1 DEF Inv1, DestroyInv, Past, Past1, Past2, Past3, Past4, Exists
<1> QED
  BY <1>2, <1>3

\* The references are awaited.
LEMMA OwnQRefs ==
  ASSUME Inv1, RailInv', NEW o, QRefs(o)
  PROVE  TxTypes' /\ OwnInv' /\ DestroyInv'
<1> USE DEF Inv1, QRefs, txVars, RailInv, RailTypes, QpRec, UserRec, QzRec
<1>1. UNCHANGED <<tx, wk, timer, kicked, freed, poster>> /\ qp'.inc = qp.inc /\ (Exists => Exists')
  BY DEF Exists, BindInv
<1>2. (Past1' => Past1) /\ (Past2' => Past2) /\ (Past3' => Past3) /\ (Past4' => Past4)
  BY DEF Past, Past1, Past2, Past3, Past4, Exists, BindInv, QuiesceInv, UserInv
<1> QED
  BY <1>1, <1>2, Quiet1

\* The quiesce ends.
LEMMA OwnQEnd ==
  ASSUME Inv1, RailInv', QEnd
  PROVE  TxTypes' /\ OwnInv' /\ DestroyInv'
<1> USE DEF Inv1, QEnd, SetPc, IdleQz, txVars, RailInv, RailTypes, QpRec, UserRec, QzRec
<1>1. UNCHANGED <<tx, wk, timer, kicked, freed, poster>> /\ qp'.inc = qp.inc /\ (Exists => Exists')
  BY DEF Exists, BindInv
<1>2. (Past1' => Past1) /\ (Past2' => Past2) /\ (Past3' => Past3) /\ (Past4' => Past4)
  BY DEF Past, Past1, Past2, Past3, Past4, Exists, BindInv, QuiesceInv, UserInv
<1> QED
  BY <1>1, <1>2, Quiet1

\* The destroy stands still.
LEMMA SamePast ==
  ASSUME UNCHANGED <<qp, qz, user>>
  PROVE  (Past1' <=> Past1) /\ (Past2' <=> Past2) /\ (Past3' <=> Past3) /\ (Past4' <=> Past4)
         /\ (Exists' <=> Exists)
  BY DEF Past, Past1, Past2, Past3, Past4, Exists

\* What is in the queues of U was in those of T or is of i.
LEMMA OwnMoves ==
  ASSUME NEW i, NEW T \in TxRec, NEW U \in TxRec, OwnT(i, T),
         \A v \in WR : U.snd[v].qp = T.snd[v].qp,
         \A w \in Ran(U.sq) \cup Ran(U.list) \cup U.late :
           w \in Ran(T.sq) \cup Ran(T.list) \cup T.late \/ T.snd[w].qp = i,
         \A f \in Ran(U.pq) \cup Ran(U.ring) : f \in Ran(T.pq) \cup Ran(T.ring) \/ T.snd[f[1]].qp = i
  PROVE  OwnT(i, U)
<1>1. /\ Ran(U.sq) \subseteq WR /\ Ran(U.list) \subseteq WR /\ U.late \subseteq WR
      /\ Ran(U.pq) \subseteq FrameRec /\ Ran(U.ring) \subseteq FrameRec
  BY RanFacts DEF TxRec
<1>2. \A f \in FrameRec : f[1] \in WR
  BY DEF FrameRec
<1> QED
  BY <1>1, <1>2 DEF OwnT

\* A send changes and stays its queue pair's, or becomes i's.
LEMMA OwnSnd ==
  ASSUME NEW i \in Nat, NEW T \in TxRec, NEW U, NEW w \in WR, NEW s, SndTo(T, w, s, U), OwnT(i, T),
         s.qp = i \/ s.qp = T.snd[w].qp
  PROVE  OwnT(i, U)
<1>1. /\ U.snd[w] = s /\ \A v \in WR : v # w => U.snd[v] = T.snd[v]
      /\ U.sq = T.sq /\ U.list = T.list /\ U.late = T.late /\ U.pq = T.pq /\ U.ring = T.ring
  BY DEF SndTo, SameQueues
<1>2. /\ Ran(T.sq) \subseteq WR /\ Ran(T.list) \subseteq WR /\ T.late \subseteq WR
      /\ Ran(T.pq) \subseteq FrameRec /\ Ran(T.ring) \subseteq FrameRec
  BY RanFacts DEF TxRec
<1>3. \A f \in FrameRec : f[1] \in WR
  BY DEF FrameRec
<1> QED
  BY <1>1, <1>2, <1>3 DEF OwnT

\* Posting a send.
LEMMA OwnPost ==
  ASSUME Inv1, (\E w \in WR : PostGetLive(w)) \/ PostSlot \/ PostQueueSend \/ PostQueueEntry,
         UNCHANGED railVars
  PROVE  TxTypes' /\ OwnInv' /\ DestroyInv'
<1> USE DEF Inv1
<1>0. /\ tx \in TxRec /\ qp.inc \in Nat /\ OwnT(qp.inc, tx) /\ poster \in PosterRec
      /\ \A v \in WR : tx.snd[v] \in SndRec
  BY SizeAssumption DEF TxTypes, TxRec, RailInv, RailTypes, QpRec, OwnInv
<1>1. UNCHANGED <<qp, qz, user, wk, timer>>
  BY DEF railVars, PostGetLive, PostSlot, PostQueueSend, PostQueueEntry
<1>2. ~Past1
  <2>1. poster.pc # "idle" \/ (qp.st = "RTS" /\ ~qp.closing)
    BY DEF PostGetLive, PostSlot, PostQueueSend, PostQueueEntry
  <2>2. IdlePoster.pc = "idle"
    BY DEF IdlePoster
  <2> QED
    BY <2>1, <2>2, PastFacts DEF Past1, Past, Exists
<1>3. DestroyInv'
  <2>1. ~Past1 /\ ~Past2 /\ ~Past3 /\ ~Past4 /\ Exists
    BY <1>2, PastFacts
  <2>2. ~Past1' /\ ~Past2' /\ ~Past3' /\ ~Past4' /\ Exists'
    BY <1>1, <2>1, SamePast
  <2> QED
    BY <2>2 DEF DestroyInv
<1>4. /\ tx' \in TxRec /\ OwnT(qp.inc, tx')
      /\ \A v \in WR : tx'.snd[v].qp = qp.inc \/ tx'.snd[v].qp = tx.snd[v].qp
      /\ poster'.pc # "idle" => tx'.snd[poster'.w].qp = qp.inc
      /\ kicked' \in BOOLEAN /\ freed' \in BOOLEAN
  <2>1. ASSUME NEW w \in WR, PostGetLive(w) PROVE <1>4!:
    <3> PICK s : s = [tx.snd[w] EXCEPT !.qp = qp.inc, !.ep = qp.ep]
      OBVIOUS
    <3>1. SndTo(tx, w, s, tx')
      BY <2>1, PostGetLiveTx
    <3>2. s.qp = qp.inc
      BY <1>0 DEF SndRec
    <3>3. poster' = [pc |-> "slot", w |-> w] /\ UNCHANGED <<kicked, freed>>
      BY <2>1 DEF PostGetLive
    <3>4. OwnT(qp.inc, tx')
      BY <1>0, <3>1, <3>2, OwnSnd
    <3> QED
      BY <3>1, <3>2, <3>3, <3>4 DEF SndTo, SameQueues, TxTypes
  <2>2. CASE PostSlot
    <3> PICK w \in WR : w = poster.w
      BY <2>2 DEF PostSlot, RailInv, UserInv
    <3>0. tx.snd[w].qp = qp.inc /\ poster.pc = "slot" /\ UNCHANGED <<kicked, freed>>
      BY <2>2 DEF PostSlot, OwnInv
    <3>1. CASE poster' = IdlePoster /\ SndTo(tx, w, [tx.snd[w] EXCEPT !.done = TRUE], tx')
      <4> PICK s : s = [tx.snd[w] EXCEPT !.done = TRUE]
        OBVIOUS
      <4>1. s.qp = tx.snd[w].qp
        BY <1>0 DEF SndRec
      <4>2. OwnT(qp.inc, tx')
        BY <1>0, <3>1, <4>1, OwnSnd
      <4> QED
        BY <3>0, <3>1, <4>1, <4>2 DEF SndTo, SameQueues, IdlePoster, TxTypes
    <3>2. CASE /\ poster' = [poster EXCEPT !.pc = "queue"]
               /\ tx' \in TxRec /\ SameLists(tx, tx') /\ SamePath(tx, tx')
               /\ tx'.snd[w] = [tx.snd[w] EXCEPT !.counted = TRUE]
               /\ \A v \in WR : v # w => tx'.snd[v] = tx.snd[v]
      <4>1. tx'.snd[w].qp = tx.snd[w].qp
        BY <1>0, <3>2 DEF SndRec
      <4>2. \A v \in WR : tx'.snd[v].qp = tx.snd[v].qp
        BY <3>2, <4>1
      <4>4. OwnT(qp.inc, tx')
        BY <1>0, <3>2, <4>2, OwnMoves DEF SameLists, SamePath
      <4>5. poster'.w = w
        BY <1>0, <3>2 DEF PosterRec
      <4> QED
        BY <3>0, <3>2, <4>2, <4>4, <4>5 DEF TxTypes
    <3> QED
      BY <2>2, <3>1, <3>2, PostSlotTx
  <2>3. CASE PostQueueSend
    <3> PICK w \in WR : w = poster.w
      BY <2>3 DEF PostQueueSend, RailInv, UserInv
    <3>0. tx.snd[w].qp = qp.inc /\ poster'.w = w /\ UNCHANGED <<kicked, freed>>
      BY <1>0, <2>3 DEF PostQueueSend, OwnInv, PosterRec
    <3>1. /\ tx' \in TxRec /\ tx'.snd = tx.snd /\ tx'.list = Append(tx.list, w) /\ tx'.sq = tx.sq
          /\ tx'.late = tx.late /\ SamePath(tx, tx')
      BY <2>3, PostQueueSendTx
    <3>a. tx.list \in Seq(WR)
      BY <1>0 DEF TxRec
    <3>2. Ran(tx'.list) = Ran(tx.list) \cup {w}
      BY ONLY <3>1, <3>a, RanAppend, w \in WR
    <3>4. OwnT(qp.inc, tx')
      BY <1>0, <3>0, <3>1, <3>2, OwnMoves DEF SamePath
    <3> QED
      BY <3>0, <3>1, <3>4 DEF TxTypes
  <2>4. CASE PostQueueEntry
    <3> PICK w \in WR : w = poster.w
      BY <2>4 DEF PostQueueEntry, RailInv, UserInv
    <3>0. tx.snd[w].qp = qp.inc /\ poster' = IdlePoster /\ kicked' = TRUE /\ freed' = ~Alive(w)
      BY <1>0, <2>4 DEF PostQueueEntry, OwnInv, PosterRec
    <3>1. /\ tx' \in TxRec /\ tx'.snd = tx.snd /\ tx'.list = tx.list /\ tx'.sq = Append(tx.sq, w)
          /\ tx'.late = tx.late /\ SamePath(tx, tx')
      BY <2>4, PostQueueEntryTx
    <3>a. tx.sq \in Seq(WR)
      BY <1>0 DEF TxRec
    <3>2. Ran(tx'.sq) = Ran(tx.sq) \cup {w}
      BY ONLY <3>1, <3>a, RanAppend, w \in WR
    <3>4. OwnT(qp.inc, tx')
      BY <1>0, <3>0, <3>1, <3>2, OwnMoves DEF SamePath
    <3>5. (~Alive(w)) \in BOOLEAN
      OBVIOUS
    <3> QED
      BY <3>0, <3>1, <3>4, <3>5 DEF IdlePoster
  <2> QED
    BY <2>1, <2>2, <2>3, <2>4
<1>5. TxTypes'
  BY <1>1, <1>4 DEF TxTypes
<1>6. OwnInv'
  <2>1. wk.pc \notin {"idle", "top"} => wk.w \in WR
    BY DEF TxTypes
  <2>2. Ran(timer.taken) \subseteq WR
    BY RanFacts DEF TxTypes, TimerRec
  <2> QED
    BY <1>1, <1>4, <2>1, <2>2 DEF OwnInv
<1> QED
  BY <1>3, <1>5, <1>6

\* Nothing of another queue pair comes in.
LEMMA OwnKeep ==
  ASSUME Inv1, qp'.inc = qp.inc, UNCHANGED poster, tx' \in TxRec, OwnT(qp.inc, tx'),
         \A v \in WR : tx'.snd[v].qp = tx.snd[v].qp,
         wk' = wk \/ (wk'.pc \notin {"idle", "top"} => wk'.w \in WR /\ tx.snd[wk'.w].qp = qp.inc),
         timer'.taken = timer.taken \/ \A w \in Ran(timer'.taken) : w \in WR /\ tx.snd[w].qp = qp.inc
  PROVE  OwnInv'
<1>1. wk'.pc \notin {"idle", "top"} => wk'.w \in WR /\ tx.snd[wk'.w].qp = qp.inc
  BY DEF Inv1, OwnInv, TxTypes
<1>2. \A w \in Ran(timer'.taken) : w \in WR /\ tx.snd[w].qp = qp.inc
  BY RanFacts DEF Inv1, OwnInv, TxTypes, TimerRec
<1>3. poster.pc # "idle" => poster.w \in WR
  BY DEF Inv1, RailInv, UserInv
<1> QED
  BY <1>1, <1>2, <1>3 DEF Inv1, OwnInv

\* A destroy that has not joined the worker has emptied nothing.
LEMMA NotPast ==
  ASSUME Inv1, ~Past1, UNCHANGED <<qp, qz, user>>
  PROVE  DestroyInv'
<1>1. ~Past1 /\ ~Past2 /\ ~Past3 /\ ~Past4 /\ Exists
  BY PastFacts
<1>2. ~Past1' /\ ~Past2' /\ ~Past3' /\ ~Past4' /\ Exists'
  BY <1>1, SamePast
<1> QED
  BY <1>2 DEF DestroyInv

\* The worker's steps that leave tx alone.
LEMMA OwnWorkerPc ==
  ASSUME Inv1, WorkerGet \/ WorkerPath(BoundTo) \/ WorkerCheck \/ WorkerGroup, UNCHANGED railVars
  PROVE  TxTypes' /\ OwnInv' /\ DestroyInv'
<1>1. UNCHANGED <<conf, qp, tx, kicked, poster, timer, qz, user>> /\ wk.pc \notin {"idle", "top"}
  BY DEF railVars, WorkerGet, WorkerPath, WorkerCheck, WorkerGroup
<1>2. wk \in WkRec /\ wk.ref = (wk.pc # "popped") /\ wk.w \in WR
  BY <1>1 DEF Inv1, TxTypes
<1>3. wk' \in WkRec /\ wk'.w = wk.w /\ wk'.ref = TRUE /\ wk'.pc \notin {"idle", "top", "popped"}
  BY <1>1, <1>2 DEF WorkerGet, WorkerPath, WorkerCheck, WorkerGroup, WkRec
<1>4. freed' \in BOOLEAN
  BY DEF Inv1, TxTypes, WorkerGet, WorkerPath, WorkerCheck, WorkerGroup
<1>5. TxTypes'
  BY <1>1, <1>2, <1>3, <1>4 DEF Inv1, TxTypes
<1>6. OwnInv'
  BY <1>1, <1>3 DEF Inv1, OwnInv
<1>7. DestroyInv'
  <2>1. ~Past1
    BY <1>1 DEF Inv1, DestroyInv
  <2> QED
    BY <1>1, <2>1, NotPast
<1> QED
  BY <1>5, <1>6, <1>7

\* The worker takes an entry or ends.
LEMMA OwnWorkerPop ==
  ASSUME Inv1, WorkerPop, UNCHANGED railVars
  PROVE  TxTypes' /\ OwnInv' /\ DestroyInv'
<1>1. UNCHANGED <<conf, qp, poster, timer, qz, user, freed>> /\ (wk.pc = "top" \/ kicked)
      /\ kicked' \in BOOLEAN
  BY DEF railVars, WorkerPop, Inv1, TxTypes
<1>2. ~Past1
  BY <1>1 DEF Inv1, DestroyInv
<1>3. DestroyInv'
  BY <1>1, <1>2, NotPast
<1>4. tx \in TxRec /\ OwnT(qp.inc, tx)
  BY DEF Inv1, TxTypes, OwnInv
<1>5. CASE wk' = IdleWorker /\ tx' = tx
  <2>1. wk' \in WkRec /\ wk'.pc = "idle" /\ wk'.ref = FALSE
    BY <1>5, SizeAssumption DEF IdleWorker, WkRec
  <2>2. TxTypes'
    BY <1>1, <1>5, <2>1 DEF Inv1, TxTypes
  <2> QED
    BY <1>1, <1>3, <1>4, <1>5, <2>1, <2>2, OwnKeep
<1>6. CASE /\ wk' = [IdleWorker EXCEPT !.pc = "popped", !.w = Head(tx.sq)]
           /\ tx' \in TxRec /\ tx'.snd = tx.snd /\ tx'.list = tx.list /\ tx'.sq = Tail(tx.sq)
           /\ tx'.late = tx.late /\ tx'.cq = tx.cq /\ SamePath(tx, tx')
           /\ Head(tx.sq) \in WR /\ Ran(tx.sq) = Ran(Tail(tx.sq)) \cup {Head(tx.sq)}
  <2> PICK h \in WR : h = Head(tx.sq)
    BY <1>6
  <2>1. wk' = [pc |-> "popped", w |-> h, posted |-> 0, group |-> 0, ref |-> FALSE]
    BY <1>6 DEF IdleWorker
  <2>2. wk' \in WkRec /\ wk'.pc = "popped" /\ wk'.w = h /\ wk'.ref = FALSE
    BY <2>1, SizeAssumption DEF WkRec, WR
  <2>3. TxTypes'
    BY <1>1, <1>6, <2>2 DEF Inv1, TxTypes
  <2>4. OwnT(qp.inc, tx')
    BY <1>4, <1>6, OwnMoves DEF SamePath
  <2>5. tx.snd[h].qp = qp.inc
    BY <1>4, <1>6 DEF OwnT
  <2>6. OwnInv'
    BY <1>1, <1>6, <2>2, <2>4, <2>5, OwnKeep
  <2> QED
    BY <1>3, <2>3, <2>6
<1> QED
  BY <1>5, <1>6, WorkerPopTx DEF Inv1

\* The worker's steps that keep its send.
LEMMA OwnWorkerTx ==
  ASSUME Inv1, UNCHANGED <<conf, qp, kicked, poster, timer, freed, qz, user>>,
         wk.pc \notin {"idle", "top"}, wk' \in WkRec, wk'.w = wk.w, wk'.ref = TRUE,
         wk'.pc \notin {"idle", "top", "popped"},
         tx' \in TxRec, OwnT(qp.inc, tx'), \A v \in WR : tx'.snd[v].qp = tx.snd[v].qp
  PROVE  TxTypes' /\ OwnInv' /\ DestroyInv'
<1>1. wk.w \in WR /\ tx.snd[wk.w].qp = qp.inc
  BY DEF Inv1, TxTypes, OwnInv
<1>2. TxTypes'
  BY <1>1 DEF Inv1, TxTypes
<1>3. OwnInv'
  BY <1>1, OwnKeep
<1>4. ~Past1
  BY DEF Inv1, DestroyInv
<1> QED
  BY <1>2, <1>3, <1>4, NotPast

\* The worker takes the window or gives it back.
LEMMA OwnWorkerWin ==
  ASSUME Inv1, WorkerWindow \/ WorkerReserve(rail.closed), UNCHANGED railVars
  PROVE  TxTypes' /\ OwnInv' /\ DestroyInv'
<1>1. /\ UNCHANGED <<conf, qp, kicked, poster, timer, freed, qz, user>>
      /\ wk.pc \in {"window", "reserve"} /\ wk \in WkRec /\ wk.w \in WR /\ wk.ref = TRUE /\ tx \in TxRec
      /\ conf \in Conf /\ OwnT(qp.inc, tx)
  BY DEF railVars, WorkerWindow, WorkerReserve, Inv1, TxTypes, RailInv, RailTypes, OwnInv
<1>2. wk' \in WkRec /\ wk'.w = wk.w /\ wk'.ref = TRUE /\ wk'.pc \notin {"idle", "top", "popped"}
  BY <1>1 DEF WorkerWindow, WorkerReserve, WkRec
<1>3. tx' = tx \/ \E d : WindowTo(tx, d, tx')
  BY <1>1, WindowTx DEF WorkerWindow, WorkerReserve
<1>4. tx' \in TxRec /\ tx'.snd = tx.snd /\ SameLists(tx, tx') /\ SamePath(tx, tx')
  BY <1>1, <1>3 DEF WindowTo, SameLists, SamePath
<1>5. OwnT(qp.inc, tx')
  BY <1>1, <1>4, OwnMoves DEF SameLists, SamePath
<1> QED
  BY <1>1, <1>2, <1>4, <1>5, OwnWorkerTx

\* The worker arms the send.
LEMMA OwnWorkerSet ==
  ASSUME Inv1, WorkerSet, UNCHANGED railVars
  PROVE  TxTypes' /\ OwnInv' /\ DestroyInv'
<1>1. /\ UNCHANGED <<conf, qp, kicked, poster, timer, freed, qz, user>>
      /\ wk.pc = "set" /\ wk \in WkRec /\ wk.w \in WR /\ wk.ref = TRUE /\ tx \in TxRec
      /\ conf \in Conf /\ OwnT(qp.inc, tx)
  BY DEF railVars, WorkerSet, Inv1, TxTypes, RailInv, RailTypes, OwnInv
<1>0. qp.inc \in Nat
  BY SizeAssumption DEF Inv1, RailInv, RailTypes, QpRec
<1>2. wk' \in WkRec /\ wk'.w = wk.w /\ wk'.ref = TRUE /\ wk'.pc = "post"
  BY <1>1 DEF WorkerSet, WkRec
<1> PICK s : s = [tx.snd[wk.w] EXCEPT !.win = TRUE, !.left = conf.len[wk.w],
                                      !.armed = (wk.w \in Ran(tx.list))]
  OBVIOUS
<1>3. SndTo(tx, wk.w, s, tx')
  BY WorkerSetTx DEF Inv1
<1>4. s.qp = tx.snd[wk.w].qp
  BY <1>1 DEF TxRec, SndRec
<1> PICK w \in WR : w = wk.w
  BY <1>1
<1>5. OwnT(qp.inc, tx')
  BY <1>0, <1>1, <1>3, <1>4, OwnSnd
<1>6. tx' \in TxRec /\ \A v \in WR : tx'.snd[v].qp = tx.snd[v].qp
  BY <1>3, <1>4 DEF SndTo, SameQueues
<1> QED
  BY <1>1, <1>2, <1>5, <1>6, OwnWorkerTx

\* The worker posts a frame.
LEMMA OwnWorkerPost ==
  ASSUME Inv1, WorkerPost(rail.closed), UNCHANGED railVars
  PROVE  TxTypes' /\ OwnInv' /\ DestroyInv'
<1>1. /\ UNCHANGED <<conf, qp, kicked, poster, timer, freed, qz, user>>
      /\ wk.pc = "frame" /\ wk \in WkRec /\ wk.w \in WR /\ wk.ref = TRUE /\ tx \in TxRec
      /\ conf \in Conf /\ OwnT(qp.inc, tx) /\ tx.snd[wk.w].qp = qp.inc
  BY DEF railVars, WorkerPost, Inv1, TxTypes, RailInv, RailTypes, OwnInv
<1>2. wk' \in WkRec /\ wk'.w = wk.w /\ wk'.ref = TRUE /\ wk'.pc \notin {"idle", "top", "popped"}
  <2>1. CASE rail.closed
    BY <1>1, <2>1 DEF WorkerPost, WkRec
  <2>2. CASE ~rail.closed
    <3> PICK b : b = (conf.group > 0 /\ wk.group + 1 >= conf.group)
      OBVIOUS
    <3> PICK m : m = (wk.posted + 1 < conf.len[wk.w])
      OBVIOUS
    <3>1. wk.group + 1 \in Nat /\ wk.posted + 1 \in Nat
      BY <1>1 DEF WkRec
    <3> PICK g \in Nat : g = IF b THEN 0 ELSE wk.group + 1
      BY <3>1
    <3> PICK p \in {"end", "group", "post"} : p = IF ~m THEN "end" ELSE IF b THEN "group" ELSE "post"
      OBVIOUS
    <3>2. wk' = [wk EXCEPT !.posted = wk.posted + 1, !.group = g, !.pc = p]
      BY <1>1, <2>2 DEF WorkerPost
    <3> QED
      BY ONLY <1>1, <3>1, <3>2, g \in Nat, p \in {"end", "group", "post"} DEF WkRec
  <2> QED
    BY <2>1, <2>2
<1>3. tx' \in TxRec /\ OwnT(qp.inc, tx') /\ \A v \in WR : tx'.snd[v].qp = tx.snd[v].qp
  <2>1. CASE rail.closed
    BY <1>1, <2>1 DEF WorkerPost
  <2>2. CASE ~rail.closed
    <3> PICK f \in FrameRec : f = <<wk.w, qp.ep>>
      BY <2>2, WorkerPostTx DEF Inv1
    <3>1. /\ tx' \in TxRec /\ tx'.snd = tx.snd /\ SameLists(tx, tx') /\ tx'.ring = tx.ring
          /\ tx'.pq = Append(tx.pq, f)
      BY <2>2, WorkerPostTx DEF Inv1
    <3>0. tx.pq \in Seq(FrameRec)
      BY <1>1 DEF TxRec
    <3>2. Ran(tx'.pq) = Ran(tx.pq) \cup {f}
      BY ONLY <3>0, <3>1, f \in FrameRec, RanAppend
    <3>4. tx.snd[f[1]].qp = qp.inc
      BY <1>1
    <3>5. \A w \in Ran(tx'.sq) \cup Ran(tx'.list) \cup tx'.late :
            w \in Ran(tx.sq) \cup Ran(tx.list) \cup tx.late
      BY <3>1 DEF SameLists
    <3>6. \A h \in Ran(tx'.pq) \cup Ran(tx'.ring) :
            h \in Ran(tx.pq) \cup Ran(tx.ring) \/ tx.snd[h[1]].qp = qp.inc
      BY ONLY <3>1, <3>2, <3>4
    <3>3. OwnT(qp.inc, tx')
      BY ONLY <1>1, <3>1, <3>5, <3>6, OwnMoves
    <3> QED
      BY <3>1, <3>3
  <2> QED
    BY <2>1, <2>2
<1> QED
  BY <1>1, <1>2, <1>3, OwnWorkerTx

\* The worker is done with an entry.
LEMMA OwnWorkerEnd ==
  ASSUME Inv1, WorkerEnd, UNCHANGED railVars
  PROVE  TxTypes' /\ OwnInv' /\ DestroyInv'
<1>1. /\ UNCHANGED <<conf, qp, kicked, poster, timer, freed, qz, user>>
      /\ wk.pc # "idle" /\ tx \in TxRec /\ OwnT(qp.inc, tx)
      /\ wk' = [pc |-> "top", w |-> 0, posted |-> 0, group |-> 0, ref |-> FALSE]
  BY DEF railVars, WorkerEnd, IdleWorker, Inv1, TxTypes, OwnInv
<1>2. wk' \in WkRec /\ wk'.ref = FALSE /\ wk'.pc = "top"
  BY <1>1, SizeAssumption DEF WkRec
<1>3. Less(tx, tx')
  BY LoopTx DEF Inv1
<1>8. OwnT(qp.inc, tx')
  BY <1>1, <1>3, OwnLess
<1>4. tx' \in TxRec /\ OwnT(qp.inc, tx') /\ \A v \in WR : tx'.snd[v].qp = tx.snd[v].qp
  BY <1>3, <1>8 DEF Less, SndLess
<1>5. TxTypes'
  BY <1>1, <1>2, <1>4 DEF Inv1, TxTypes
<1>6. OwnInv'
  BY <1>1, <1>2, <1>4, OwnKeep
<1>7. ~Past1
  BY <1>1 DEF Inv1, DestroyInv
<1> QED
  BY <1>1, <1>5, <1>6, <1>7, NotPast

\* Frames on the path are those of a queue pair that is not as far as Past3.
LEMMA OwnPath ==
  ASSUME Inv1, PathSchedule(rail.closed), UNCHANGED railVars
  PROVE  TxTypes' /\ OwnInv' /\ DestroyInv'
<1>1. UNCHANGED <<conf, qp, wk, kicked, poster, timer, freed, qz, user>> /\ tx \in TxRec /\ OwnT(qp.inc, tx)
  BY DEF railVars, PathSchedule, Inv1, TxTypes, OwnInv
<1> PICK h \in FrameRec : h = Head(tx.pq)
  BY PathScheduleTx DEF Inv1
<1>2. /\ tx.pq # <<>> /\ tx' \in TxRec /\ tx'.snd = tx.snd /\ SameLists(tx, tx')
      /\ tx'.ring = Append(tx.ring, h) /\ tx'.pq = Tail(tx.pq)
  BY PathScheduleTx DEF Inv1
<1>3. tx.pq \in Seq(FrameRec) /\ tx.ring \in Seq(FrameRec)
  BY <1>1 DEF TxRec
<1>4. Ran(tx'.ring) = Ran(tx.ring) \cup {h}
  BY ONLY <1>2, <1>3, RanAppend, h \in FrameRec
<1>5. Ran(tx.pq) = Ran(tx'.pq) \cup {h}
  BY ONLY <1>2, <1>3, RanTail, h = Head(tx.pq)
<1>6. OwnT(qp.inc, tx')
  BY <1>1, <1>2, <1>4, <1>5, OwnMoves DEF SameLists
<1>7. TxTypes'
  BY <1>1, <1>2 DEF Inv1, TxTypes
<1>8. OwnInv'
  BY <1>1, <1>2, <1>6, OwnKeep
<1>9. DestroyInv'
  <2>1. ~Past3 /\ ~Past4 /\ Exists
    BY <1>2, PastFacts DEF Inv1, DestroyInv
  <2>2. ~Past3' /\ ~Past4' /\ Exists' /\ (Past1' => Past1) /\ (Past2' => Past2)
    BY <1>1, <2>1, SamePast
  <2> QED
    BY <1>1, <1>2, <2>2 DEF Inv1, DestroyInv, SameLists
<1> QED
  BY <1>7, <1>8, <1>9

\* Completions: tx' is what is left of T, and T is tx with less in its queues.
Cleared(T, U) ==
  /\ T \in TxRec /\ \A v \in WR : T.snd[v].qp = tx.snd[v].qp
  /\ Ran(T.sq) \subseteq Ran(tx.sq) /\ Ran(T.list) \subseteq Ran(tx.list) /\ T.late \subseteq tx.late
  /\ Ran(T.pq) \subseteq Ran(tx.pq) /\ Ran(T.ring) \subseteq Ran(tx.ring) /\ Less(T, U)

\* What a step of completions leaves.
LEMMA ClearedFacts ==
  ASSUME Inv1, NEW T, NEW U, Cleared(T, U)
  PROVE  /\ U \in TxRec /\ OwnT(qp.inc, U) /\ \A v \in WR : U.snd[v].qp = tx.snd[v].qp
         /\ tx.sq = <<>> => U.sq = <<>>
         /\ tx.list = <<>> => U.list = <<>>
         /\ tx.pq = <<>> => U.pq = <<>>
         /\ tx.ring = <<>> => U.ring = <<>>
         /\ tx.list = <<>> /\ tx.late = {} => U.late = {}
<1>1. T \in TxRec /\ tx \in TxRec /\ OwnT(qp.inc, tx) /\ Less(T, U)
  BY DEF Inv1, TxTypes, OwnInv, Cleared
<1>2. OwnT(qp.inc, T)
  BY <1>1, OwnMoves DEF Cleared
<1>3. OwnT(qp.inc, U)
  BY <1>1, <1>2, OwnLess
<1>4. U \in TxRec /\ \A v \in WR : U.snd[v].qp = tx.snd[v].qp
  BY <1>1 DEF Less, SndLess, Cleared
<1>5. /\ U.sq = T.sq /\ U.ring = T.ring /\ Ran(U.list) \subseteq Ran(T.list)
      /\ U.late \subseteq T.late \cup Ran(T.list) /\ Ran(U.pq) \subseteq Ran(T.pq)
  BY <1>1 DEF Less
<1>6. /\ Ran(U.sq) \subseteq Ran(tx.sq) /\ Ran(U.list) \subseteq Ran(tx.list)
      /\ U.late \subseteq tx.late \cup Ran(tx.list)
      /\ Ran(U.pq) \subseteq Ran(tx.pq) /\ Ran(U.ring) \subseteq Ran(tx.ring)
  BY <1>5 DEF Cleared
<1>7. /\ U.sq \in Seq(WR) /\ tx.sq \in Seq(WR) /\ U.list \in Seq(WR) /\ tx.list \in Seq(WR)
      /\ U.pq \in Seq(FrameRec) /\ tx.pq \in Seq(FrameRec)
      /\ U.ring \in Seq(FrameRec) /\ tx.ring \in Seq(FrameRec)
  BY <1>1, <1>4 DEF TxRec
<1>8. /\ (U.sq = <<>> <=> Ran(U.sq) = {}) /\ (tx.sq = <<>> <=> Ran(tx.sq) = {})
      /\ (U.list = <<>> <=> Ran(U.list) = {}) /\ (tx.list = <<>> <=> Ran(tx.list) = {})
  BY ONLY <1>7, RanEmpty
<1>9. /\ (U.pq = <<>> <=> Ran(U.pq) = {}) /\ (tx.pq = <<>> <=> Ran(tx.pq) = {})
      /\ (U.ring = <<>> <=> Ran(U.ring) = {}) /\ (tx.ring = <<>> <=> Ran(tx.ring) = {})
  BY ONLY <1>7, RanEmpty
<1> QED
  BY ONLY <1>3, <1>4, <1>6, <1>8, <1>9

\* A step of completions only, and one that moves the timeout work.
LEMMA OwnClear ==
  ASSUME Inv1, NEW T, Cleared(T, tx'), qp'.inc = qp.inc, UNCHANGED <<poster, wk, kicked, freed>>,
         timer' = timer \/ (timer.pc # "idle" /\ timer' = IdleTimer) \/ 
         (timer.pc # "idle" /\ timer' = [timer EXCEPT !.pc = "complete"]),
         Past1' => Past1,
         Past2' => Past2 \/ (tx'.list = <<>> /\ tx'.sq = <<>> /\ timer.pc = "idle"),
         Past3' => Past3 \/ tx'.pq = <<>>,
         Past4' => Past4 \/ tx'.ring = <<>>, 
         ~Exists' => ~Exists
  PROVE  TxTypes' /\ OwnInv' /\ DestroyInv'
<1>1. /\ tx' \in TxRec /\ OwnT(qp.inc, tx') /\ \A v \in WR : tx'.snd[v].qp = tx.snd[v].qp
      /\ tx.sq = <<>> => tx'.sq = <<>>
      /\ tx.list = <<>> => tx'.list = <<>>
      /\ tx.pq = <<>> => tx'.pq = <<>>
      /\ tx.ring = <<>> => tx'.ring = <<>>
      /\ tx.list = <<>> /\ tx.late = {} => tx'.late = {}
  BY ClearedFacts
<1>2. timer \in TimerRec /\ <<>> \in Seq(WR)
  BY DEF Inv1, TxTypes
<1>3. /\ timer' \in TimerRec /\ (timer.pc = "idle" => timer'.pc = "idle")
      /\ (timer'.taken = timer.taken \/ timer'.taken = <<>>)
      /\ (timer'.pc = "idle" => timer'.taken = <<>>)
  <2>1. CASE timer' = timer
    BY <1>2, <2>1 DEF Inv1, TxTypes
  <2>2. CASE timer' = IdleTimer
    BY <1>2, <2>2 DEF IdleTimer, TimerRec
  <2>3. CASE timer.pc # "idle" /\ timer' = [timer EXCEPT !.pc = "complete"]
    BY <1>2, <2>3 DEF TimerRec
  <2> QED
    BY <2>1, <2>2, <2>3
<1>4. TxTypes'
  BY <1>1, <1>3 DEF Inv1, TxTypes
<1>5. OwnInv'
  <2>1. Ran(<<>>) = {}
    BY DEF Ran
  <2> QED
    BY <1>1, <1>3, <2>1, OwnKeep
<1>6. DestroyInv'
  <2>1. ~Exists => tx.list = <<>> /\ tx.late = {}
    BY PastFacts DEF Inv1, DestroyInv
  <2> QED
    BY <1>1, <1>3, <2>1 DEF Inv1, DestroyInv
<1> QED
  BY <1>4, <1>5, <1>6

\* The NHI transmits.
LEMMA OwnNhi ==
  ASSUME Inv1, NhiSend, UNCHANGED railVars
  PROVE  TxTypes' /\ OwnInv' /\ DestroyInv'
<1>1. UNCHANGED <<conf, qp, wk, kicked, poster, timer, freed, qz, user>> /\ tx \in TxRec /\ conf \in Conf
  BY DEF railVars, NhiSend, Inv1, TxTypes, RailInv, RailTypes
<1> PICK w \in WR : w = Head(tx.ring)[1]
  BY NhiSendTx DEF Inv1
<1>2. PICK T : SentTo(tx, w, T) /\ tx' = TxDone(T, w, TRUE)
  BY NhiSendTx DEF Inv1
<1>3. tx.ring # <<>> /\ T \in TxRec /\ T.ring = Tail(tx.ring)
  BY <1>2, NhiSendTx DEF Inv1, SentTo
<1>4. Less(T, tx')
  BY <1>1, <1>2, <1>3, TxDoneLess
<1>5. tx.ring \in Seq(FrameRec) /\ tx.snd[w] \in SndRec
  BY <1>1 DEF TxRec
<1>6. Ran(T.ring) \subseteq Ran(tx.ring)
  BY ONLY <1>3, <1>5, RanTail
<1>7. \A v \in WR : T.snd[v].qp = tx.snd[v].qp
  <2>1. T.snd[w].qp = tx.snd[w].qp
    BY <1>2, <1>5 DEF SentTo, SndRec
  <2> QED
    BY <1>2, <2>1, Zenon DEF SentTo
<1>8. Cleared(T, tx')
  BY <1>2, <1>3, <1>4, <1>6, <1>7 DEF Cleared, SentTo, SameLists
<1> QED
  BY <1>1, <1>8, OwnClear, SamePast

\* A delayed completion.
LEMMA OwnLate ==
  ASSUME Inv1, NEW w, SendCompleteWork(w), UNCHANGED railVars
  PROVE  TxTypes' /\ OwnInv' /\ DestroyInv'
<1>1. UNCHANGED <<conf, qp, wk, kicked, poster, timer, freed, qz, user>> /\ tx \in TxRec /\ conf \in Conf
  BY DEF railVars, SendCompleteWork, Inv1, TxTypes, RailInv, RailTypes
<1> PICK T : T = SendComplete(tx, w, TRUE)
  OBVIOUS
<1>2. w \in WR /\ LateTo(T, w, tx')
  BY LateTx DEF Inv1
<1>3. Less(tx, T)
  BY <1>1, <1>2, DoneLess
<1>4. Less(tx, tx')
  BY <1>2, <1>3 DEF LateTo, Less, SamePath
<1>5. Cleared(tx, tx')
  BY <1>1, <1>4 DEF Cleared
<1> QED
  BY <1>1, <1>5, OwnClear, SamePast

\* The timeout scan.
LEMMA OwnExpire ==
  ASSUME Inv1, NEW w \in WR, TimerExpire(w), UNCHANGED railVars
  PROVE  TxTypes' /\ OwnInv' /\ DestroyInv'
<1>1. UNCHANGED <<conf, qp, wk, kicked, poster, freed, qz, user>> /\ tx \in TxRec /\ tx.list \in Seq(WR)
      /\ OwnT(qp.inc, tx)
  BY DEF railVars, TimerExpire, Inv1, TxTypes, TxRec, OwnInv
<1>2. PICK n \in Nat : /\ ExpireTo(tx, w, n, timer'.taken, tx')
                       /\ timer' = [pc |-> "err", taken |-> SubSeq(tx.list, 1, n)]
  BY ExpireTx DEF Inv1
<1>3. w \in Ran(tx.list) /\ timer.pc = "idle"
  BY ExpireTx DEF Inv1
<1> PICK t \in Seq(WR) : t = SubSeq(tx.list, 1, n) /\ Ran(t) \subseteq Ran(tx.list)
  <2>1. n <= Len(tx.list)
    BY <1>2 DEF ExpireTo
  <2>2. SubSeq(tx.list, 1, n) \in Seq(WR) /\ Ran(SubSeq(tx.list, 1, n)) \subseteq Ran(tx.list)
    BY ONLY <1>1, <2>1, SubRising, n \in Nat
  <2> QED
    BY ONLY <2>2
<1>4. tx'.list \in Seq(WR) /\ Ran(tx'.list) \subseteq Ran(tx.list)
  <2>1. n <= Len(tx.list) /\ tx'.list = SubSeq(tx.list, n + 1, Len(tx.list))
    BY <1>2 DEF ExpireTo
  <2> QED
    BY <1>1, <2>1, SubRising
<1>5. timer' \in TimerRec /\ timer'.pc = "err" /\ timer'.taken = t
  BY <1>2 DEF TimerRec
<1>6. tx' \in TxRec
  BY <1>2 DEF ExpireTo
<1>7. \A v \in WR : tx'.snd[v].qp = tx.snd[v].qp
  <2>1. tx.snd[w] \in SndRec
    BY <1>1 DEF TxRec
  <2>2. Expired(tx.snd[w]).qp = tx.snd[w].qp
    BY <2>1 DEF Expired, SndRec
  <2> QED
    BY <1>2, <2>2 DEF ExpireTo
<1>8. OwnT(qp.inc, tx')
  BY <1>1, <1>2, <1>4, <1>6, <1>7, OwnMoves DEF ExpireTo, SamePath
<1>9. TxTypes'
  BY <1>1, <1>5, <1>6 DEF Inv1, TxTypes
<1>10. OwnInv'
  <2>1. \A v \in Ran(timer'.taken) : v \in WR /\ tx.snd[v].qp = qp.inc
    BY <1>1, <1>5, RanFacts DEF OwnT
  <2> QED
    BY <1>1, <1>6, <1>7, <1>8, <2>1, OwnKeep
<1>11. DestroyInv'
  <2>1. tx.list # <<>>
    BY <1>1, <1>3, RanEmpty
  <2>2. ~Past2 /\ ~Past3 /\ ~Past4 /\ Exists
    BY <2>1, PastFacts DEF Inv1, DestroyInv
  <2>3. ~Past2' /\ ~Past3' /\ ~Past4' /\ Exists' /\ (Past1' => Past1)
    BY <1>1, <2>2, SamePast
  <2> QED
    BY <1>1, <2>3 DEF Inv1, DestroyInv
<1> QED
  BY <1>9, <1>10, <1>11

\* The timeout work moves the queue pair to ERR.
LEMMA OwnTimerError ==
  ASSUME Inv1, TimerError, UNCHANGED railVars
  PROVE  TxTypes' /\ OwnInv' /\ DestroyInv' /\ Exists
<1>1. UNCHANGED <<conf, tx, wk, kicked, poster, freed, qz, user>> /\ timer.pc = "err" /\ timer \in TimerRec
  BY DEF railVars, TimerError, Inv1, TxTypes
<1>2. timer' \in TimerRec /\ timer'.taken = timer.taken /\ timer'.pc # "idle"
  BY <1>1 DEF TimerError, TimerRec
<1>3. TxTypes'
  BY <1>1, <1>2 DEF Inv1, TxTypes
<1>4. ~Past2 /\ ~Past3 /\ ~Past4 /\ Exists
  BY <1>1, PastFacts DEF Inv1, DestroyInv
<1>5. qp'.inc = qp.inc /\ qp'.closing = qp.closing /\ Exists'
  BY <1>4 DEF TimerError, Exists, Inv1, RailInv, RailTypes, QpRec
<1>6. OwnInv'
  BY <1>1, <1>2, <1>5 DEF Inv1, OwnInv
<1>7. DestroyInv'
  <2>1. ~Past2' /\ ~Past3' /\ ~Past4' /\ (Past1' => Past1)
    BY <1>1, <1>4, <1>5 DEF Past, Past1, Past2, Past3, Past4
  <2> QED
    BY <1>1, <1>5, <2>1 DEF Inv1, DestroyInv
<1> QED
  BY <1>3, <1>4, <1>6, <1>7

\* The timeout work completes what it has taken.
LEMMA OwnTimerComplete ==
  ASSUME Inv1, TimerComplete, UNCHANGED railVars
  PROVE  TxTypes' /\ OwnInv' /\ DestroyInv'
<1>1. /\ UNCHANGED <<conf, qp, wk, kicked, poster, freed, qz, user>> /\ tx \in TxRec
      /\ timer.pc # "idle" /\ timer' = IdleTimer
  BY DEF railVars, TimerComplete, Inv1, TxTypes
<1>2. Cleared(tx, tx')
  BY <1>1, LoopTx DEF Cleared, Inv1
<1> QED
  BY <1>1, <1>2, OwnClear, SamePast

\* The flush, whoever calls it.
LEMMA FlushCleared ==
  ASSUME Inv1, tx' = Flush(tx)
  PROVE  Cleared([tx EXCEPT !.sq = <<>>], tx') /\ tx'.sq = <<>> /\ tx'.list = <<>>
<1>1. tx \in TxRec /\ <<>> \in Seq(WR)
  BY DEF Inv1, TxTypes
<1> PICK T : T = [tx EXCEPT !.sq = <<>>]
  OBVIOUS
<1>2. /\ T \in TxRec /\ T.snd = tx.snd /\ T.list = tx.list /\ T.sq = <<>> /\ T.pq = tx.pq
      /\ T.ring = tx.ring /\ T.late = tx.late
  BY ONLY <1>1, T = [tx EXCEPT !.sq = <<>>] DEF TxRec
<1>3. Less(T, tx') /\ tx'.list = <<>>
  BY LoopTx DEF Inv1
<1>4. Ran(<<>>) = {}
  BY DEF Ran
<1> QED
  BY <1>2, <1>3, <1>4 DEF Cleared, Less

\* The timeout work flushes.
LEMMA OwnTimerFlush ==
  ASSUME Inv1, TimerFlush
  PROVE  TxTypes' /\ OwnInv' /\ DestroyInv'
<1>1. /\ UNCHANGED <<conf, qp, wk, kicked, poster, freed, qz, user>> /\ tx' = Flush(tx)
      /\ timer.pc # "idle" /\ timer' = [timer EXCEPT !.pc = "complete"]
  BY DEF TimerFlush, FlushError, flushOthers
<1>2. Cleared([tx EXCEPT !.sq = <<>>], tx')
  BY <1>1, FlushCleared
<1> QED
  BY <1>1, <1>2, OwnClear, SamePast

\* The quiesce flushes.
LEMMA OwnQFlush ==
  ASSUME Inv1, QFlush
  PROVE  TxTypes' /\ OwnInv' /\ DestroyInv'
<1>1. /\ UNCHANGED <<conf, qp, wk, kicked, poster, freed, timer, user>> /\ tx' = Flush(tx)
      /\ qz.pc = "flush" /\ qz' = [qz EXCEPT !.pc = "worker"] /\ qz \in QzRec
  BY DEF QFlush, FlushError, flushOthers, Inv1, RailInv, RailTypes
<1>2. Cleared([tx EXCEPT !.sq = <<>>], tx')
  BY <1>1, FlushCleared
<1>3. qz'.pc = "worker" /\ qz'.by = qz.by
  BY <1>1 DEF QzRec
<1>4. /\ Past1' => Past1 
      /\ Past2' => Past2 
      /\ Past3' => Past3 
      /\ Past4' => Past4 
      /\ ~Exists' => ~Exists
  BY <1>1, <1>3 DEF Past, Past1, Past2, Past3, Past4, Exists
<1> QED
  BY <1>1, <1>2, <1>4, OwnClear

\* modify_qp flushes.
LEMMA OwnModifyFlush ==
  ASSUME Inv1, ModifyFlush
  PROVE  TxTypes' /\ OwnInv' /\ DestroyInv'
<1>1. /\ UNCHANGED <<conf, qp, wk, kicked, poster, freed, timer, qz>> /\ tx' = Flush(tx)
      /\ user.pc = "flush" /\ user \in UserRec
  BY DEF ModifyFlush, FlushError, flushOthers, Inv1, RailInv, RailTypes
<1>2. Cleared([tx EXCEPT !.sq = <<>>], tx')
  BY <1>1, FlushCleared
<1>3. user'.pc \in {"join", "idle"}
  BY <1>1 DEF ModifyFlush, ModifyFlushed, UserRec, IdleUser
<1>4. /\ Past1' => Past1 
      /\ Past2' => Past2 
      /\ Past3' => Past3 
      /\ Past4' => Past4 
      /\ ~Exists' => ~Exists
  BY <1>1, <1>3 DEF Past, Past1, Past2, Past3, Past4, Exists
<1> QED
  BY <1>1, <1>2, <1>4, OwnClear

\* The quiesce joins the worker.
LEMMA OwnQCancelWorker ==
  ASSUME Inv1, QCancelWorker
  PROVE  TxTypes' /\ OwnInv' /\ DestroyInv'
<1>1. /\ UNCHANGED <<conf, qp, tx, wk, poster, freed, timer, user>> /\ kicked' = FALSE /\ wk.pc = "idle"
      /\ qz.pc = "worker" /\ qz' = [qz EXCEPT !.pc = "timer"] /\ qz \in QzRec
  BY DEF QCancelWorker, Inv1, RailInv, RailTypes
<1>2. qz'.pc = "timer" /\ qz'.by = qz.by
  BY <1>1 DEF QzRec
<1>3. (Past2' => Past2) /\ (Past3' => Past3) /\ (Past4' => Past4) /\ (~Exists' => ~Exists)
  BY <1>1, <1>2 DEF Past, Past2, Past3, Past4, Exists
<1>4. TxTypes' /\ OwnInv'
  BY <1>1 DEF Inv1, TxTypes, OwnInv
<1>5. DestroyInv'
  BY <1>1, <1>3 DEF Inv1, DestroyInv
<1> QED
  BY <1>4, <1>5

\* The quiesce fails every request.
LEMMA OwnQStop ==
  ASSUME Inv1, QStop
  PROVE  TxTypes' /\ OwnInv' /\ DestroyInv'
<1>1. /\ UNCHANGED <<conf, qp, wk, kicked, poster, freed, timer, user>> /\ tx' = Flush(tx)
      /\ qz.pc = "timer" /\ timer.pc = "idle" /\ qz' = [qz EXCEPT !.pc = "cancel"] /\ qz \in QzRec
  BY DEF QStop, Inv1, RailInv, RailTypes
<1>2. Cleared([tx EXCEPT !.sq = <<>>], tx') /\ tx'.sq = <<>> /\ tx'.list = <<>>
  BY <1>1, FlushCleared
<1>3. qz'.pc = "cancel" /\ qz'.by = qz.by
  BY <1>1 DEF QzRec
<1>4. /\ Past1' => Past1 
      /\ Past3' => Past3 
      /\ Past4' => Past4 
      /\ ~Exists' => ~Exists
  BY <1>1, <1>3 DEF Past, Past1, Past2, Past3, Past4, Exists
<1> QED
  BY <1>1, <1>2, <1>4, OwnClear

\* The quiesce cancels what is queued.
LEMMA OwnQCancel ==
  ASSUME Inv1, QCancel
  PROVE  TxTypes' /\ OwnInv' /\ DestroyInv'
<1>1. /\ UNCHANGED <<conf, qp, wk, kicked, poster, freed, timer, user>> /\ tx \in TxRec
      /\ qz.pc = "cancel" /\ qz' = [qz EXCEPT !.pc = "drain"] /\ qz \in QzRec
  BY DEF QCancel, Inv1, RailInv, RailTypes, TxTypes
<1>2. /\ PqEmptied(tx) \in TxRec /\ PqEmptied(tx).snd = tx.snd /\ SameLists(tx, PqEmptied(tx))
      /\ PqEmptied(tx).pq = <<>> /\ PqEmptied(tx).ring = tx.ring
  BY <1>1, EmptiedTx
<1>3. Less(PqEmptied(tx), tx')
  BY LoopTx DEF Inv1
<1>4. Ran(<<>>) = {}
  BY DEF Ran
<1>5. Cleared(PqEmptied(tx), tx')
  BY <1>2, <1>3, <1>4 DEF Cleared, SameLists
<1>6. tx'.pq = <<>>
  BY <1>2, <1>3, EmptyLess
<1>7. qz'.pc = "drain" /\ qz'.by = qz.by
  BY <1>1 DEF QzRec
<1>8. /\ Past1' => Past1 
      /\ Past2' => Past2 
      /\ Past4' => Past4 
      /\ ~Exists' => ~Exists
  BY <1>1, <1>7 DEF Past, Past1, Past2, Past3, Past4, Exists
<1> QED
  BY <1>1, <1>5, <1>6, <1>8, OwnClear

\* The ring barrier.
LEMMA OwnQBarrier ==
  ASSUME Inv1, QBarrier
  PROVE  TxTypes' /\ OwnInv' /\ DestroyInv'
<1>1. /\ UNCHANGED <<conf, qp, wk, kicked, poster, freed, timer, user>> /\ tx \in TxRec
      /\ qz.pc = "drain" /\ qz \in QzRec
  BY DEF QBarrier, Inv1, RailInv, RailTypes, TxTypes
<1>2. /\ RingEmptied(tx) \in TxRec /\ RingEmptied(tx).snd = tx.snd /\ SameLists(tx, RingEmptied(tx))
      /\ RingEmptied(tx).pq = tx.pq /\ RingEmptied(tx).ring = <<>>
  BY <1>1, EmptiedTx
<1>3. Less(RingEmptied(tx), tx')
  BY LoopTx DEF Inv1
<1>4. Ran(<<>>) = {}
  BY DEF Ran
<1>5. Cleared(RingEmptied(tx), tx')
  BY <1>2, <1>3, <1>4 DEF Cleared, SameLists
<1>6. tx'.ring = <<>>
  BY <1>2, <1>3 DEF Less
<1>7. qz'.pc \in {"end", "refs"} /\ qz'.by = qz.by
  BY <1>1 DEF QzRec, QBarrier
<1>8. /\ Past1' => Past1 
      /\ Past2' => Past2 
      /\ Past3' => Past3 
      /\ ~Exists' => ~Exists
  BY <1>1, <1>7 DEF Past, Past1, Past2, Past3, Past4, Exists
<1> QED
  BY <1>1, <1>5, <1>6, <1>8, OwnClear

\* create_qp.
LEMMA OwnCreate ==
  ASSUME Inv1, RailInv', CreateQp
  PROVE  TxTypes' /\ OwnInv' /\ DestroyInv'
<1>1. /\ ~Exists /\ qp' = [NoQp EXCEPT !.inc = qp.inc + 1, !.st = "RESET"] /\ qz' = qz /\ user' = user
      /\ UNCHANGED <<wk, kicked, poster, timer, freed>> /\ qp.inc \in 0..MaxQp
  BY DEF CreateQp, Inv1, RailInv, RailTypes, QpRec, txVars
<1>2. /\ tx' \in TxRec /\ tx'.snd = tx.snd /\ SameLists(tx, tx') /\ SamePath(tx, tx') /\ tx \in TxRec
  BY CreateTx DEF Inv1, TxTypes
<1>3. /\ tx.sq = <<>> /\ tx.list = <<>> /\ tx.pq = <<>> /\ tx.ring = <<>> /\ tx.late = {}
      /\ wk.pc = "idle" /\ kicked = FALSE /\ timer.pc = "idle" /\ poster = IdlePoster /\ timer.taken = <<>>
  BY <1>1, PastFacts DEF Inv1, DestroyInv, TxTypes
<1>4. qp'.inc = qp.inc + 1
  BY <1>1 DEF NoQp
<1>5. TxTypes'
  BY <1>1, <1>2 DEF Inv1, TxTypes
<1>6. OwnInv'
  <2>1. Ran(<<>>) = {}
    BY DEF Ran
  <2>2. \A w \in WR : tx.snd[w].qp <= qp.inc /\ tx.snd[w].qp \in Nat
    BY <1>2 DEF Inv1, OwnInv, OwnT, TxRec, SndRec
  <2>3. qp.inc \in Nat
    BY <1>1, SizeAssumption
  <2>4. \A w \in WR : tx'.snd[w].qp <= qp'.inc
    BY <1>2, <1>4, <2>2, <2>3
  <2> QED
    BY <1>1, <1>2, <1>3, <2>1, <2>4 DEF OwnInv, OwnT, SameLists, SamePath, IdlePoster
<1>7. DestroyInv'
  BY <1>1, <1>2, <1>3 DEF DestroyInv, SameLists, SamePath
<1> QED
  BY <1>5, <1>6, <1>7

\* destroy_qp ends.
LEMMA OwnFree ==
  ASSUME Inv1, NEW o, DestroyFree(o)
  PROVE  TxTypes' /\ OwnInv' /\ DestroyInv'
<1>1. /\ user.pc = "free" /\ Contexts(qp.inc) = {} /\ qp' = [NoQp EXCEPT !.inc = qp.inc]
      /\ UNCHANGED <<tx, wk, kicked, poster, timer, freed>>
  BY DEF DestroyFree, txVars
<1>2. Past1 /\ Past2 /\ Past3 /\ Past4
  BY <1>1 DEF Past, Past1, Past2, Past3, Past4
<1>3. tx.late = {}
  <2>1. \A w \in tx.late : w \in WR /\ tx.snd[w].qp = qp.inc /\ Alive(w)
    BY DEF Inv1, OwnInv, OwnT, TxTypes, TxRec, Alive
  <2> QED
    BY <1>1, <2>1 DEF Contexts
<1>4. qp'.inc = qp.inc
  BY <1>1 DEF NoQp
<1>5. TxTypes' /\ OwnInv'
  BY <1>1, <1>4 DEF Inv1, TxTypes, OwnInv
<1>6. DestroyInv'
  BY <1>1, <1>2, <1>3 DEF Inv1, DestroyInv
<1> QED
  BY <1>5, <1>6

\* Nothing happens.
LEMMA OwnStutter ==
  ASSUME Inv1, UNCHANGED <<tx, wk, kicked, poster, timer, freed, qp, qz, user>>
  PROVE  TxTypes' /\ OwnInv' /\ DestroyInv'
<1>1. Past1' => Past1 /\ (Past2' => Past2) /\ (Past3' => Past3) /\ (Past4' => Past4) /\ (Exists => Exists')
  BY SamePast
<1> QED
  BY <1>1, Quiet1, SamePast

\* The receive side leaves the rail as it is, but for its mark.
LEMMA RailRx ==
  ASSUME RailInv, RxCheck \/ RxLookup \/ RxDeliver \/ PostRecv
  PROVE  RailInv'
<1> USE DEF RailInv, rxOthers
<1>1. CASE RxLookup \/ RxDeliver \/ PostRecv
  <2>1. UNCHANGED railOnly
    BY <1>1 DEF RxLookup, RxDeliver, PostRecv, railOnly
  <2> QED
    BY <2>1, RailStutter
<1>2. CASE RxCheck
  <2>0. UNCHANGED <<conf, qp, poster, qz, user, wd, rm>> /\ rail \in RailRec
    BY <1>2 DEF RxCheck, RailTypes
  <2>1. (rail.noisy \/ rail.st = "QUARANTINED") \in BOOLEAN
    BY <2>0 DEF RailRec
  <2> PICK b \in BOOLEAN : b = (rail.noisy \/ rail.st = "QUARANTINED")
    BY <2>1
  <2>2. rail' = [rail EXCEPT !.noisy = b]
    BY <1>2 DEF RxCheck
  <2>3. /\ rail' \in RailRec /\ rail'.st = rail.st /\ rail'.qp = rail.qp /\ rail'.ep = rail.ep
        /\ rail'.closed = rail.closed /\ rail'.tunqps = rail.tunqps
    BY ONLY <2>0, <2>2, b \in BOOLEAN DEF RailRec
  <2>4. RailTypes'
    BY <2>0, <2>3 DEF RailTypes
  <2>5. BindInv'
    BY <2>0, <2>3 DEF BindInv, Exists
  <2>6. QuiesceInv'
    BY <2>0, <2>3 DEF QuiesceInv, Exists, Owned, UsesTransport
  <2>7. UserInv'
    BY <2>0, <2>3 DEF UserInv, Owned, UsesTransport
  <2> QED
    BY <2>4, <2>5, <2>6, <2>7
<1> QED
  BY <1>1, <1>2

\* Every action keeps what is said of the rail and of the destroy.
LEMMA Inv1Send ==
  ASSUME Inv1, Post \/ PostStep \/ Worker \/ Path \/ Nhi \/ Late \/ Expire
  PROVE  Inv1'
<1>0. RailInv
  BY DEF Inv1
<1>1. CASE Post \/ PostStep
  <2>1. ((\E w \in WR : PostGetLive(w)) \/ PostSlot \/ PostQueueSend \/ PostQueueEntry) /\ UNCHANGED railVars
    BY <1>1 DEF Post, PostStep
  <2> QED
    BY <1>0, <2>1, RailPost, OwnPost DEF Inv1
<1>2. CASE Worker
  <2>1. UNCHANGED railVars /\ UNCHANGED <<conf, qp, poster>>
    BY <1>2 DEF Worker, WorkerPop, WorkerGet, WorkerPath, WorkerWindow, WorkerReserve, WorkerSet,
                WorkerCheck, WorkerPost, WorkerGroup, WorkerEnd
  <2>2. RailInv'
    BY <1>0, <2>1, RailStutter DEF railVars, railOnly
  <2>3. TxTypes' /\ OwnInv' /\ DestroyInv'
    <3>1. CASE WorkerPop
      BY <2>1, <3>1, OwnWorkerPop
    <3>2. CASE WorkerGet \/ WorkerPath(BoundTo) \/ WorkerCheck \/ WorkerGroup
      BY <2>1, <3>2, OwnWorkerPc
    <3>3. CASE WorkerWindow \/ WorkerReserve(rail.closed)
      BY <2>1, <3>3, OwnWorkerWin
    <3>4. CASE WorkerSet
      BY <2>1, <3>4, OwnWorkerSet
    <3>5. CASE WorkerPost(rail.closed)
      BY <2>1, <3>5, OwnWorkerPost
    <3>6. CASE WorkerEnd
      BY <2>1, <3>6, OwnWorkerEnd
    <3> QED
      BY <1>2, <3>1, <3>2, <3>3, <3>4, <3>5, <3>6 DEF Worker
  <2> QED
    BY <2>2, <2>3 DEF Inv1
<1>3. CASE Path \/ Nhi \/ Late \/ Expire
  <2>1. UNCHANGED railVars /\ UNCHANGED <<conf, qp, poster>>
    BY <1>3 DEF Path, Nhi, Late, Expire, PathSchedule, NhiSend, SendCompleteWork, TimerExpire
  <2>2. RailInv'
    BY <1>0, <2>1, RailStutter DEF railVars, railOnly
  <2>3. TxTypes' /\ OwnInv' /\ DestroyInv'
    <3>1. CASE Path
      BY <2>1, <3>1, OwnPath DEF Path
    <3>2. CASE Nhi
      BY <2>1, <3>2, OwnNhi DEF Nhi
    <3>3. CASE Late
      <4>1. PICK w \in tx.late : SendCompleteWork(w)
        BY <3>3 DEF Late
      <4> QED
        BY <2>1, <4>1, OwnLate
    <3>4. CASE Expire
      <4>1. PICK w \in WR : TimerExpire(w)
        BY <3>4 DEF Expire
      <4> QED
        BY <2>1, <4>1, OwnExpire
    <3> QED
      BY <1>3, <3>1, <3>2, <3>3, <3>4
  <2> QED
    BY <2>2, <2>3 DEF Inv1
<1> QED
  BY <1>1, <1>2, <1>3

\* The timeout work and the flushes.
LEMMA Inv1Flush ==
  ASSUME Inv1, TimerStep \/ TimerFlush \/ ModifyFlush \/ QFlush \/ Barrier \/ Destroyed
  PROVE  Inv1'
<1>0. RailInv
  BY DEF Inv1
<1>1. CASE TimerStep
  <2>0. UNCHANGED railVars /\ (TimerError \/ TimerComplete)
    BY <1>1 DEF TimerStep
  <2>1. CASE TimerError
    <3>1. TxTypes' /\ OwnInv' /\ DestroyInv' /\ Exists
      BY <2>0, <2>1, OwnTimerError
    <3>2. RailInv'
      BY <1>0, <2>0, <2>1, <3>1, RailTimerErr
    <3> QED
      BY <3>1, <3>2 DEF Inv1
  <2>2. CASE TimerComplete
    <3>1. TxTypes' /\ OwnInv' /\ DestroyInv'
      BY <2>0, <2>2, OwnTimerComplete
    <3>2. UNCHANGED railOnly
      BY <2>0, <2>2 DEF TimerComplete, railOnly, railVars
    <3>3. RailInv'
      BY <1>0, <3>2, RailStutter
    <3> QED
      BY <3>1, <3>3 DEF Inv1
  <2> QED
    BY <2>0, <2>1, <2>2
<1>2. CASE TimerFlush
  <2>1. UNCHANGED railOnly
    BY <1>2 DEF TimerFlush, flushOthers, railOnly
  <2>2. RailInv'
    BY <1>0, <2>1, RailStutter
  <2> QED
    BY <1>2, <2>2, OwnTimerFlush DEF Inv1
<1>3. CASE ModifyFlush
  <2>1. user.pc = "flush" /\ ModifyFlushed /\ UNCHANGED <<flushOthers, qz>>
    BY <1>3 DEF ModifyFlush
  <2>2. RailInv'
    BY <1>0, <2>1, RailFlushed
  <2> QED
    BY <1>3, <2>2, OwnModifyFlush DEF Inv1
<1>4. CASE QFlush
  <2>1. qz.pc = "flush" /\ qz' = [qz EXCEPT !.pc = "worker"] /\ UNCHANGED <<conf, qp, poster, rail, user, wd, rm>>
    BY <1>4 DEF QFlush, flushOthers
  <2>2. RailInv'
    BY <1>0, <2>1, RailQPc
  <2> QED
    BY <1>4, <2>2, OwnQFlush DEF Inv1
<1>5. CASE Barrier
  <2>1. QBarrier
    BY <1>5 DEF Barrier
  <2> QED
    BY <1>0, <2>1, RailQBar, OwnQBarrier DEF Inv1
<1>6. CASE Destroyed
  <2>1. DestroyFree(RxHolds)
    BY <1>6 DEF Destroyed
  <2> QED
    BY <1>0, <2>1, RailFree, OwnFree DEF Inv1
<1> QED
  BY <1>1, <1>2, <1>3, <1>4, <1>5, <1>6

\* tbv_qp_apple_bind_rail(), all of it.
LEMMA RailBindStep ==
  ASSUME RailInv, Bind
  PROVE  RailInv'
<1> DEFINE known == user.next = "RTR"
           keep == BoundTo /\ (known => rail.remote \in {0, user.remote})
           rearm == ~qp.bound /\ known /\ ~rail.removing /\ rail.st = "QUARANTINED"
<1>0. user.pc = "bind" /\ UNCHANGED <<txVars, qz, wd, rm>> /\ qp \in QpRec /\ rail \in RailRec
  BY DEF Bind, RailInv, RailTypes
<1>1. CASE /\ qp.bound /\ keep /\ UNCHANGED qp
           /\ rail' = IF known THEN [rail EXCEPT !.remote = user.remote] ELSE rail
           /\ user' = [user EXCEPT !.pc = "commit"]
  BY <1>0, <1>1, RailBindKeep
<1>2. CASE /\ ~qp.bound /\ Admitted(known)
           /\ rail' = [rail EXCEPT !.st = "BOUND", !.qp = qp.inc, !.ep = @ + 1,
                         !.remote = IF known THEN user.remote ELSE 0,
                         !.closed = @ /\ rail.st # "QUARANTINED"]
           /\ qp' = [qp EXCEPT !.bound = TRUE, !.ep = rail.ep + 1]
           /\ user' = [user EXCEPT !.pc = "commit"]
  <2>1. known \in BOOLEAN
    OBVIOUS
  <2> HIDE DEF known
  <2> QED
    BY <1>0, <1>2, <2>1, RailBindNew
<1>3. CASE /\ rail' = [ReleaseTunnel(rail, user.got) EXCEPT !.noisy = @ /\ ~rearm]
           /\ qp' = [qp EXCEPT !.tun = @ /\ ~user.got]
           /\ user' = IdleUser
  <2>1. rearm \in BOOLEAN
    BY <1>0 DEF QpRec, RailRec
  <2> HIDE DEF rearm
  <2> QED
    BY <1>0, <1>3, <2>1, RailBindNot
<1> QED
  BY <1>1, <1>2, <1>3 DEF Bind

\* create, modify and destroy, the watchdog and rail removal.
LEMMA Inv1Rail ==
  ASSUME Inv1, Create \/ Modify \/ ModifyStep \/ Destroy \/ Watchdog \/ RemoveRail
  PROVE  Inv1'
<1>0. RailInv /\ conf \in Conf
  BY DEF Inv1, RailInv, RailTypes
<1>1. CASE Create
  <2>1. CreateQp
    BY <1>1 DEF Create
  <2>2. RailInv'
    BY <1>0, <2>1, RailCreate
  <2> QED
    BY <2>1, <2>2, OwnCreate DEF Inv1
<1>2. CASE Modify
  <2>1. ASSUME NEW r \in 1..conf.remotes, ModifyUp("RTR", r) PROVE Inv1'
    <3>0. r \in Nat
      BY <1>0, ConfAssumption
    <3>1. RailInv'
      BY <1>0, <2>1, <3>0, RailUp
    <3> QED
      BY <2>1, <3>0, <3>1, OwnUp DEF Inv1
  <2>2. ASSUME ModifyUp("RTS", 0) PROVE Inv1'
    <3>1. RailInv'
      BY <1>0, <2>2, RailUp
    <3> QED
      BY <2>2, <3>1, OwnUp DEF Inv1
  <2>3. ASSUME NEW n \in conf.downs, ModifyDown(n) PROVE Inv1'
    <3>0. n \in {"RESET", "ERR"}
      BY <1>0, ConfAssumption
    <3>1. RailInv'
      BY <1>0, <2>3, <3>0, RailDown
    <3> QED
      BY <2>3, <3>0, <3>1, OwnDown DEF Inv1
  <2> QED
    BY <1>2, <2>1, <2>2, <2>3 DEF Modify
<1>3. CASE ModifyStep
  <2>1. CASE Bind
    <3>1. RailInv'
      BY <1>0, <2>1, RailBindStep
    <3> QED
      BY <2>1, <3>1, OwnBind DEF Inv1
  <2>2. CASE Commit
    <3>1. RailInv'
      BY <1>0, <2>2, RailCommit
    <3> QED
      BY <2>2, <3>1, OwnCommit DEF Inv1
  <2>3. CASE ModifyJoin
    <3>1. RailInv'
      BY <1>0, <2>3, RailJoin
    <3> QED
      BY <2>3, <3>1, OwnJoin DEF Inv1
  <2>4. CASE ModifyEnd
    <3>1. RailInv'
      BY <1>0, <2>4, RailEnd
    <3> QED
      BY <2>4, <3>1, OwnEnd DEF Inv1
  <2> QED
    BY <1>3, <2>1, <2>2, <2>3, <2>4 DEF ModifyStep
<1>4. CASE Destroy
  <2>1. DestroyQp
    BY <1>4 DEF Destroy
  <2>2. RailInv'
    BY <1>0, <2>1, RailDestroy
  <2> QED
    BY <2>1, <2>2, OwnDestroy DEF Inv1
<1>5. CASE Watchdog
  <2>1. WatchdogFail
    BY <1>5 DEF Watchdog
  <2>2. RailInv'
    BY <1>0, <2>1, RailWd
  <2> QED
    BY <2>1, <2>2, OwnWd DEF Inv1
<1>6. CASE RemoveRail
  <2>1. PICK how \in {"remove", "exit"} : RemoveStart(how)
    BY <1>6 DEF RemoveRail
  <2>2. RailInv'
    BY <1>0, <2>1, RailRm
  <2> QED
    BY <2>1, <2>2, OwnRm DEF Inv1
<1> QED
  BY <1>1, <1>2, <1>3, <1>4, <1>5, <1>6

\* The quiesce.
LEMMA Inv1Quiesce ==
  ASSUME Inv1, Quiesce
  PROVE  Inv1'
<1>0. RailInv
  BY DEF Inv1
<1>1. ASSUME NEW t \in {"user", "wd", "rm"}, QClose(t) PROVE Inv1'
  <2>1. RailInv'
    <3>1. CASE t = "user"
      BY <1>0, <1>1, <3>1, RailQCloseUser
    <3>2. CASE t \in {"wd", "rm"}
      BY <1>0, <1>1, <3>2, RailQCloseOther
    <3> QED
      BY <3>1, <3>2
  <2> QED
    BY <1>1, <2>1, OwnQClose DEF Inv1
<1>2. ASSUME QMark PROVE Inv1'
  <2>1. RailInv'
    BY <1>0, <1>2, RailQMark
  <2> QED
    BY <1>2, <2>1, OwnQMark DEF Inv1
<1>3. ASSUME QCancelWorker PROVE Inv1'
  <2>1. qz.pc = "worker" /\ qz' = [qz EXCEPT !.pc = "timer"] /\ UNCHANGED <<conf, qp, poster, rail, user, wd, rm>>
    BY <1>3 DEF QCancelWorker
  <2>2. RailInv'
    BY <1>0, <2>1, RailQPc
  <2> QED
    BY <1>3, <2>2, OwnQCancelWorker DEF Inv1
<1>4. ASSUME QStop PROVE Inv1'
  <2>1. qz.pc = "timer" /\ qz' = [qz EXCEPT !.pc = "cancel"] /\ UNCHANGED <<conf, qp, poster, rail, user, wd, rm>>
    BY <1>4 DEF QStop
  <2>2. RailInv'
    BY <1>0, <2>1, RailQPc
  <2> QED
    BY <1>4, <2>2, OwnQStop DEF Inv1
<1>5. ASSUME QCancel PROVE Inv1'
  <2>1. qz.pc = "cancel" /\ qz' = [qz EXCEPT !.pc = "drain"] /\ UNCHANGED <<conf, qp, poster, rail, user, wd, rm>>
    BY <1>5 DEF QCancel
  <2>2. RailInv'
    BY <1>0, <2>1, RailQPc
  <2> QED
    BY <1>5, <2>2, OwnQCancel DEF Inv1
<1>6. ASSUME QDrained PROVE Inv1'
  <2>1. qz.pc = "drain" /\ qz' = [qz EXCEPT !.pc = "refs"] /\ UNCHANGED <<conf, qp, poster, rail, user, wd, rm>>
    BY <1>6 DEF QDrained, txVars
  <2>2. RailInv'
    BY <1>0, <2>1, RailQPc
  <2> QED
    BY <1>6, <2>2, OwnQDrained DEF Inv1
<1>7. ASSUME QRefs(RxHolds) PROVE Inv1'
  <2>1. RailInv'
    BY <1>0, <1>7, RailQRefs
  <2> QED
    BY <1>7, <2>1, OwnQRefs DEF Inv1
<1>8. ASSUME QEnd PROVE Inv1'
  <2>1. RailInv'
    BY <1>0, <1>8, RailQEnd
  <2> QED
    BY <1>8, <2>1, OwnQEnd DEF Inv1
<1> QED
  BY <1>1, <1>2, <1>3, <1>4, <1>5, <1>6, <1>7, <1>8 DEF Quiesce

\* Every step keeps Inv1.
LEMMA Inv1Step == Inv1 /\ [Next]_vars => Inv1'
<1> SUFFICES ASSUME Inv1, [Next]_vars PROVE Inv1'
  OBVIOUS
<1>0. RailInv
  BY DEF Inv1
<1>1. CASE UNCHANGED vars
  <2>1. UNCHANGED railOnly
    BY <1>1 DEF vars, railVars, railOnly
  <2>2. RailInv'
    BY <1>0, <2>1, RailStutter
  <2>3. UNCHANGED <<tx, wk, kicked, poster, timer, freed, qp, qz, user>>
    BY <1>1 DEF vars, railVars
  <2> QED
    BY <2>2, <2>3, OwnStutter DEF Inv1
<1>2. CASE RxCheck \/ RxLookup \/ RxDeliver \/ PostRecv
  <2>1. UNCHANGED <<tx, wk, kicked, poster, timer, freed, qp, qz, user>>
    BY <1>2 DEF RxCheck, RxLookup, RxDeliver, PostRecv, rxOthers
  <2> QED
    BY <1>0, <1>2, <2>1, RailRx, OwnStutter DEF Inv1
<1> QED
  BY <1>1, <1>2, Inv1Send, Inv1Flush, Inv1Rail, Inv1Quiesce DEF Next

\* Initially it holds.
LEMMA Inv1Init == Init => Inv1
<1> SUFFICES ASSUME Init PROVE Inv1
  OBVIOUS
<1>1. RailInv
  BY RailInit1
<1>2. TxInit \in TxRec
  <2>1. NoSend \in SndRec
    BY DEF NoSend, SndRec
  <2>2. <<>> \in Seq(WR) /\ <<>> \in Seq(FrameRec) /\ <<>> \in Seq(CqRec)
    OBVIOUS
  <2> QED
    BY <2>1, <2>2 DEF TxInit, TxRec
<1>3. TxTypes
  <2>1. <<>> \in Seq(WR) /\ 0 \in 0..MaxWr
    BY SizeAssumption
  <2>2. IdleWorker \in WkRec /\ IdleTimer \in TimerRec
    BY <2>1 DEF IdleWorker, IdleTimer, WkRec, TimerRec
  <2> QED
    BY <1>2, <2>2 DEF Init, TxTypes, IdleWorker, IdleTimer
<1>4. Ran(<<>>) = {}
  BY DEF Ran
<1>5. OwnInv
  BY <1>4, SizeAssumption DEF Init, OwnInv, OwnT, TxInit, NoSend, NoQp, IdleWorker, IdleTimer, IdlePoster
<1>6. DestroyInv
  BY DEF Init, DestroyInv, TxInit, IdleWorker, IdleTimer
<1> QED
  BY <1>1, <1>3, <1>5, <1>6 DEF Inv1

\* A queue pair that is gone has left nothing.
LEMMA Inv1Quiet == Inv1 => FreedQpQuiet
<1> SUFFICES ASSUME Inv1, ~Exists PROVE FreedQpQuiet
  BY DEF FreedQpQuiet
<1>1. /\ tx.sq = <<>> /\ tx.list = <<>> /\ tx.pq = <<>> /\ tx.ring = <<>> /\ tx.late = {}
      /\ wk.pc = "idle" /\ kicked = FALSE /\ timer.pc = "idle" /\ poster = IdlePoster
      /\ timer.taken = <<>> /\ wk.ref = FALSE
  BY PastFacts DEF Inv1, DestroyInv, TxTypes
<1>2. \A w \in WR : ~Alive(w)
  <2> TAKE w \in WR
  <2>1. ~Contains(<<>>, w)
    BY DEF Contains
  <2>2. FramesOf(<<>>, w) = 0
    <3>1. {k \in DOMAIN <<>> : <<>>[k][1] = w} = {}
      OBVIOUS
    <3> QED
      BY <3>1, FS_EmptySet DEF FramesOf
  <2> QED
    BY <1>1, <2>1, <2>2 DEF Alive, IdlePoster
<1>3. Contexts(qp.inc) = {}
  BY <1>2 DEF Contexts
<1>4. OnPath = <<>>
  BY <1>1 DEF OnPath
<1>5. rail.qp = 0
  BY DEF Inv1, RailInv, BindInv
<1> QED
  BY <1>1, <1>3, <1>4, <1>5 DEF FreedQpQuiet

\* A freed queue pair has no context, no queued entry and no work item.
THEOREM FreedQpQuietThm == Spec => []FreedQpQuiet
<1>1. Init => Inv1
  BY Inv1Init
<1>2. Inv1 /\ [Next]_vars => Inv1'
  BY Inv1Step
<1>3. Inv1 => FreedQpQuiet
  BY Inv1Quiet
<1> QED
  BY <1>1, <1>2, <1>3, PTL DEF Spec

-----------------------------------------------------------------------------
(* The accounts of the send side.                                          *)

\* A send no frame of which was posted.
Clean(T, w) ==
  /\ T.snd[w].win = FALSE /\ T.snd[w].armed = FALSE /\ T.snd[w].sent = 0 /\ T.snd[w].left = 0
  /\ T.snd[w].ok = FALSE /\ T.snd[w].ready = FALSE /\ T.snd[w].expired = FALSE /\ w \notin T.late
  /\ \A f \in Ran(T.pq) \cup Ran(T.ring) : f[1] # w

\* The accounts: what is left of a send covers its frames on the path and the
\* H[w] others; the window and the slots are those of the sends that hold them.
LeftOK(H, T) == \A w \in WR : T.snd[w].left >= FramesOf(T.pq, w) + FramesOf(T.ring, w) + H[w]
WinSet(i, T) == {w \in WR : T.snd[w].win /\ T.snd[w].qp = i}
CntSet(i, T) == {w \in WR : T.snd[w].counted /\ T.snd[w].qp = i}
WrsOK(t, i, y, T) == T.wrs = IF t THEN Cardinality(WinSet(i, T)) + y ELSE 0
OutOK(i, T) == T.out = Cardinality(CntSet(i, T))
Acc(t, i, y, E, H, T) ==
  (\A w \in E : Clean(T, w)) /\ LeftOK(H, T) /\ WrsOK(t, i, y, T) /\ OutOK(i, T)

\* One out of a set of work requests.
LEMMA CardOut ==
  ASSUME NEW S, S \subseteq WR, NEW w, NEW R, R = S \ {w}
  PROVE  /\ Cardinality(S) \in Nat /\ Cardinality(R) = Cardinality(S) - (IF w \in S THEN 1 ELSE 0)
         /\ Cardinality(S) <= MaxWr /\ (w \in WR /\ w \notin S => Cardinality(S) + 1 <= MaxWr)
<1>1. IsFiniteSet(WR) /\ Cardinality(WR) = MaxWr
  BY SizeAssumption, FS_Interval DEF WR
<1>2. IsFiniteSet(S) /\ Cardinality(S) <= MaxWr /\ Cardinality(S) \in Nat
  BY <1>1, FS_Subset, FS_CardinalityType
<1>3. IsFiniteSet(R) /\ Cardinality(R) = IF w \in S THEN Cardinality(S) - 1 ELSE Cardinality(S)
  BY <1>2, FS_RemoveElement
<1>4. w \in WR /\ w \notin S => Cardinality(S) + 1 <= MaxWr
  <2> SUFFICES ASSUME w \in WR, w \notin S PROVE Cardinality(S) + 1 <= MaxWr
    OBVIOUS
  <2> PICK Q : Q = S \cup {w}
    OBVIOUS
  <2>1. Cardinality(Q) = Cardinality(S) + 1
    BY <1>2, FS_AddElement
  <2>2. Q \subseteq WR
    OBVIOUS
  <2>3. Cardinality(Q) <= Cardinality(WR)
    BY <1>1, <2>2, FS_Subset
  <2> QED
    BY <1>1, <2>1, <2>3
<1> QED
  BY <1>2, <1>3, <1>4

\* A completion keeps the accounts.
LEMMA AccDoneTo ==
  ASSUME NEW t \in BOOLEAN, NEW i, NEW y \in Nat, NEW E, E \subseteq WR, NEW H \in [WR -> Nat],
         NEW T \in TxRec, NEW w \in WR, NEW ok, NEW U, DoneTo(t, T, w, ok, U), T.snd[w].qp = i,
         Acc(t, i, y, E, H, T)
  PROVE  Acc(t, i, y, E, H, U)
<1>1. /\ T.snd[w] \in SndRec /\ T.pq \in Seq(FrameRec) /\ T.ring \in Seq(FrameRec) /\ T.wrs \in Int
      /\ T.out \in Int
  BY DEF TxRec
<1>2. /\ U \in TxRec /\ U.ring = T.ring /\ U.late = T.late /\ Others(T.pq, w, U.pq)
      /\ \A v \in WR : v # w => U.snd[v] = T.snd[v]
  BY DEF DoneTo
<1> PICK c \in Nat, r \in Nat : c = FramesOf(T.pq, w) /\ r = FramesOf(T.ring, w)
  BY <1>1, CountFacts
<1> PICK s \in SndRec : s = T.snd[w]
  BY <1>1
<1> PICK z : z = U.snd[w]
  OBVIOUS
<1>3. s.left - c \in Int
  BY DEF SndRec
<1>4. z = [s EXCEPT !.done = TRUE, !.counted = FALSE, !.win = FALSE, !.left = s.left - c]
  BY DEF DoneTo
<1>5. /\ z.win = FALSE /\ z.counted = FALSE /\ z.left = s.left - c /\ z.armed = s.armed /\ z.sent = s.sent
      /\ z.ok = s.ok /\ z.ready = s.ready /\ z.expired = s.expired /\ z.qp = s.qp
  BY ONLY <1>3, <1>4, s \in SndRec DEF SndRec
<1>6. Ran(U.pq) \subseteq Ran(T.pq)
  BY <1>2 DEF Others, Ran
<1>7. ASSUME NEW v \in E PROVE Clean(U, v)
  <2>1. Clean(T, v) /\ v \in WR
    BY DEF Acc
  <2>2. CASE v # w
    BY <1>2, <1>6, <2>1, <2>2 DEF Clean
  <2>3. CASE v = w
    <3>1. c = 0
      <4>1. \A k \in DOMAIN T.pq : T.pq[k][1] # w
        BY <2>1, <2>3 DEF Clean, Ran
      <4> QED
        BY <1>1, <4>1, CountFacts
    <3>2. /\ s.armed = FALSE /\ s.sent = 0 /\ s.left = 0 /\ s.ok = FALSE /\ s.ready = FALSE
          /\ s.expired = FALSE /\ v \notin T.late /\ \A f \in Ran(T.pq) \cup Ran(T.ring) : f[1] # v
      BY <2>1, <2>3 DEF Clean
    <3>3. z.left = 0
      BY ONLY <1>5, <3>1, <3>2
    <3> QED
      BY <1>2, <1>5, <1>6, <2>3, <3>2, <3>3 DEF Clean
  <2> QED
    BY <2>2, <2>3
<1>8. LeftOK(H, U)
  <2> SUFFICES ASSUME NEW v \in WR
               PROVE  U.snd[v].left >= FramesOf(U.pq, v) + FramesOf(U.ring, v) + H[v]
    BY DEF LeftOK
  <2>1. T.snd[v].left >= FramesOf(T.pq, v) + FramesOf(T.ring, v) + H[v]
    BY DEF Acc, LeftOK
  <2>2. CASE v # w
    BY <1>2, <2>1, <2>2 DEF Others
  <2>3. CASE v = w
    <3>1. FramesOf(U.pq, w) = 0
      BY <1>2 DEF Others
    <3> PICK h \in Nat : h = H[w]
      OBVIOUS
    <3>2. s.left >= c + r + h /\ s.left \in Int
      BY <2>1, <2>3 DEF SndRec
    <3>3. z.left >= 0 + r + h
      BY ONLY <1>5, <3>2, c \in Nat, r \in Nat, h \in Nat
    <3> QED
      BY <1>2, <2>3, <3>1, <3>3
  <2> QED
    BY <2>2, <2>3
<1>9. WrsOK(t, i, y, U)
  <2>1. WinSet(i, U) = WinSet(i, T) \ {w}
    BY <1>2, <1>5 DEF WinSet
  <2>2. (w \in WinSet(i, T)) <=> s.win
    BY DEF WinSet
  <2>3. WinSet(i, T) \subseteq WR
    BY DEF WinSet
  <2>0. Cardinality(WinSet(i, T)) \in Nat
    BY <2>1, <2>3, CardOut
  <2> PICK a \in Nat : a = Cardinality(WinSet(i, T))
    BY <2>0
  <2>4. Cardinality(WinSet(i, U)) = a - (IF s.win THEN 1 ELSE 0)
    BY <2>1, <2>2, <2>3, CardOut
  <2>5. U.wrs = T.wrs - (IF s.win /\ t THEN 1 ELSE 0)
    BY DEF DoneTo
  <2>6. T.wrs = IF t THEN a + y ELSE 0
    BY DEF Acc, WrsOK
  <2>7. U.wrs = IF t THEN a - (IF s.win THEN 1 ELSE 0) + y ELSE 0
    BY ONLY <2>5, <2>6, a \in Nat, y \in Nat, t \in BOOLEAN
  <2> QED
    BY <2>4, <2>7 DEF WrsOK
<1>10. OutOK(i, U)
  <2>1. CntSet(i, U) = CntSet(i, T) \ {w}
    BY <1>2, <1>5 DEF CntSet
  <2>2. (w \in CntSet(i, T)) <=> s.counted
    BY DEF CntSet
  <2>3. CntSet(i, T) \subseteq WR
    BY DEF CntSet
  <2>4. Cardinality(CntSet(i, U)) = Cardinality(CntSet(i, T)) - (IF s.counted THEN 1 ELSE 0)
    BY <2>1, <2>2, <2>3, CardOut
  <2>5. U.out = T.out - (IF s.counted THEN 1 ELSE 0)
    BY DEF DoneTo
  <2> QED
    BY <2>4, <2>5 DEF Acc, OutOK
<1> QED
  BY <1>7, <1>8, <1>9, <1>10 DEF Acc

\* The sends of the queue pair i.
Mine(i, T) == {w \in WR : T.snd[w].qp = i}

\* Completions of sends of i keep the accounts.
LEMMA AccClosed ==
  ASSUME conf \in Conf, NEW i, NEW y \in Nat, NEW E, E \subseteq WR, NEW H \in [WR -> Nat],
         NEW T \in TxRec, Ran(T.list) \subseteq Mine(i, T),
         NEW I, I = {U \in TxRec : Less(T, U) /\ Acc(TakesWr, i, y, E, H, U)}
  PROVE  Closed(I, Mine(i, T), Ran(T.list))
<1>0. TakesWr \in BOOLEAN /\ Mine(i, T) \subseteq WR
  BY ConfFacts DEF Mine
<1>1. \A U \in I : U \in TxRec /\ Less(T, U) /\ Acc(TakesWr, i, y, E, H, U) /\ Ran(U.list) \subseteq Ran(T.list)
  BY DEF Less
<1>2. ASSUME NEW U \in I, NEW w \in Mine(i, T), NEW ok \in BOOLEAN PROVE SendComplete(U, w, ok) \in I
  <2>1. U \in TxRec /\ Less(T, U) /\ Acc(TakesWr, i, y, E, H, U) /\ w \in WR
    BY <1>0, <1>1
  <2>2. U.snd[w].qp = i
    BY <2>1 DEF Less, SndLess, Mine
  <2>3. Less(U, SendComplete(U, w, ok))
    BY <2>1, DoneLess
  <2>4. Less(T, SendComplete(U, w, ok))
    BY <2>1, <2>3, LessTrans
  <2>5. CASE U.snd[w].done
    BY <2>1, <2>5, DoneShape
  <2>6. CASE ~U.snd[w].done
    <3>1. DoneTo(TakesWr, U, w, ok, SendComplete(U, w, ok))
      BY <2>1, <2>6, DoneShape
    <3>2. Acc(TakesWr, i, y, E, H, SendComplete(U, w, ok))
      BY <1>0, <2>1, <2>2, <3>1, AccDoneTo
    <3> QED
      BY <2>4, <3>2 DEF Less
  <2> QED
    BY <2>5, <2>6
<1>3. ASSUME NEW U \in I, NEW w \in Ran(T.list), U.snd[w].ok PROVE [U EXCEPT !.late = @ \cup {w}] \in I
  <2>1. U \in TxRec /\ Less(T, U) /\ Acc(TakesWr, i, y, E, H, U) /\ w \in WR
    BY <1>0, <1>1
  <2>2. w \notin E
    BY <1>3, <2>1 DEF Acc, Clean
  <2> PICK V : V = [U EXCEPT !.late = @ \cup {w}]
    OBVIOUS
  <2> PICK l \in SUBSET WR : l = U.late \cup {w}
    BY <2>1 DEF TxRec
  <2>3. V = [U EXCEPT !.late = l]
    OBVIOUS
  <2>4. /\ V \in TxRec /\ V.snd = U.snd /\ V.pq = U.pq /\ V.ring = U.ring /\ V.wrs = U.wrs /\ V.out = U.out
        /\ V.late = l
    BY <2>1, <2>3, LateShape
  <2>5. Acc(TakesWr, i, y, E, H, V)
    BY <2>1, <2>2, <2>4 DEF Acc, Clean, LeftOK, WrsOK, WinSet, OutOK, CntSet
  <2>6. Less(T, V)
    BY <2>1, LateLess
  <2> QED
    BY <2>4, <2>5, <2>6
<1>4. ASSUME NEW U \in I, NEW l \in Seq(WR), Ran(l) \subseteq Ran(U.list), Rising(U.list) => Rising(l)
      PROVE  [U EXCEPT !.list = l] \in I
  <2>1. U \in TxRec /\ Less(T, U) /\ Acc(TakesWr, i, y, E, H, U)
    BY <1>1
  <2> PICK V : V = [U EXCEPT !.list = l]
    OBVIOUS
  <2>4. /\ V \in TxRec /\ V.snd = U.snd /\ V.pq = U.pq /\ V.ring = U.ring /\ V.wrs = U.wrs /\ V.out = U.out
        /\ V.late = U.late
    BY <2>1, ListShape
  <2>5. Acc(TakesWr, i, y, E, H, V)
    BY <2>1, <2>4 DEF Acc, Clean, LeftOK, WrsOK, WinSet, OutOK, CntSet
  <2>6. Less(U, V)
    BY <1>4, <2>1, ListLess
  <2>7. Less(T, V)
    BY <2>1, <2>6, LessTrans
  <2> QED
    BY <2>4, <2>5, <2>7
<1> QED
  BY <1>0, <1>1, <1>2, <1>3, <1>4 DEF Closed

\* The loops.
LEMMA AccLoops ==
  ASSUME conf \in Conf, NEW i, NEW y \in Nat, NEW E, E \subseteq WR, NEW H \in [WR -> Nat],
         NEW T \in TxRec, OwnT(i, T), Acc(TakesWr, i, y, E, H, T)
  PROVE  /\ \A w \in WR : T.snd[w].qp = i => Acc(TakesWr, i, y, E, H, Unqueue(FALSE, T, w))
         /\ \A w \in WR : T.snd[w].qp = i => Acc(TakesWr, i, y, E, H, SendComplete(T, w, TRUE))
         /\ \A s \in Seq(WR) : Ran(s) \subseteq Mine(i, T) => Acc(TakesWr, i, y, E, H, Sends!Run(FALSE, T, s))
         /\ Acc(TakesWr, i, y, E, H, Flush(T))
<1>1. Ran(T.list) \subseteq Mine(i, T) /\ Ran(T.sq) \subseteq Mine(i, T)
  BY RanFacts DEF OwnT, Mine, TxRec
<1> PICK I : I = {U \in TxRec : Less(T, U) /\ Acc(TakesWr, i, y, E, H, U)}
  OBVIOUS
<1>2. Closed(I, Mine(i, T), Ran(T.list)) /\ T \in I
  BY <1>1, AccClosed, LessRefl
<1>3. ASSUME NEW w \in WR, T.snd[w].qp = i
      PROVE  Unqueue(FALSE, T, w) \in I /\ SendComplete(T, w, TRUE) \in I
  <2>1. w \in Mine(i, T)
    BY <1>3 DEF Mine
  <2>2. Unqueue(FALSE, T, w) \in I
    BY <1>2, <2>1, UnqueueIn
  <2>3. SendComplete(T, w, TRUE) \in I
    BY <1>2, <2>1 DEF Closed
  <2> QED
    BY <2>2, <2>3
<1>4. ASSUME NEW s \in Seq(WR), Ran(s) \subseteq Mine(i, T) PROVE Sends!Run(FALSE, T, s) \in I
  BY <1>2, <1>4, SendsIn
<1>5. Acc(TakesWr, i, y, E, H, Flush(T))
  <2> PICK S : S = [T EXCEPT !.sq = <<>>]
    OBVIOUS
  <2>1. <<>> \in Seq(WR)
    OBVIOUS
  <2>2. /\ S \in TxRec /\ S.snd = T.snd /\ S.list = T.list /\ S.pq = T.pq /\ S.ring = T.ring
        /\ S.wrs = T.wrs /\ S.out = T.out /\ S.late = T.late
    BY ONLY <2>1, S = [T EXCEPT !.sq = <<>>], T \in TxRec DEF TxRec
  <2>3. Acc(TakesWr, i, y, E, H, S)
    BY <2>2 DEF Acc, Clean, LeftOK, WrsOK, WinSet, OutOK, CntSet
  <2>4. Mine(i, S) = Mine(i, T)
    BY <2>2 DEF Mine
  <2> PICK K : K = {U \in TxRec : Less(S, U) /\ Acc(TakesWr, i, y, E, H, U)}
    OBVIOUS
  <2>5. Closed(K, Mine(i, T), Ran(S.list)) /\ S \in K
    <3>1. Ran(S.list) \subseteq Mine(i, S)
      BY <1>1, <2>2, <2>4
    <3>2. Closed(K, Mine(i, S), Ran(S.list))
      BY <2>2, <3>1, AccClosed
    <3> QED
      BY <2>2, <2>3, <2>4, <3>2, LessRefl
  <2>6. Flush(T) \in K
    BY <1>1, <2>5, FlushIn
  <2> QED
    BY <2>6
<1> QED
  BY <1>3, <1>4, <1>5

\* H less one frame in hand of w.
Less1(H, w) == [H EXCEPT ![w] = H[w] - 1]

\* A frame that leaves the path keeps them,
LEMMA AccTxDone ==
  ASSUME conf \in Conf, NEW i, NEW y \in Nat, NEW E, E \subseteq WR, NEW H \in [WR -> Nat],
         NEW T \in TxRec, OwnT(i, T), Acc(TakesWr, i, y, E, H, T),
         NEW w \in WR, H[w] > 0, w \notin E, NEW ok \in BOOLEAN
  PROVE  Less1(H, w) \in [WR -> Nat] /\ Acc(TakesWr, i, y, E, Less1(H, w), TxDone(T, w, ok))
<1>h. H[w] - 1 \in Nat
  OBVIOUS
<1> PICK G \in [WR -> Nat] : G = Less1(H, w)
  BY <1>h DEF Less1
<1>0. G[w] = H[w] - 1 /\ \A v \in WR : v # w => G[v] = H[v]
  BY DEF Less1
<1> PICK U : U = [T EXCEPT !.snd[w].left = @ - 1]
  OBVIOUS
<1>1. \A v \in WR : T.snd[v] \in SndRec
  BY DEF TxRec
<1>2. SndTo(T, w, LeftLess(T.snd[w]), U) /\ LeftLess(T.snd[w]).left = T.snd[w].left - 1
  BY LeftShape
<1>3. /\ U \in TxRec /\ U.pq = T.pq /\ U.ring = T.ring /\ U.wrs = T.wrs /\ U.out = T.out /\ U.late = T.late
      /\ U.snd[w].left = T.snd[w].left - 1 /\ \A v \in WR : v # w => U.snd[v] = T.snd[v]
  BY <1>2 DEF SndTo, SameQueues
<1>4. /\ U.snd[w].win = T.snd[w].win /\ U.snd[w].counted = T.snd[w].counted /\ U.snd[w].qp = T.snd[w].qp
  BY <1>1, <1>2 DEF SndTo, LeftLess, SndRec
<1>5. LeftOK(G, U)
  <2> SUFFICES ASSUME NEW v \in WR
               PROVE  U.snd[v].left >= FramesOf(U.pq, v) + FramesOf(U.ring, v) + G[v]
    BY DEF LeftOK
  <2>1. T.snd[v].left >= FramesOf(T.pq, v) + FramesOf(T.ring, v) + H[v]
    BY DEF Acc, LeftOK
  <2>2. FramesOf(T.pq, v) \in Nat /\ FramesOf(T.ring, v) \in Nat /\ T.snd[v].left \in Int
    BY <1>1, CountFacts DEF TxRec, SndRec
  <2>3. CASE v = w
    <3> PICK a \in Nat, b \in Nat, h \in Nat, l \in Int : 
          a = FramesOf(T.pq, v) /\ b = FramesOf(T.ring, v) /\ h = H[v] /\ l = T.snd[v].left
      BY <2>2
    <3>1. l >= a + b + h
      BY <2>1
    <3>2. l - 1 >= a + b + (h - 1)
      BY ONLY <3>1, a \in Nat, b \in Nat, h \in Nat, l \in Int
    <3> QED
      BY <1>0, <1>3, <2>3, <3>2
  <2>4. CASE v # w
    BY <1>0, <1>3, <2>1, <2>4
  <2> QED
    BY <2>3, <2>4
<1>6. WinSet(i, U) = WinSet(i, T) /\ CntSet(i, U) = CntSet(i, T) /\ Mine(i, U) = Mine(i, T)
  BY <1>3, <1>4 DEF WinSet, CntSet, Mine
<1>7. Acc(TakesWr, i, y, E, G, U)
  <2>1. \A v \in E : Clean(U, v)
    BY <1>3 DEF Acc, Clean
  <2> QED
    BY <1>3, <1>5, <1>6, <2>1 DEF Acc, WrsOK, OutOK
<1> PICK V : V = Ready(U, w, ok)
  OBVIOUS
<1>8. Acc(TakesWr, i, y, E, G, V) /\ V \in TxRec /\ Less(U, V)
  <2>a. Less(U, V)
    BY <1>3, ReadyLess
  <2>0. Less(U, V) /\ V \in TxRec
    BY <2>a DEF Less
  <2>1. CASE U.snd[w].ready
    BY <1>3, <1>7, <2>0, <2>1, ReadyShape
  <2>2. CASE ~U.snd[w].ready
    <3>1. SndTo(U, w, ReadyWith(U.snd[w], ok), V)
      BY <1>3, <2>2, ReadyShape
    <3>2. /\ V.pq = U.pq /\ V.ring = U.ring /\ V.wrs = U.wrs /\ V.out = U.out /\ V.late = U.late
          /\ \A v \in WR : v # w => V.snd[v] = U.snd[v]
      BY <3>1 DEF SndTo, SameQueues
    <3>3. U.snd[w] \in SndRec
      BY <1>3 DEF TxRec
    <3>4. /\ V.snd[w].win = U.snd[w].win /\ V.snd[w].counted = U.snd[w].counted /\ V.snd[w].qp = U.snd[w].qp
          /\ V.snd[w].left = U.snd[w].left
      BY <3>1, <3>3 DEF SndTo, ReadyWith, SndRec
    <3>a. \A v \in WR : /\ V.snd[v].win = U.snd[v].win /\ V.snd[v].counted = U.snd[v].counted
                        /\ V.snd[v].qp = U.snd[v].qp
      BY <3>2, <3>4
    <3>5. WinSet(i, V) = WinSet(i, U) /\ CntSet(i, V) = CntSet(i, U)
      BY ONLY <3>a DEF WinSet, CntSet
    <3>6. \A v \in E : Clean(V, v)
      BY <1>7, <3>2 DEF Acc, Clean
    <3>7. LeftOK(G, V)
      BY <1>7, <3>2, <3>4 DEF Acc, LeftOK
    <3> QED
      BY <1>7, <2>0, <3>2, <3>5, <3>6, <3>7 DEF Acc, WrsOK, OutOK
  <2> QED
    BY <2>1, <2>2
<1> PICK I : I = {X \in TxRec : Less(U, X) /\ Acc(TakesWr, i, y, E, G, X)}
  OBVIOUS
<1>9. Closed(I, Mine(i, U), Ran(U.list))
  <2>1. U.list = T.list
    BY <1>2 DEF SndTo, SameQueues
  <2>2. Ran(U.list) \subseteq Mine(i, U)
    BY <1>6, <2>1, RanFacts DEF OwnT, Mine, TxRec
  <2>3. U \in TxRec
    BY <1>3
  <2> QED
    BY ONLY <2>2, <2>3, AccClosed, Zenon, conf \in Conf, y \in Nat, E \subseteq WR, G \in [WR -> Nat],
            I = {X \in TxRec : Less(U, X) /\ Acc(TakesWr, i, y, E, G, X)}
<1>10. U \in I /\ V \in I
  BY <1>3, <1>7, <1>8, LessRefl
<1>11. TxDone(T, w, ok) \in I
  BY <1>9, <1>10, TxDoneIn
<1> QED
  BY <1>11

\* The frames of s are in hand besides the G[w] others.
Hand(G, s) == [w \in WR |-> G[w] + FramesOf(s, w)]

\* one of those in hand less,
LEMMA HandTail ==
  ASSUME NEW G \in [WR -> Nat], NEW s \in Seq(FrameRec), s # <<>>
  PROVE  /\ Hand(G, s) \in [WR -> Nat] /\ Head(s)[1] \in WR /\ Hand(G, s)[Head(s)[1]] > 0
         /\ Less1(Hand(G, s), Head(s)[1]) = Hand(G, Tail(s))
<1>1. Tail(s) \in Seq(FrameRec) /\ Head(s) \in FrameRec
  BY CountTail
<1> PICK w \in WR : w = Head(s)[1]
  BY <1>1 DEF FrameRec
<1>2. \A v \in WR : /\ FramesOf(s, v) \in Nat /\ FramesOf(Tail(s), v) \in Nat
                    /\ FramesOf(s, v) = FramesOf(Tail(s), v) + (IF w = v THEN 1 ELSE 0)
  BY <1>1, CountFacts, CountTail
<1>3. \A v \in WR : Hand(G, s)[v] = G[v] + FramesOf(s, v) /\ Hand(G, Tail(s))[v] = G[v] + FramesOf(Tail(s), v)
  BY DEF Hand
<1>4. Hand(G, s) \in [WR -> Nat] /\ Hand(G, Tail(s)) \in [WR -> Nat]
  BY <1>2 DEF Hand
<1>5. Hand(G, s)[w] > 0
  BY <1>2, <1>3
<1> PICK A \in [WR -> Nat], B \in [WR -> Nat] : A = Hand(G, s) /\ B = Hand(G, Tail(s))
  BY <1>4
<1>6. ASSUME NEW v \in WR PROVE B[v] = IF v = w THEN A[v] - 1 ELSE A[v]
  <2> PICK a \in Nat, b \in Nat, g \in Nat : a = FramesOf(s, v) /\ b = FramesOf(Tail(s), v) /\ g = G[v]
    BY <1>2
  <2>1. a = b + (IF w = v THEN 1 ELSE 0)
    BY <1>2
  <2>2. A[v] = g + a /\ B[v] = g + b
    BY <1>3
  <2> QED
    BY ONLY <2>1, <2>2, a \in Nat, b \in Nat, g \in Nat
<1>7. [A EXCEPT ![w] = A[w] - 1] = B
  BY ONLY <1>6, A \in [WR -> Nat], B \in [WR -> Nat], w \in WR
<1> QED
  BY <1>4, <1>5, <1>7 DEF Less1

\* and so does a whole queue of them.
LEMMA AccFrames ==
  ASSUME conf \in Conf, NEW i, NEW y \in Nat, NEW E, E \subseteq WR, NEW G \in [WR -> Nat],
         NEW T \in TxRec, OwnT(i, T), NEW s \in Seq(FrameRec), \A f \in Ran(s) : f[1] \notin E,
         Acc(TakesWr, i, y, E, Hand(G, s), T)
  PROVE  Acc(TakesWr, i, y, E, G, Frames!Run(FALSE, T, s))
<1> PICK n \in Nat : n = Len(s)
  OBVIOUS
<1> PICK J : J = [k \in 0..n |-> {U \in TxRec : Less(T, U) /\ Acc(TakesWr, i, y, E, Hand(G, SubSeq(s, k + 1, n)), U)}]
  OBVIOUS
<1>0. SubSeq(s, 1, n) = s /\ SubSeq(s, n + 1, n) = <<>>
  BY LastFacts
<1>b. ASSUME NEW k \in 1..n
      PROVE  /\ SubSeq(s, k, n) \in Seq(FrameRec) /\ SubSeq(s, k, n) # <<>>
             /\ Head(SubSeq(s, k, n)) = s[k] /\ s[k] \in FrameRec
             /\ Tail(SubSeq(s, k, n)) = SubSeq(s, k + 1, n)
  <2>1. SubSeq(s, k, n) \in Seq(FrameRec) /\ s[k] \in FrameRec
    BY ONLY s \in Seq(FrameRec), n = Len(s), k \in 1..n, n \in Nat
  <2>4. Len(SubSeq(s, k, n)) = n + 1 - k
    BY ONLY s \in Seq(FrameRec), n = Len(s), k \in 1..n, n \in Nat
  <2>5. SubSeq(s, k, n) # <<>>
    <3>1. Len(SubSeq(s, k, n)) # 0
      BY ONLY <2>4, k \in 1..n, n \in Nat
    <3>2. Len(<<>>) = 0
      OBVIOUS
    <3> QED
      BY ONLY <3>1, <3>2, Zenon
  <2>2. Head(SubSeq(s, k, n)) = s[k]
    OBVIOUS
  <2>3. Tail(SubSeq(s, k, n)) = SubSeq(s, k + 1, n)
    OBVIOUS
  <2> QED
    BY <2>1, <2>2, <2>3, <2>5
<1>a. 0 \in 0..n /\ 0 + 1 = 1 /\ n \in 0..n
  OBVIOUS
<1>1. T \in J[0]
  BY <1>0, <1>a, LessRefl
<1>2. ASSUME NEW k \in 1..n, NEW U \in J[k - 1] PROVE FrameDone(FALSE, U, s[k]) \in J[k]
  <2>0. /\ SubSeq(s, k, n) \in Seq(FrameRec) /\ SubSeq(s, k, n) # <<>> /\ Head(SubSeq(s, k, n)) = s[k]
        /\ Tail(SubSeq(s, k, n)) = SubSeq(s, k + 1, n) /\ s[k] \in FrameRec
    BY ONLY <1>b, k \in 1..n
  <2> PICK r \in Seq(FrameRec) : r = SubSeq(s, k, n)
    BY <2>0
  <2>1. r # <<>> /\ Head(r) = s[k] /\ Tail(r) = SubSeq(s, k + 1, n) /\ s[k] \in FrameRec
    BY ONLY <2>0, r = SubSeq(s, k, n)
  <2>2. k - 1 \in 0..n /\ (k - 1) + 1 = k /\ k \in 0..n
    OBVIOUS
  <2>3. U \in TxRec /\ Less(T, U) /\ Acc(TakesWr, i, y, E, Hand(G, r), U)
    BY <2>2
  <2> PICK w \in WR : w = s[k][1]
    BY <2>1 DEF FrameRec
  <2> PICK H \in [WR -> Nat] : H = Hand(G, r)
    BY <2>1, HandTail
  <2>4. H[w] > 0 /\ Less1(H, w) = Hand(G, Tail(r))
    BY <2>1, HandTail
  <2>5. w \notin E
    BY DEF Ran
  <2>6. OwnT(i, U)
    BY <2>3, OwnLess
  <2>7. Acc(TakesWr, i, y, E, Less1(H, w), TxDone(U, w, FALSE))
    BY <2>3, <2>4, <2>5, <2>6, AccTxDone
  <2>8. Less(U, TxDone(U, w, FALSE))
    BY <2>3, TxDoneLess
  <2>9. Less(T, TxDone(U, w, FALSE))
    BY <2>3, <2>8, LessTrans
  <2>10. FrameDone(FALSE, U, s[k]) = TxDone(U, w, FALSE)
    BY DEF FrameDone
  <2> QED
    BY <2>1, <2>2, <2>4, <2>7, <2>9, <2>10 DEF Less
<1>3. Frames!Run(FALSE, T, s) \in J[n]
  BY ONLY <1>1, <1>2, FramesRun, n \in Nat, n = Len(s)
<1>4. Hand(G, <<>>) = G
  <2>1. <<>> \in Seq(FrameRec)
    OBVIOUS
  <2>2. \A w \in WR : FramesOf(<<>>, w) = 0
    BY <2>1, CountFacts
  <2> QED
    BY <2>2 DEF Hand
<1> QED
  BY <1>0, <1>a, <1>3, <1>4

EarlyPc == {"popped", "path", "window", "reserve", "set"}
Posting == {"post", "frame", "group"}
\* The sends the worker has not begun to post.
Early == {w \in WR : \/ tx.snd[w].qp = 0 \/ w \in Ran(tx.sq)
                     \/ (wk.pc \in EarlyPc /\ wk.w = w) \/ (poster.pc # "idle" /\ poster.w = w)}
\* The frames the worker has still to post, the window it holds for its send.
Unposted == [w \in WR |-> IF wk.pc \in Posting /\ wk.w = w THEN conf.len[w] - wk.posted ELSE 0]
Holding == IF wk.pc \in {"reserve", "set"} THEN 1 ELSE 0
Frs(T) == Ran(T.pq) \cup Ran(T.ring)

\* Work requests are posted, queued and taken by the worker in their order.
OrderInv ==
  /\ Rising(tx.sq)
  /\ \A v, w \in WR : v < w /\ tx.snd[w].qp # 0 => tx.snd[v].qp # 0
  /\ poster.pc # "idle" =>
       (\A v \in WR : tx.snd[v].qp # 0 => v <= poster.w) /\ poster.w \notin Ran(tx.sq)
  /\ wk.pc \notin {"idle", "top"} =>
       (\A v \in Ran(tx.sq) : wk.w < v) /\ (poster.pc # "idle" => wk.w # poster.w)
  /\ \A w \in WR : IF tx.snd[w].qp = 0 THEN tx.snd[w].counted = FALSE ELSE conf.len[w] > 0
  /\ poster.pc = "slot" => tx.snd[poster.w].counted = FALSE

AccInv == Acc(TakesWr, qp.inc, Holding, Early, Unposted, tx)

WindowInv ==
  /\ tx.out <= conf.slots
  /\ Exclusive => /\ Holding = 1 => WinSet(qp.inc, tx) = {}
                  /\ \A v, w \in WinSet(qp.inc, tx) : v = w
  /\ \A f \in Frs(tx) : tx.snd[f[1]].done \/ tx.snd[f[1]].win
  /\ wk.pc \in Posting => (tx.snd[wk.w].done \/ tx.snd[wk.w].win) /\ wk.posted < conf.len[wk.w]
  /\ wk.pc \in EarlyPc => wk.posted = 0
  /\ \A w \in WR : tx.snd[w].left <= conf.len[w]

SendInv == OrderInv /\ AccInv /\ WindowInv

\* What the types say, in the form the steps use.
LEMMA SendTypes ==
  ASSUME Inv1, SendInv
  PROVE  /\ conf \in Conf /\ tx \in TxRec /\ OwnT(qp.inc, tx) /\ qp.inc \in Nat /\ TakesWr \in BOOLEAN
         /\ Holding \in Nat /\ Early \subseteq WR /\ Unposted \in [WR -> Nat]
         /\ \A w \in WR : tx.snd[w] \in SndRec /\ conf.len[w] \in Nat
         /\ tx.pq \in Seq(FrameRec) /\ tx.ring \in Seq(FrameRec) /\ tx.sq \in Seq(WR) /\ tx.list \in Seq(WR)
         /\ wk \in WkRec /\ poster \in PosterRec
         /\ Frs(tx) \subseteq FrameRec /\ \A f \in FrameRec : f[1] \in WR
<1>1. conf \in Conf /\ tx \in TxRec /\ OwnT(qp.inc, tx) /\ wk \in WkRec /\ poster \in PosterRec
  BY DEF Inv1, RailInv, RailTypes, TxTypes, OwnInv
<1>2. qp.inc \in Nat
  BY SizeAssumption DEF Inv1, RailInv, RailTypes, QpRec
<1>3. TakesWr \in BOOLEAN /\ \A w \in WR : conf.len[w] \in Nat
  BY <1>1, ConfFacts
<1>4. Unposted \in [WR -> Nat]
  <2>1. wk.pc \in Posting => wk.posted < conf.len[wk.w] /\ wk.posted \in Nat
    BY <1>1 DEF SendInv, WindowInv, WkRec
  <2>2. \A w \in WR : (IF wk.pc \in Posting /\ wk.w = w THEN conf.len[w] - wk.posted ELSE 0) \in Nat
    BY <1>3, <2>1
  <2> QED
    BY <2>2 DEF Unposted
<1>5. Frs(tx) \subseteq FrameRec
  BY <1>1, RanFacts DEF Frs, TxRec
<1>6. \A f \in FrameRec : f[1] \in WR
  BY DEF FrameRec
<1> QED
  BY <1>1, <1>2, <1>3, <1>4, <1>5, <1>6 DEF Holding, Early, TxRec

\* Less to account for.
LEMMA AccWeaken ==
  ASSUME NEW t, NEW i, NEW y, NEW E, NEW H \in [WR -> Nat], NEW T \in TxRec, Acc(t, i, y, E, H, T),
         NEW F, F \subseteq E, NEW G \in [WR -> Nat], \A w \in WR : G[w] <= H[w]
  PROVE  Acc(t, i, y, F, G, T)
<1>1. LeftOK(G, T)
  <2> SUFFICES ASSUME NEW w \in WR
               PROVE  T.snd[w].left >= FramesOf(T.pq, w) + FramesOf(T.ring, w) + G[w]
    BY DEF LeftOK
  <2> PICK a \in Nat, b \in Nat : a = FramesOf(T.pq, w) /\ b = FramesOf(T.ring, w)
    BY CountFacts DEF TxRec
  <2> PICK g \in Nat, h \in Nat, l \in Int : g = G[w] /\ h = H[w] /\ l = T.snd[w].left
    BY DEF TxRec, SndRec
  <2>1. l >= a + b + h /\ g <= h
    BY DEF Acc, LeftOK
  <2>2. l >= a + b + g
    BY ONLY <2>1, a \in Nat, b \in Nat, g \in Nat, h \in Nat, l \in Int
  <2> QED
    BY <2>2
<1> QED
  BY <1>1 DEF Acc

\* Nothing the send side keeps changes.
LEMMA SendKeep ==
  ASSUME SendInv, UNCHANGED <<conf, tx, wk, poster>>, qp'.inc = qp.inc
  PROVE  SendInv'
<1>1. OrderInv'
  BY DEF SendInv, OrderInv
<1>2. Early' = Early /\ Unposted' = Unposted /\ Holding' = Holding /\ TakesWr' = TakesWr
  BY DEF Early, Unposted, Holding, TakesWr, Exclusive
<1>3. AccInv'
  BY <1>2 DEF SendInv, AccInv
<1>4. WindowInv'
  BY <1>2 DEF SendInv, WindowInv, Exclusive
<1> QED
  BY <1>1, <1>3, <1>4 DEF SendInv

\* A step of completions.
LEMMA SendClear ==
  ASSUME Inv1, SendInv, UNCHANGED <<conf, poster>>, qp'.inc = qp.inc,
         NEW T \in TxRec, T.sq = tx.sq \/ T.sq = <<>>, Frs(T) \subseteq Frs(tx), Less(T, tx'),
         \A v \in WR : /\ T.snd[v].qp = tx.snd[v].qp /\ T.snd[v].win = tx.snd[v].win
                       /\ T.snd[v].counted = tx.snd[v].counted /\ T.snd[v].done = tx.snd[v].done
                       /\ T.snd[v].left <= tx.snd[v].left,
         wk' = wk \/ (wk'.pc = "top" /\ wk.pc \in {"end", "fail"}),
         Acc(TakesWr, qp.inc, Holding, Early, Unposted, tx')
  PROVE  SendInv'
<1>0. /\ conf \in Conf /\ tx \in TxRec /\ qp.inc \in Nat /\ Early \subseteq WR
      /\ \A w \in WR : tx.snd[w] \in SndRec /\ conf.len[w] \in Nat
      /\ Frs(tx) \subseteq FrameRec /\ \A f \in FrameRec : f[1] \in WR
  BY SendTypes
<1>1. /\ tx' \in TxRec /\ tx'.sq = T.sq /\ tx'.ring = T.ring /\ Ran(tx'.pq) \subseteq Ran(T.pq)
      /\ \A v \in WR : SndLess(T.snd[v], tx'.snd[v])
  BY DEF Less
<1>2. \A v \in WR : /\ tx'.snd[v].qp = tx.snd[v].qp
                    /\ tx.snd[v].done => tx'.snd[v].done
                    /\ IF tx'.snd[v].done = tx.snd[v].done
                       THEN tx'.snd[v].win = tx.snd[v].win /\ tx'.snd[v].counted = tx.snd[v].counted
                       ELSE tx'.snd[v].win = FALSE /\ tx'.snd[v].counted = FALSE
  BY <1>1 DEF SndLess
<1>3. \A v \in WR : tx'.snd[v].left <= tx.snd[v].left
  <2> TAKE v \in WR
  <2> PICK a \in Int, b \in Int, c \in Int : a = tx'.snd[v].left /\ b = T.snd[v].left /\ c = tx.snd[v].left
    BY <1>0, <1>1 DEF TxRec, SndRec
  <2>1. a <= b /\ b <= c
    BY <1>1 DEF SndLess
  <2> QED
    BY ONLY <2>1, a \in Int, b \in Int, c \in Int, a = tx'.snd[v].left, c = tx.snd[v].left
<1>4. Ran(tx'.sq) \subseteq Ran(tx.sq) /\ (Rising(tx.sq) => Rising(tx'.sq)) /\ Frs(tx') \subseteq Frs(tx)
  <2>1. Ran(<<>>) = {} /\ Rising(<<>>)
    BY DEF Ran, Rising
  <2> QED
    BY <1>1, <2>1 DEF Frs
<1>5. /\ wk'.pc \notin {"idle", "top"} => wk' = wk
      /\ Holding' = Holding
      /\ wk'.pc \in Posting \cup EarlyPc => wk' = wk
  BY DEF Holding, Posting, EarlyPc
<1>6. OrderInv'
  <2>1. poster.pc # "idle" => poster.w \in WR
    BY DEF Inv1, RailInv, UserInv, IdlePoster
  <2>2. poster'.pc = "slot" => tx'.snd[poster'.w].counted = FALSE
    <3>1. poster' = poster /\ (poster.pc = "slot" => poster.w \in WR /\ tx.snd[poster.w].counted = FALSE)
      BY <2>1 DEF SendInv, OrderInv
    <3> QED
      BY <1>2, <3>1
  <2>3. \A w \in WR : IF tx'.snd[w].qp = 0 THEN tx'.snd[w].counted = FALSE ELSE conf.len[w] > 0
    BY <1>2 DEF SendInv, OrderInv
  <2>4. wk'.pc \notin {"idle", "top"} =>
          (\A v \in Ran(tx'.sq) : wk'.w < v) /\ (poster.pc # "idle" => wk'.w # poster.w)
    BY <1>4, <1>5 DEF SendInv, OrderInv
  <2>5. poster.pc # "idle" =>
          (\A v \in WR : tx'.snd[v].qp # 0 => v <= poster.w) /\ poster.w \notin Ran(tx'.sq)
    BY <1>2, <1>4 DEF SendInv, OrderInv
  <2>6. Rising(tx'.sq) /\ \A v, w \in WR : v < w /\ tx'.snd[w].qp # 0 => tx'.snd[v].qp # 0
    BY <1>2, <1>4 DEF SendInv, OrderInv
  <2> QED
    BY <2>2, <2>3, <2>4, <2>5, <2>6 DEF OrderInv
<1>7. Early' \subseteq Early
  BY <1>2, <1>4, <1>5 DEF Early, EarlyPc
<1>8. TakesWr' = TakesWr /\ Unposted' = Unposted
  BY DEF TakesWr, Exclusive, Unposted, Posting
<1>9. AccInv'
  <2>1. Acc(TakesWr, qp.inc, Holding, Early', Unposted, tx')
    BY <1>7 DEF Acc
  <2> QED
    BY <1>5, <1>8, <2>1 DEF AccInv
<1>10. WinSet(qp.inc, tx') \subseteq WinSet(qp.inc, tx) /\ CntSet(qp.inc, tx') \subseteq CntSet(qp.inc, tx)
  BY <1>0, <1>2 DEF WinSet, CntSet, SndRec
<1>11. tx'.out <= conf.slots
  <2> PICK A, B : A = CntSet(qp.inc, tx') /\ B = CntSet(qp.inc, tx)
    OBVIOUS
  <2>1. IsFiniteSet(WR) /\ B \subseteq WR
    BY SizeAssumption, FS_Interval DEF WR, CntSet
  <2>2. IsFiniteSet(B)
    BY <2>1, FS_Subset
  <2>3. Cardinality(A) <= Cardinality(B) /\ Cardinality(A) \in Nat /\ Cardinality(B) \in Nat
    <3>1. IsFiniteSet(A)
      BY <1>10, <2>2, FS_Subset
    <3> QED
      BY <1>10, <2>2, <3>1, FS_Subset, FS_CardinalityType
  <2>4. tx'.out = Cardinality(A) /\ tx.out = Cardinality(B) /\ tx.out <= conf.slots
    BY DEF Acc, OutOK, SendInv, AccInv, WindowInv
  <2>5. conf.slots \in Nat
    BY <1>0, ConfFacts
  <2> QED
    BY ONLY <2>3, <2>4, <2>5
<1>12. \A f \in Frs(tx') : tx'.snd[f[1]].done \/ tx'.snd[f[1]].win
  <2>1. \A v \in WR : tx.snd[v].done \/ tx.snd[v].win => tx'.snd[v].done \/ tx'.snd[v].win
    <3> TAKE v \in WR
    <3>1. tx.snd[v].done \in BOOLEAN /\ tx'.snd[v].done \in BOOLEAN
      BY <1>0, <1>1 DEF TxRec, SndRec
    <3> QED
      BY <1>2, <3>1
  <2> QED
    BY <1>0, <1>4, <2>1 DEF SendInv, WindowInv
<1>13. wk'.pc \in Posting => (tx'.snd[wk'.w].done \/ tx'.snd[wk'.w].win) /\ wk'.posted < conf.len[wk'.w]
  <2> SUFFICES ASSUME wk'.pc \in Posting
               PROVE  (tx'.snd[wk'.w].done \/ tx'.snd[wk'.w].win) /\ wk'.posted < conf.len[wk'.w]
    OBVIOUS
  <2>1. wk' = wk /\ wk.w \in WR
    BY <1>5 DEF Inv1, TxTypes, Posting
  <2>2. tx.snd[wk.w].done \in BOOLEAN /\ tx'.snd[wk.w].done \in BOOLEAN
    BY <1>0, <1>1, <2>1 DEF TxRec, SndRec
  <2> QED
    BY <1>2, <2>1, <2>2 DEF SendInv, WindowInv
<1>14. \A v \in WR : tx'.snd[v].left <= conf.len[v]
  <2> TAKE v \in WR
  <2> PICK a \in Int, c \in Int, n \in Nat : a = tx'.snd[v].left /\ c = tx.snd[v].left /\ n = conf.len[v]
    BY <1>0, <1>1 DEF TxRec, SndRec
  <2>1. a <= c /\ c <= n
    BY <1>3 DEF SendInv, WindowInv
  <2> QED
    BY ONLY <2>1, a \in Int, c \in Int, n \in Nat, a = tx'.snd[v].left, n = conf.len[v]
<1>15. WindowInv'
  <2>1. wk'.pc \in EarlyPc => wk'.posted = 0
    BY <1>5 DEF SendInv, WindowInv
  <2>2. Exclusive' = Exclusive
    BY DEF Exclusive
  <2>3. Exclusive => /\ Holding = 1 => WinSet(qp.inc, tx') = {}
                     /\ \A v, w \in WinSet(qp.inc, tx') : v = w
    BY <1>10 DEF SendInv, WindowInv
  <2> QED
    BY <1>5, <1>11, <1>12, <1>13, <1>14, <2>1, <2>2, <2>3 DEF WindowInv
<1> QED
  BY <1>6, <1>9, <1>15 DEF SendInv

\* The same sends, held by other queues.
SameHeld(T, U) ==
  /\ U.wrs = T.wrs /\ U.out = T.out
  /\ \A v \in WR : U.snd[v].qp = T.snd[v].qp /\ U.snd[v].win = T.snd[v].win /\ U.snd[v].counted = T.snd[v].counted

\* The same window and slots.
LEMMA AccSame ==
  ASSUME NEW t, NEW i, NEW y, NEW E, NEW H, NEW T, Acc(t, i, y, E, H, T), NEW U, SameHeld(T, U),
         NEW F, NEW G, \A w \in F : Clean(U, w), LeftOK(G, U)
  PROVE  Acc(t, i, y, F, G, U)
<1>1. WinSet(i, U) = WinSet(i, T) /\ CntSet(i, U) = CntSet(i, T)
  BY DEF WinSet, CntSet, SameHeld
<1> QED
  BY <1>1 DEF Acc, WrsOK, OutOK, SameHeld

\* A send that is clean stays clean when its record stays and no frame of it comes.
LEMMA CleanKept ==
  ASSUME NEW T, NEW U, NEW w, Clean(T, w), U.snd[w] = T.snd[w], w \in U.late => w \in T.late,
         \A f \in Frs(U) : f \in Frs(T) \/ f[1] # w
  PROVE  Clean(U, w)
  BY DEF Clean, Frs

\* A step that runs one of the loops.
LEMMA SendLoop ==
  ASSUME Inv1, SendInv, UNCHANGED <<conf, poster>>, qp'.inc = qp.inc, Less(tx, tx'),
         wk' = wk \/ (wk'.pc = "top" /\ wk.pc \in {"end", "fail"}),
         Acc(TakesWr, qp.inc, Holding, Early, Unposted, tx')
  PROVE  SendInv'
<1>1. tx \in TxRec
  BY SendTypes
<1>2. \A v \in WR : tx.snd[v].left <= tx.snd[v].left
  BY <1>1 DEF TxRec, SndRec
<1> QED
  BY <1>1, <1>2, SendClear

\* A flush.
LEMMA SendFlush ==
  ASSUME Inv1, SendInv, UNCHANGED <<conf, poster, wk>>, qp'.inc = qp.inc, tx' = Flush(tx)
  PROVE  SendInv'
<1>0. /\ conf \in Conf /\ tx \in TxRec /\ OwnT(qp.inc, tx) /\ Holding \in Nat /\ Early \subseteq WR
      /\ Unposted \in [WR -> Nat] /\ <<>> \in Seq(WR)
  BY SendTypes
<1> PICK T : T = [tx EXCEPT !.sq = <<>>]
  OBVIOUS
<1>2. /\ T \in TxRec /\ T.snd = tx.snd /\ T.sq = <<>> /\ T.pq = tx.pq /\ T.ring = tx.ring
  BY ONLY <1>0, T = [tx EXCEPT !.sq = <<>>] DEF TxRec
<1>3. Less(T, tx')
  BY LoopTx DEF Inv1
<1>4. Acc(TakesWr, qp.inc, Holding, Early, Unposted, tx')
  BY <1>0, AccLoops DEF SendInv, AccInv
<1>5. \A v \in WR : T.snd[v].left <= tx.snd[v].left
  <2>1. \A v \in WR : tx.snd[v].left \in Int
    BY <1>0 DEF TxRec, SndRec
  <2> QED
    BY <1>2, <2>1
<1>6. Frs(T) \subseteq Frs(tx)
  BY <1>2 DEF Frs
<1> QED
  BY <1>2, <1>3, <1>4, <1>5, <1>6, SendClear

\* The worker is done with an entry.
LEMMA SendEnd ==
  ASSUME Inv1, SendInv, WorkerEnd
  PROVE  SendInv'
<1>1. UNCHANGED <<conf, poster, qp>> /\ wk'.pc = "top" /\ wk.pc \in {"end", "fail"}
  BY DEF WorkerEnd, IdleWorker
<1>2. Less(tx, tx')
  BY LoopTx DEF Inv1
<1>3. /\ conf \in Conf /\ tx \in TxRec /\ OwnT(qp.inc, tx) /\ Holding \in Nat /\ Early \subseteq WR
      /\ Unposted \in [WR -> Nat]
  BY SendTypes
<1>4. wk.w \in WR /\ tx.snd[wk.w].qp = qp.inc
  BY <1>1 DEF Inv1, TxTypes, OwnInv
<1>5. Acc(TakesWr, qp.inc, Holding, Early, Unposted, Unqueue(FALSE, tx, wk.w))
  BY <1>3, <1>4, AccLoops DEF SendInv, AccInv
<1>6. Acc(TakesWr, qp.inc, Holding, Early, Unposted, tx')
  BY <1>5 DEF WorkerEnd, SendInv, AccInv
<1> QED
  BY <1>1, <1>2, <1>6, SendLoop

\* The timeout work completes what it has taken.
LEMMA SendTimerComplete ==
  ASSUME Inv1, SendInv, TimerComplete
  PROVE  SendInv'
<1>1. UNCHANGED <<conf, poster, qp, wk>>
  BY DEF TimerComplete
<1>2. Less(tx, tx') /\ tx' = Sends!Run(FALSE, tx, timer.taken)
  BY LoopTx DEF Inv1
<1>3. /\ conf \in Conf /\ tx \in TxRec /\ OwnT(qp.inc, tx) /\ Holding \in Nat /\ Early \subseteq WR
      /\ Unposted \in [WR -> Nat]
  BY SendTypes
<1>4. timer.taken \in Seq(WR)
  BY DEF Inv1, TxTypes, TimerRec
<1>5. Ran(timer.taken) \subseteq Mine(qp.inc, tx)
  BY <1>4, RanFacts DEF Inv1, OwnInv, Mine
<1>6. Acc(TakesWr, qp.inc, Holding, Early, Unposted, Sends!Run(FALSE, tx, timer.taken))
  BY <1>3, <1>4, <1>5, AccLoops DEF SendInv, AccInv
<1> QED
  BY <1>1, <1>2, <1>6, SendLoop

\* A delayed completion.
LEMMA SendLate ==
  ASSUME Inv1, SendInv, NEW w, SendCompleteWork(w)
  PROVE  SendInv'
<1>1. UNCHANGED <<conf, poster, qp, wk>>
  BY DEF SendCompleteWork
<1>2. /\ conf \in Conf /\ tx \in TxRec /\ OwnT(qp.inc, tx) /\ Holding \in Nat /\ Early \subseteq WR
      /\ Unposted \in [WR -> Nat]
  BY SendTypes
<1>3. w \in WR /\ w \in tx.late /\ LateTo(SendComplete(tx, w, TRUE), w, tx')
  BY LateTx DEF Inv1
<1> PICK U : U = SendComplete(tx, w, TRUE)
  OBVIOUS
<1>4. Less(tx, U)
  BY <1>2, <1>3, DoneLess
<1>5. tx.snd[w].qp = qp.inc
  BY <1>2, <1>3 DEF OwnT
<1>6. Acc(TakesWr, qp.inc, Holding, Early, Unposted, U)
  BY <1>2, <1>3, <1>5, AccLoops DEF SendInv, AccInv
<1>7. /\ tx' \in TxRec /\ tx'.late = U.late \ {w} /\ tx'.snd = U.snd /\ tx'.list = U.list /\ tx'.sq = U.sq
      /\ tx'.pq = U.pq /\ tx'.ring = U.ring /\ tx'.wrs = U.wrs /\ tx'.out = U.out
  BY <1>3 DEF LateTo, SamePath, SameCounts
<1>8. Less(tx, tx')
  BY <1>4, <1>7 DEF Less
<1>9. Acc(TakesWr, qp.inc, Holding, Early, Unposted, tx')
  <2>1. SameHeld(U, tx')
    BY <1>7 DEF SameHeld
  <2>2. \A v \in Early : Clean(tx', v)
    <3> TAKE v \in Early
    <3>1. Clean(U, v)
      BY <1>6 DEF Acc
    <3> QED
      BY ONLY <3>1, <1>7 DEF Clean
  <2>3. LeftOK(Unposted, tx')
    BY <1>6, <1>7 DEF Acc, LeftOK
  <2> QED
    BY <1>6, <2>1, <2>2, <2>3, AccSame
<1> QED
  BY <1>1, <1>8, <1>9, SendLoop

\* The frames handed back by a stopped queue.
LEMMA SendFrames ==
  ASSUME Inv1, SendInv, UNCHANGED <<conf, poster, wk>>, qp'.inc = qp.inc,
         NEW T, NEW s, \/ T = PqEmptied(tx) /\ s = tx.pq
                       \/ T = RingEmptied(tx) /\ s = tx.ring,
         tx' = Frames!Run(FALSE, T, s), Less(T, tx')
  PROVE  SendInv'
<1>0. /\ conf \in Conf /\ tx \in TxRec /\ OwnT(qp.inc, tx) /\ Holding \in Nat /\ Early \subseteq WR
      /\ Unposted \in [WR -> Nat] /\ tx.pq \in Seq(FrameRec) /\ tx.ring \in Seq(FrameRec)
      /\ \A v \in WR : tx.snd[v] \in SndRec
  BY SendTypes
<1>1. /\ T \in TxRec /\ T.snd = tx.snd /\ SameLists(tx, T) /\ SameCounts(tx, T) /\ s \in Seq(FrameRec)
      /\ \/ T.pq = <<>> /\ T.ring = tx.ring /\ s = tx.pq
         \/ T.pq = tx.pq /\ T.ring = <<>> /\ s = tx.ring
  BY <1>0, EmptiedTx
<1>2. Frs(T) \subseteq Frs(tx) /\ Ran(s) \subseteq Frs(tx)
  <2>1. Ran(<<>>) = {}
    BY DEF Ran
  <2> QED
    BY <1>1, <2>1 DEF Frs
<1>3. OwnT(qp.inc, T)
  <2>1. Frs(T) \subseteq Frs(tx) /\ T.snd = tx.snd /\ T.list = tx.list /\ T.sq = tx.sq /\ T.late = tx.late
    BY <1>1, <1>2 DEF SameLists
  <2> QED
    BY <1>0, <2>1 DEF OwnT, Frs
<1>4. \A w \in Early : Clean(tx, w)
  BY DEF SendInv, AccInv, Acc
<1>5. \A f \in Ran(s) : f[1] \notin Early
  BY <1>2, <1>4 DEF Clean, Frs
<1>6. \A w \in Early : Clean(T, w)
  <2> TAKE w \in Early
  <2>1. Clean(tx, w) /\ T.snd[w] = tx.snd[w] /\ T.late = tx.late
    BY <1>1, <1>4 DEF SameLists
  <2> QED
    BY <1>2, <2>1, CleanKept
<1>7. LeftOK(Hand(Unposted, s), T)
  <2> SUFFICES ASSUME NEW v \in WR
               PROVE  T.snd[v].left >= FramesOf(T.pq, v) + FramesOf(T.ring, v) + Hand(Unposted, s)[v]
    BY DEF LeftOK
  <2>1. FramesOf(tx.pq, v) \in Nat /\ FramesOf(tx.ring, v) \in Nat /\ FramesOf(<<>>, v) = 0
    <3>1. <<>> \in Seq(FrameRec) /\ DOMAIN <<>> = {}
      OBVIOUS
    <3>2. FramesOf(<<>>, v) = 0
      BY <3>1, CountFacts
    <3> QED
      BY <1>0, <3>2, CountFacts
  <2> PICK a \in Nat, b \in Nat, h \in Nat, l \in Int :
         a = FramesOf(tx.pq, v) /\ b = FramesOf(tx.ring, v) /\ h = Unposted[v] /\ l = tx.snd[v].left
    BY <1>0, <2>1 DEF SndRec
  <2>2. l >= a + b + h
    BY DEF SendInv, AccInv, Acc, LeftOK
  <2>3. Hand(Unposted, s)[v] = h + FramesOf(s, v) /\ T.snd[v].left = l
    BY <1>1 DEF Hand
  <2>4. l >= 0 + b + (h + a) /\ l >= a + 0 + (h + b)
    BY ONLY <2>2, a \in Nat, b \in Nat, h \in Nat, l \in Int
  <2> QED
    BY <1>1, <2>1, <2>3, <2>4
<1>8. Acc(TakesWr, qp.inc, Holding, Early, Hand(Unposted, s), T)
  <2>1. SameHeld(tx, T)
    BY <1>1 DEF SameHeld, SameCounts
  <2>2. Acc(TakesWr, qp.inc, Holding, Early, Unposted, tx)
    BY DEF SendInv, AccInv
  <2> QED
    BY <1>6, <1>7, <2>1, <2>2, AccSame
<1>9. Acc(TakesWr, qp.inc, Holding, Early, Unposted, tx')
  BY <1>0, <1>1, <1>3, <1>5, <1>8, AccFrames
<1>10. \A v \in WR : T.snd[v].left <= tx.snd[v].left
  <2>1. \A v \in WR : tx.snd[v].left \in Int
    BY <1>0 DEF TxRec, SndRec
  <2> QED
    BY <1>1, <2>1
<1>11. T.sq = tx.sq
  BY <1>1 DEF SameLists
<1> QED
  BY <1>1, <1>2, <1>9, <1>10, <1>11, SendClear

\* The quiesce cancels what is queued, or stops the ring.
LEMMA SendCancel ==
  ASSUME Inv1, SendInv, QCancel \/ QBarrier
  PROVE  SendInv'
<1>1. UNCHANGED <<conf, poster, qp, wk>>
  BY DEF QCancel, QBarrier
<1>2. CASE QCancel
  <2>1. tx' = Frames!Run(FALSE, PqEmptied(tx), tx.pq) /\ Less(PqEmptied(tx), tx')
    BY <1>2, LoopTx DEF Inv1, QCancel, PqEmptied
  <2> QED
    BY <1>1, <2>1, SendFrames
<1>3. CASE QBarrier
  <2>1. tx' = Frames!Run(FALSE, RingEmptied(tx), tx.ring) /\ Less(RingEmptied(tx), tx')
    BY <1>3, LoopTx DEF Inv1, QBarrier, RingEmptied
  <2> QED
    BY <1>1, <2>1, SendFrames
<1> QED
  BY <1>2, <1>3

\* The NHI transmits.
LEMMA SendNhi ==
  ASSUME Inv1, SendInv, NhiSend
  PROVE  SendInv'
<1>1. UNCHANGED <<conf, poster, qp, wk>>
  BY DEF NhiSend
<1>0. /\ conf \in Conf /\ tx \in TxRec /\ OwnT(qp.inc, tx) /\ Holding \in Nat /\ Early \subseteq WR
      /\ Unposted \in [WR -> Nat] /\ tx.pq \in Seq(FrameRec) /\ tx.ring \in Seq(FrameRec)
      /\ \A v \in WR : tx.snd[v] \in SndRec
  BY SendTypes
<1> PICK w : w = Head(tx.ring)[1]
  OBVIOUS
<1>2. /\ tx.ring # <<>> /\ w \in WR /\ Tail(tx.ring) \in Seq(FrameRec) /\ Head(tx.ring) \in FrameRec
      /\ \E U : SentTo(tx, w, U) /\ tx' = TxDone(U, w, TRUE)
  BY NhiSendTx DEF Inv1
<1> PICK U : SentTo(tx, w, U) /\ tx' = TxDone(U, w, TRUE)
  BY <1>2
<1>3. /\ U \in TxRec /\ U.list = tx.list /\ U.sq = tx.sq /\ U.late = tx.late /\ U.pq = tx.pq
      /\ U.ring = Tail(tx.ring) /\ U.wrs = tx.wrs /\ U.out = tx.out
      /\ \A v \in WR : v # w => U.snd[v] = tx.snd[v]
  BY DEF SentTo, SameLists, SameCounts
<1>4. \A v \in WR : /\ U.snd[v].qp = tx.snd[v].qp /\ U.snd[v].win = tx.snd[v].win /\ U.snd[v].left = tx.snd[v].left
                    /\ U.snd[v].counted = tx.snd[v].counted /\ U.snd[v].done = tx.snd[v].done
  <2> TAKE v \in WR
  <2>1. CASE v = w
    <3>1. U.snd[w] = [tx.snd[w] EXCEPT !.sent = tx.snd[w].sent + 1] /\ tx.snd[w] \in SndRec
      BY <1>0, <1>2 DEF SentTo
    <3> QED
      BY ONLY <2>1, <3>1 DEF SndRec
  <2>2. CASE v # w
    BY <1>3, <2>2
  <2> QED
    BY <2>1, <2>2
<1>5. Ran(tx.ring) = Ran(U.ring) \cup {Head(tx.ring)}
  BY <1>0, <1>2, <1>3, RanTail
<1>6. Frs(U) \subseteq Frs(tx) /\ Head(tx.ring) \in Frs(tx)
  BY <1>3, <1>5 DEF Frs
<1>7. OwnT(qp.inc, U)
  BY <1>0, <1>3, <1>4, <1>6, OwnMoves DEF Frs
<1>8. \A v \in Early : Clean(tx, v)
  BY DEF SendInv, AccInv, Acc
<1>9. w \notin Early
  BY <1>6, <1>8 DEF Clean, Frs
<1>10. \A v \in Early : Clean(U, v)
  <2> TAKE v \in Early
  <2>1. Clean(tx, v) /\ U.snd[v] = tx.snd[v] /\ U.late = tx.late
    BY <1>0, <1>3, <1>8, <1>9
  <2> QED
    BY <1>6, <2>1, CleanKept
<1> PICK H : H = [Unposted EXCEPT ![w] = Unposted[w] + 1]
  OBVIOUS
<1>11. H \in [WR -> Nat] /\ H[w] = Unposted[w] + 1 /\ \A v \in WR : v # w => H[v] = Unposted[v]
  BY <1>0, <1>2
<1>12. LeftOK(H, U)
  <2> SUFFICES ASSUME NEW v \in WR
               PROVE  U.snd[v].left >= FramesOf(U.pq, v) + FramesOf(U.ring, v) + H[v]
    BY DEF LeftOK
  <2>1. FramesOf(tx.pq, v) \in Nat /\ FramesOf(Tail(tx.ring), v) \in Nat
    BY <1>0, <1>2, CountFacts
  <2>2. FramesOf(tx.ring, v) = FramesOf(Tail(tx.ring), v) + (IF w = v THEN 1 ELSE 0)
    BY <1>0, <1>2, CountTail
  <2> PICK a \in Nat, b \in Nat, h \in Nat, l \in Int, e \in 0..1 :
         a = FramesOf(tx.pq, v) /\ b = FramesOf(Tail(tx.ring), v) /\ h = Unposted[v] /\ l = tx.snd[v].left
         /\ e = (IF w = v THEN 1 ELSE 0)
    BY <1>0, <2>1 DEF SndRec
  <2>3. l >= a + (b + e) + h
    BY <2>2 DEF SendInv, AccInv, Acc, LeftOK
  <2>4. H[v] = h + e
    BY <1>11
  <2>5. l >= a + b + (h + e)
    BY ONLY <2>3, a \in Nat, b \in Nat, h \in Nat, l \in Int, e \in 0..1
  <2> QED
    BY <1>3, <1>4, <2>4, <2>5
<1>13. Acc(TakesWr, qp.inc, Holding, Early, H, U)
  <2>1. SameHeld(tx, U)
    BY <1>3, <1>4 DEF SameHeld
  <2>2. Acc(TakesWr, qp.inc, Holding, Early, Unposted, tx)
    BY DEF SendInv, AccInv
  <2> QED
    BY <1>10, <1>12, <2>1, <2>2, AccSame
<1>14. Less1(H, w) = Unposted
  <2>1. \A v \in WR : Less1(H, w)[v] = Unposted[v]
    BY <1>0, <1>2, <1>11 DEF Less1
  <2>2. Less1(H, w) = [v \in WR |-> Less1(H, w)[v]] /\ Unposted = [v \in WR |-> Unposted[v]]
    BY <1>0, <1>11 DEF Less1
  <2> QED
    BY ONLY <2>1, <2>2
<1>15. H[w] > 0
  BY <1>0, <1>2, <1>11
<1>16. Acc(TakesWr, qp.inc, Holding, Early, Unposted, tx')
  <2>1. Acc(TakesWr, qp.inc, Holding, Early, Less1(H, w), TxDone(U, w, TRUE))
    BY <1>0, <1>2, <1>3, <1>7, <1>9, <1>11, <1>13, <1>15, TRUE \in BOOLEAN, AccTxDone
  <2> QED
    BY <1>14, <2>1
<1>17. Less(U, tx')
  BY <1>0, <1>2, <1>3, TxDoneLess
<1>18. \A v \in WR : U.snd[v].left <= tx.snd[v].left
  <2>1. \A v \in WR : tx.snd[v].left \in Int
    BY <1>0 DEF SndRec
  <2> QED
    BY <1>4, <2>1
<1> QED
  BY <1>1, <1>3, <1>4, <1>6, <1>16, <1>17, <1>18, SendClear

\* A step that leaves the window alone.
LEMMA SendQuiet ==
  ASSUME Inv1, SendInv, UNCHANGED conf, qp'.inc = qp.inc, tx' \in TxRec,
         \A v \in WR : /\ tx'.snd[v].win = tx.snd[v].win /\ tx'.snd[v].left = tx.snd[v].left
                       /\ tx.snd[v].done => tx'.snd[v].done
                       /\ tx.snd[v].win => tx'.snd[v].qp = tx.snd[v].qp,
         tx'.wrs = tx.wrs, tx'.out <= conf.slots, OutOK(qp.inc, tx'),
         Frs(tx') \subseteq Frs(tx), LeftOK(Unposted, tx'),
         Early' \subseteq Early, \A v \in Early' : Clean(tx', v), Holding' = Holding,
         wk'.pc \in Posting => wk.pc \in Posting /\ wk'.w = wk.w /\ wk'.posted = wk.posted,
         wk'.pc \in EarlyPc => wk'.posted = 0,
         OrderInv'
  PROVE  SendInv'
<1>0. /\ tx \in TxRec /\ Unposted \in [WR -> Nat] /\ Holding \in Nat /\ Early \subseteq WR
      /\ Frs(tx) \subseteq FrameRec /\ \A f \in FrameRec : f[1] \in WR
  BY SendTypes
<1>1. \A v \in WR : tx.snd[v].win => tx'.snd[v].qp = tx.snd[v].qp
  OBVIOUS
<1>2. WinSet(qp.inc, tx') = WinSet(qp.inc, tx)
  BY <1>1 DEF WinSet
<1>3. TakesWr' = TakesWr /\ Exclusive' = Exclusive
  BY DEF TakesWr, Exclusive
<1>4. Unposted' \in [WR -> Nat] /\ \A v \in WR : Unposted'[v] <= Unposted[v]
  <2>1. \A v \in WR : /\ Unposted'[v] = Unposted[v] \/ Unposted'[v] = 0
                      /\ Unposted[v] \in Nat
    BY <1>0 DEF Unposted
  <2>2. Unposted' = [v \in WR |-> Unposted'[v]]
    BY DEF Unposted
  <2>3. \A v \in WR : Unposted'[v] \in Nat /\ Unposted'[v] <= Unposted[v]
    BY <2>1
  <2> QED
    BY <2>2, <2>3
<1>5. LeftOK(Unposted', tx')
  <2> SUFFICES ASSUME NEW v \in WR
               PROVE  tx'.snd[v].left >= FramesOf(tx'.pq, v) + FramesOf(tx'.ring, v) + Unposted'[v]
    BY DEF LeftOK
  <2> PICK a \in Nat, b \in Nat : a = FramesOf(tx'.pq, v) /\ b = FramesOf(tx'.ring, v)
    BY CountFacts DEF TxRec
  <2> PICK g \in Nat, h \in Nat, l \in Int : g = Unposted'[v] /\ h = Unposted[v] /\ l = tx'.snd[v].left
    BY <1>0, <1>4 DEF TxRec, SndRec
  <2>1. l >= a + b + h /\ g <= h
    BY <1>4 DEF LeftOK
  <2>2. l >= a + b + g
    BY ONLY <2>1, a \in Nat, b \in Nat, g \in Nat, h \in Nat, l \in Int
  <2> QED
    BY <2>2
<1>6. WrsOK(TakesWr, qp.inc, Holding, tx')
  BY <1>2 DEF SendInv, AccInv, Acc, WrsOK
<1>7. AccInv'
  <2>1. Acc(TakesWr, qp.inc, Holding, Early', Unposted', tx')
    BY <1>5, <1>6 DEF Acc
  <2> QED
    BY <1>3, <2>1 DEF AccInv
<1>8. \A f \in Frs(tx') : tx'.snd[f[1]].done \/ tx'.snd[f[1]].win
  BY <1>0 DEF SendInv, WindowInv
<1>9. wk'.pc \in Posting => (tx'.snd[wk'.w].done \/ tx'.snd[wk'.w].win) /\ wk'.posted < conf.len[wk'.w]
  <2>1. wk.pc \in Posting => wk.w \in WR
    BY DEF Inv1, TxTypes, Posting
  <2> QED
    BY <2>1 DEF SendInv, WindowInv
<1>10. WindowInv'
  <2>1. Exclusive => /\ Holding = 1 => WinSet(qp.inc, tx') = {}
                     /\ \A v, w \in WinSet(qp.inc, tx') : v = w
    BY <1>2 DEF SendInv, WindowInv
  <2>2. \A v \in WR : tx'.snd[v].left <= conf.len[v]
    BY DEF SendInv, WindowInv
  <2> QED
    BY <1>3, <1>8, <1>9, <2>1, <2>2 DEF WindowInv
<1> QED
  BY <1>7, <1>10 DEF SendInv

\* The worker moves on and changes nothing else.
LEMMA SendPc ==
  ASSUME Inv1, SendInv, UNCHANGED <<conf, qp, tx, poster>>, wk.pc \notin {"idle", "top"},
         wk'.w = wk.w, wk'.posted = wk.posted, Holding' = Holding,
         wk'.pc \in EarlyPc => wk.pc \in EarlyPc, wk'.pc \in Posting => wk.pc \in Posting
  PROVE  SendInv'
<1>1. tx \in TxRec
  BY SendTypes
<1>2. Early' \subseteq Early
  BY DEF Early
<1>3. OrderInv'
  BY DEF SendInv, OrderInv
<1>4. OutOK(qp.inc, tx) /\ LeftOK(Unposted, tx) /\ \A v \in Early : Clean(tx, v)
  BY DEF SendInv, AccInv, Acc
<1>5. tx.out <= conf.slots /\ (wk.pc \in EarlyPc => wk.posted = 0)
  BY DEF SendInv, WindowInv
<1> QED
  BY <1>1, <1>2, <1>3, <1>4, <1>5, SendQuiet

\* The worker goes on without touching tx.
LEMMA SendWorkerPc ==
  ASSUME Inv1, SendInv, \/ WorkerGet \/ WorkerPath(BoundTo) \/ WorkerCheck \/ WorkerGroup
                        \/ WorkerWindow /\ tx' = tx /\ wk'.pc = "fail"
                        \/ WorkerReserve(rail.closed) /\ tx' = tx /\ wk'.pc = "set"
                        \/ WorkerPost(rail.closed) /\ rail.closed
  PROVE  SendInv'
<1>1. wk \in WkRec
  BY SendTypes
<1>2. UNCHANGED <<conf, qp, poster>>
  BY DEF WorkerGet, WorkerPath, WorkerCheck, WorkerGroup, WorkerWindow, WorkerReserve, WorkerPost
<1>3. CASE WorkerGet
  BY <1>1, <1>2, <1>3, SendPc DEF WorkerGet, WkRec, Holding, EarlyPc, Posting
<1>4. CASE WorkerPath(BoundTo)
  BY <1>1, <1>2, <1>4, SendPc DEF WorkerPath, WkRec, Holding, EarlyPc, Posting
<1>5. CASE WorkerCheck
  BY <1>1, <1>2, <1>5, SendPc DEF WorkerCheck, WkRec, Holding, EarlyPc, Posting
<1>6. CASE WorkerGroup
  BY <1>1, <1>2, <1>6, SendPc DEF WorkerGroup, WkRec, Holding, EarlyPc, Posting
<1>7. CASE WorkerWindow /\ tx' = tx /\ wk'.pc = "fail"
  BY <1>1, <1>2, <1>7, SendPc DEF WorkerWindow, WkRec, Holding, EarlyPc, Posting
<1>8. CASE WorkerReserve(rail.closed) /\ tx' = tx /\ wk'.pc = "set"
  BY <1>1, <1>2, <1>8, SendPc DEF WorkerReserve, WkRec, Holding, EarlyPc, Posting
<1>9. CASE WorkerPost(rail.closed) /\ rail.closed
  BY <1>1, <1>2, <1>9, SendPc DEF WorkerPost, WkRec, Holding, EarlyPc, Posting
<1> QED
  BY <1>3, <1>4, <1>5, <1>6, <1>7, <1>8, <1>9

\* No queue pair is number 0.
LEMMA IncUsed ==
  ASSUME Inv1
  PROVE  /\ Exists \/ wk.pc \notin {"idle", "top"} \/ poster.pc # "idle" => qp.inc # 0
         /\ qp.inc \in Nat
<1>1. Exists => qp.inc # 0
  BY DEF Inv1, RailInv, BindInv
<1>2. ~Exists => wk.pc = "idle" /\ poster.pc = "idle"
  BY DEF Inv1, RailInv, BindInv, DestroyInv, Past1, Past, IdlePoster
<1>3. qp.inc \in Nat
  BY SizeAssumption DEF Inv1, RailInv, RailTypes, QpRec
<1> QED
  BY <1>1, <1>2, <1>3

\* A post takes its reference.
LEMMA SendGetLive ==
  ASSUME Inv1, SendInv, NEW w \in WR, PostGetLive(w)
  PROVE  SendInv'
<1>0. /\ conf \in Conf /\ tx \in TxRec /\ OwnT(qp.inc, tx) /\ qp.inc \in Nat
      /\ \A v \in WR : tx.snd[v] \in SndRec
      /\ tx.sq \in Seq(WR) /\ Frs(tx) \subseteq FrameRec /\ \A f \in FrameRec : f[1] \in WR
  BY SendTypes
<1>1. /\ UNCHANGED <<conf, qp, wk>> /\ poster = IdlePoster /\ poster' = [pc |-> "slot", w |-> w]
      /\ tx.snd[w].qp = 0 /\ \A v \in 1..(w - 1) : tx.snd[v].qp # 0
      /\ conf.len[w] > 0 /\ Exists
  BY DEF PostGetLive, Exists
<1>2. qp.inc # 0
  BY <1>1, IncUsed
<1>3. SndTo(tx, w, [tx.snd[w] EXCEPT !.qp = qp.inc, !.ep = qp.ep], tx')
  BY PostGetLiveTx DEF Inv1
<1>4. /\ tx' \in TxRec /\ tx'.sq = tx.sq /\ tx'.pq = tx.pq /\ tx'.ring = tx.ring /\ tx'.late = tx.late
      /\ tx'.wrs = tx.wrs /\ tx'.out = tx.out
      /\ \A v \in WR : v # w => tx'.snd[v] = tx.snd[v]
  BY <1>3 DEF SndTo, SameQueues
<1>5. /\ tx'.snd[w].qp = qp.inc
      /\ \A v \in WR : /\ tx'.snd[v].win = tx.snd[v].win /\ tx'.snd[v].left = tx.snd[v].left
                       /\ tx'.snd[v].done = tx.snd[v].done /\ tx'.snd[v].counted = tx.snd[v].counted
                       /\ tx'.snd[v].armed = tx.snd[v].armed /\ tx'.snd[v].sent = tx.snd[v].sent
                       /\ tx'.snd[v].ok = tx.snd[v].ok /\ tx'.snd[v].ready = tx.snd[v].ready
                       /\ tx'.snd[v].expired = tx.snd[v].expired
  <2>1. tx'.snd[w] = [tx.snd[w] EXCEPT !.qp = qp.inc, !.ep = qp.ep] /\ tx.snd[w] \in SndRec
    BY <1>0, <1>3 DEF SndTo
  <2>2. /\ tx'.snd[w].qp = qp.inc
        /\ tx'.snd[w].win = tx.snd[w].win /\ tx'.snd[w].left = tx.snd[w].left
        /\ tx'.snd[w].done = tx.snd[w].done /\ tx'.snd[w].counted = tx.snd[w].counted
        /\ tx'.snd[w].armed = tx.snd[w].armed /\ tx'.snd[w].sent = tx.snd[w].sent
        /\ tx'.snd[w].ok = tx.snd[w].ok /\ tx'.snd[w].ready = tx.snd[w].ready
        /\ tx'.snd[w].expired = tx.snd[w].expired
    BY ONLY <2>1 DEF SndRec
  <2> QED
    BY ONLY <1>4, <2>2
<1>6. w \in Early /\ \A v \in Early : Clean(tx, v)
  BY <1>1 DEF Early, SendInv, AccInv, Acc
<1>7. Early' \subseteq Early /\ wk'.pc = wk.pc /\ Holding' = Holding
  <2>1. \A v \in WR : tx'.snd[v].qp = 0 => tx.snd[v].qp = 0
    BY <1>1, <1>4
  <2>2. poster'.w = w
    BY <1>1
  <2> QED
    BY <1>1, <1>4, <1>6, <2>1, <2>2 DEF Early, Holding
<1>8. \A v \in Early' : Clean(tx', v)
  <2> TAKE v \in Early'
  <2>1. Clean(tx, v) /\ v \in WR
    BY <1>6, <1>7 DEF Early
  <2> QED
    BY ONLY <1>4, <1>5, <2>1 DEF Clean
<1>9. OutOK(qp.inc, tx')
  <2>1. tx.snd[w].counted = FALSE
    BY <1>1 DEF SendInv, OrderInv
  <2>2. \A v \in WR : tx.snd[v].counted => tx'.snd[v].qp = tx.snd[v].qp
    BY <1>4, <2>1
  <2>3. CntSet(qp.inc, tx') = CntSet(qp.inc, tx)
    BY <1>5, <2>2 DEF CntSet
  <2> QED
    BY <1>4, <2>3 DEF OutOK, SendInv, AccInv, Acc
<1>10. \A v \in WR : tx.snd[v].win => tx'.snd[v].qp = tx.snd[v].qp
  <2>1. tx.snd[w].win = FALSE
    BY <1>6 DEF Clean
  <2> QED
    BY <1>4, <2>1
<1>11. LeftOK(Unposted, tx')
  BY <1>4, <1>5 DEF LeftOK, SendInv, AccInv, Acc
<1>12. OrderInv'
  <2>1. \A u, v \in WR : u < v /\ tx'.snd[v].qp # 0 => tx'.snd[u].qp # 0
    <3>1. \A v \in WR : v < w => tx.snd[v].qp # 0
      BY <1>1 DEF WR
    <3> QED
      BY <1>2, <1>4, <1>5, <3>1 DEF SendInv, OrderInv
  <2>2. \A v \in WR : tx'.snd[v].qp # 0 => v <= w
    <3>1. \A v \in WR : w < v => tx.snd[v].qp = 0
      BY <1>1 DEF SendInv, OrderInv
    <3> QED
      BY <1>4, <3>1 DEF WR
  <2>3. w \notin Ran(tx.sq)
    BY <1>0, <1>1, <1>2 DEF OwnT
  <2>4. wk.pc \notin {"idle", "top"} => wk.w # w
    BY <1>1, <1>2 DEF Inv1, OwnInv
  <2>5. \A v \in WR : IF tx'.snd[v].qp = 0 THEN tx'.snd[v].counted = FALSE ELSE conf.len[v] > 0
    BY <1>1, <1>2, <1>4, <1>5 DEF SendInv, OrderInv
  <2>6. tx'.snd[w].counted = FALSE
    BY <1>1, <1>5 DEF SendInv, OrderInv
  <2>7. Rising(tx'.sq) /\ (wk.pc \notin {"idle", "top"} => \A v \in Ran(tx'.sq) : wk.w < v)
    BY <1>4 DEF SendInv, OrderInv
  <2> QED
    BY <1>1, <1>4, <2>1, <2>2, <2>3, <2>4, <2>5, <2>6, <2>7 DEF OrderInv
<1>13. tx'.out <= conf.slots /\ (wk'.pc \in EarlyPc => wk'.posted = 0) /\ Frs(tx') \subseteq Frs(tx)
  BY <1>1, <1>4 DEF SendInv, WindowInv, Frs
<1> QED
  BY <1>1, <1>4, <1>5, <1>7, <1>8, <1>9, <1>10, <1>11, <1>12, <1>13, SendQuiet

\* The poster's step changes its own send only.
LEMMA SendSlotNo ==
  ASSUME Inv1, SendInv, PostSlot, poster' = IdlePoster,
         SndTo(tx, poster.w, [tx.snd[poster.w] EXCEPT !.done = TRUE], tx')
  PROVE  SendInv'
<1>0. /\ tx \in TxRec /\ \A v \in WR : tx.snd[v] \in SndRec
  BY SendTypes
<1>1. /\ UNCHANGED <<conf, qp, wk>> /\ poster.pc = "slot"
  BY DEF PostSlot
<1>2. poster.w \in WR
  BY <1>1 DEF Inv1, RailInv, UserInv
<1> PICK w \in WR : w = poster.w
  BY <1>2
<1>4. /\ tx' \in TxRec /\ tx'.sq = tx.sq /\ tx'.pq = tx.pq /\ tx'.ring = tx.ring /\ tx'.late = tx.late
      /\ tx'.wrs = tx.wrs /\ tx'.out = tx.out
      /\ \A v \in WR : v # w => tx'.snd[v] = tx.snd[v]
  BY DEF SndTo, SameQueues
<1>5. \A v \in WR : /\ tx'.snd[v].win = tx.snd[v].win /\ tx'.snd[v].left = tx.snd[v].left
                    /\ tx'.snd[v].qp = tx.snd[v].qp
                    /\ tx.snd[v].done => tx'.snd[v].done
                    /\ tx'.snd[v].counted = tx.snd[v].counted
                    /\ tx'.snd[v].armed = tx.snd[v].armed /\ tx'.snd[v].sent = tx.snd[v].sent
                    /\ tx'.snd[v].ok = tx.snd[v].ok /\ tx'.snd[v].ready = tx.snd[v].ready
                    /\ tx'.snd[v].expired = tx.snd[v].expired
  <2>1. tx'.snd[w] = [tx.snd[w] EXCEPT !.done = TRUE] /\ tx.snd[w] \in SndRec
    BY <1>0 DEF SndTo
  <2>2. /\ tx'.snd[w].win = tx.snd[w].win /\ tx'.snd[w].left = tx.snd[w].left
        /\ tx'.snd[w].qp = tx.snd[w].qp
        /\ tx.snd[w].done => tx'.snd[w].done
        /\ tx'.snd[w].counted = tx.snd[w].counted
        /\ tx'.snd[w].armed = tx.snd[w].armed /\ tx'.snd[w].sent = tx.snd[w].sent
        /\ tx'.snd[w].ok = tx.snd[w].ok /\ tx'.snd[w].ready = tx.snd[w].ready
        /\ tx'.snd[w].expired = tx.snd[w].expired
    BY ONLY <2>1 DEF SndRec
  <2> QED
    BY ONLY <1>4, <2>2
<1>7. Early' \subseteq Early /\ Holding' = Holding
  BY <1>1, <1>4, <1>5 DEF Early, Holding, IdlePoster
<1>8. \A v \in Early' : Clean(tx', v)
  <2> TAKE v \in Early'
  <2>1. Clean(tx, v) /\ v \in WR
    BY <1>7 DEF Early, SendInv, AccInv, Acc
  <2> QED
    BY ONLY <1>4, <1>5, <2>1 DEF Clean
<1>9. OutOK(qp.inc, tx')
  <2>3. CntSet(qp.inc, tx') = CntSet(qp.inc, tx)
    BY <1>5 DEF CntSet
  <2> QED
    BY <1>4, <2>3 DEF OutOK, SendInv, AccInv, Acc
<1>11. LeftOK(Unposted, tx')
  BY <1>4, <1>5 DEF LeftOK, SendInv, AccInv, Acc
<1>12. OrderInv'
  <2>1. poster'.pc = "idle"
    BY DEF IdlePoster
  <2>2. \A v \in WR : tx'.snd[v].qp = tx.snd[v].qp /\ tx'.snd[v].counted = tx.snd[v].counted
    BY <1>5
  <2> QED
    BY <1>1, <1>4, <2>1, <2>2 DEF SendInv, OrderInv
<1>13. tx'.out <= conf.slots /\ (wk'.pc \in EarlyPc => wk'.posted = 0) /\ Frs(tx') \subseteq Frs(tx)
  BY <1>1, <1>4 DEF SendInv, WindowInv, Frs
<1> QED
  BY <1>1, <1>4, <1>5, <1>7, <1>8, <1>9, <1>11, <1>12, <1>13, SendQuiet

\* A post takes a slot.
LEMMA SendSlotYes ==
  ASSUME Inv1, SendInv, PostSlot, poster' = [poster EXCEPT !.pc = "queue"], tx.out < conf.slots,
         tx' \in TxRec, SameLists(tx, tx'), SamePath(tx, tx'),
         tx'.wrs = tx.wrs, tx'.out = tx.out + 1,
         tx'.snd[poster.w] = [tx.snd[poster.w] EXCEPT !.counted = TRUE],
         \A v \in WR : v # poster.w => tx'.snd[v] = tx.snd[v]
  PROVE  SendInv'
<1>0. /\ conf \in Conf /\ tx \in TxRec /\ (\A v \in WR : tx.snd[v] \in SndRec) /\ poster \in PosterRec
  BY SendTypes
<1>1. /\ UNCHANGED <<conf, qp, wk>> /\ poster.pc = "slot"
  BY DEF PostSlot
<1>2. poster.w \in WR
  BY <1>1 DEF Inv1, RailInv, UserInv
<1> PICK w \in WR : w = poster.w
  BY <1>2
<1>3. poster'.pc = "queue" /\ poster'.w = w
  BY <1>0 DEF PosterRec
<1>4. /\ tx' \in TxRec /\ tx'.sq = tx.sq /\ tx'.pq = tx.pq /\ tx'.ring = tx.ring /\ tx'.late = tx.late
      /\ \A v \in WR : v # w => tx'.snd[v] = tx.snd[v]
  BY DEF SameLists, SamePath
<1>5. /\ tx'.snd[w].counted = TRUE
      /\ \A v \in WR : /\ tx'.snd[v].win = tx.snd[v].win /\ tx'.snd[v].left = tx.snd[v].left
                       /\ tx'.snd[v].qp = tx.snd[v].qp
                       /\ tx'.snd[v].done = tx.snd[v].done
                       /\ tx'.snd[v].armed = tx.snd[v].armed /\ tx'.snd[v].sent = tx.snd[v].sent
                       /\ tx'.snd[v].ok = tx.snd[v].ok /\ tx'.snd[v].ready = tx.snd[v].ready
                       /\ tx'.snd[v].expired = tx.snd[v].expired
  <2>1. tx'.snd[w] = [tx.snd[w] EXCEPT !.counted = TRUE] /\ tx.snd[w] \in SndRec
    BY <1>0
  <2>2. /\ tx'.snd[w].counted = TRUE
        /\ tx'.snd[w].win = tx.snd[w].win /\ tx'.snd[w].left = tx.snd[w].left
        /\ tx'.snd[w].qp = tx.snd[w].qp
        /\ tx'.snd[w].done = tx.snd[w].done
        /\ tx'.snd[w].armed = tx.snd[w].armed /\ tx'.snd[w].sent = tx.snd[w].sent
        /\ tx'.snd[w].ok = tx.snd[w].ok /\ tx'.snd[w].ready = tx.snd[w].ready
        /\ tx'.snd[w].expired = tx.snd[w].expired
    BY ONLY <2>1 DEF SndRec
  <2> QED
    BY ONLY <1>4, <2>2
<1>6. tx.snd[w].counted = FALSE /\ tx.snd[w].qp = qp.inc /\ tx.snd[w].qp # 0
  BY <1>1, IncUsed DEF SendInv, OrderInv, Inv1, OwnInv
<1>7. Early' \subseteq Early /\ Holding' = Holding
  BY <1>1, <1>3, <1>4, <1>5 DEF Early, Holding
<1>8. \A v \in Early' : Clean(tx', v)
  <2> TAKE v \in Early'
  <2>1. Clean(tx, v) /\ v \in WR
    BY <1>7 DEF Early, SendInv, AccInv, Acc
  <2> QED
    BY ONLY <1>4, <1>5, <2>1 DEF Clean
<1>9. OutOK(qp.inc, tx') /\ tx'.out <= conf.slots
  <2> PICK A, B : A = CntSet(qp.inc, tx') /\ B = CntSet(qp.inc, tx)
    OBVIOUS
  <2>1. \A v \in WR : v # w => tx'.snd[v].counted = tx.snd[v].counted
    BY <1>4
  <2>2. w \in A /\ w \notin B /\ B = A \ {w} /\ A \subseteq WR
    BY <1>5, <1>6, <2>1 DEF CntSet
  <2>3. Cardinality(A) \in Nat /\ Cardinality(B) = Cardinality(A) - 1
    BY <2>2, CardOut
  <2>4. tx.out = Cardinality(B)
    BY DEF OutOK, SendInv, AccInv, Acc
  <2>5. conf.slots \in Nat
    BY <1>0, ConfFacts
  <2>6. tx'.out = Cardinality(A) /\ tx'.out <= conf.slots
    BY ONLY <2>3, <2>4, <2>5, tx'.out = tx.out + 1, tx.out < conf.slots
  <2> QED
    BY <2>6 DEF OutOK
<1>11. LeftOK(Unposted, tx')
  BY <1>4, <1>5 DEF LeftOK, SendInv, AccInv, Acc
<1>12. OrderInv'
  <2>2. \A v \in WR : tx'.snd[v].qp = tx.snd[v].qp
    BY <1>5
  <2>3. \A v \in WR : IF tx'.snd[v].qp = 0 THEN tx'.snd[v].counted = FALSE ELSE conf.len[v] > 0
    BY <1>4, <1>6, <2>2 DEF SendInv, OrderInv
  <2> QED
    BY <1>1, <1>3, <1>4, <2>2, <2>3 DEF SendInv, OrderInv
<1>13. (wk'.pc \in EarlyPc => wk'.posted = 0) /\ Frs(tx') \subseteq Frs(tx)
  BY <1>1, <1>4 DEF SendInv, WindowInv, Frs
<1> QED
  BY <1>1, <1>4, <1>5, <1>7, <1>8, <1>9, <1>11, <1>12, <1>13, SendQuiet

\* The sends stay as they are, what is on the path stays.
LEMMA SendMoves ==
  ASSUME Inv1, SendInv, UNCHANGED <<conf, qp>>, tx' \in TxRec, tx'.snd = tx.snd, SameCounts(tx, tx'),
         tx'.late = tx.late, Frs(tx') \subseteq Frs(tx), LeftOK(Unposted, tx'),
         Early' \subseteq Early, Holding' = Holding,
         wk'.pc \in Posting => wk.pc \in Posting /\ wk'.w = wk.w /\ wk'.posted = wk.posted,
         wk'.pc \in EarlyPc => wk'.posted = 0, OrderInv'
  PROVE  SendInv'
<1>1. \A v \in Early' : Clean(tx', v)
  <2> TAKE v \in Early'
  <2>1. Clean(tx, v)
    BY DEF SendInv, AccInv, Acc
  <2> QED
    BY <2>1, CleanKept
<1>2. OutOK(qp.inc, tx')
  <2>1. CntSet(qp.inc, tx') = CntSet(qp.inc, tx)
    BY DEF CntSet
  <2> QED
    BY <2>1 DEF OutOK, SendInv, AccInv, Acc, SameCounts
<1>3. tx'.wrs = tx.wrs /\ tx'.out <= conf.slots
  BY DEF SameCounts, SendInv, WindowInv
<1> QED
  BY <1>1, <1>2, <1>3, SendQuiet

\* A post enters pending_sends.
LEMMA SendQueueSend ==
  ASSUME Inv1, SendInv, PostQueueSend
  PROVE  SendInv'
<1>1. /\ UNCHANGED <<conf, qp, wk>> /\ poster.pc = "queue" /\ poster' = [poster EXCEPT !.pc = "entry"]
      /\ poster \in PosterRec
  BY SendTypes DEF PostQueueSend
<1>2. poster'.pc = "entry" /\ poster'.w = poster.w
  BY <1>1 DEF PosterRec
<1>3. /\ tx' \in TxRec /\ tx'.snd = tx.snd /\ tx'.sq = tx.sq
      /\ tx'.late = tx.late /\ SamePath(tx, tx') /\ SameCounts(tx, tx')
  BY PostQueueSendTx DEF Inv1
<1>4. Frs(tx') \subseteq Frs(tx) /\ LeftOK(Unposted, tx')
  BY <1>3 DEF Frs, SamePath, LeftOK, SendInv, AccInv, Acc
<1>5. Early' \subseteq Early /\ Holding' = Holding
  BY <1>1, <1>2, <1>3 DEF Early, Holding
<1>6. OrderInv' /\ (wk.pc \in EarlyPc => wk.posted = 0)
  BY <1>1, <1>2, <1>3 DEF SendInv, OrderInv, WindowInv
<1> QED
  BY <1>1, <1>3, <1>4, <1>5, <1>6, SendMoves

\* A post enters the send queue.
LEMMA SendQueueEntry ==
  ASSUME Inv1, SendInv, PostQueueEntry
  PROVE  SendInv'
<1>0. /\ tx.sq \in Seq(WR) /\ OwnT(qp.inc, tx)
  BY SendTypes
<1>1. /\ UNCHANGED <<conf, qp, wk>> /\ poster.pc = "entry" /\ poster'.pc = "idle"
  BY DEF PostQueueEntry, IdlePoster
<1>2. poster.w \in WR
  BY <1>1 DEF Inv1, RailInv, UserInv
<1> PICK w \in WR : w = poster.w
  BY <1>2
<1>3. /\ tx' \in TxRec /\ tx'.snd = tx.snd /\ tx'.sq = Append(tx.sq, w)
      /\ tx'.late = tx.late /\ SamePath(tx, tx') /\ SameCounts(tx, tx')
  BY PostQueueEntryTx DEF Inv1
<1>4. Frs(tx') \subseteq Frs(tx) /\ LeftOK(Unposted, tx')
  BY <1>3 DEF Frs, SamePath, LeftOK, SendInv, AccInv, Acc
<1>5. Ran(tx'.sq) = Ran(tx.sq) \cup {w}
  BY <1>0, <1>3, RanAppend
<1>6. Early' \subseteq Early /\ Holding' = Holding
  BY <1>1, <1>3, <1>5 DEF Early, Holding
<1>7. qp.inc # 0
  BY <1>1, IncUsed
<1>8. Ran(tx.sq) \subseteq WR /\ \A v \in Ran(tx.sq) : v < w
  <2>1. Ran(tx.sq) \subseteq WR
    BY <1>0, RanFacts
  <2>2. \A v \in Ran(tx.sq) : v <= w /\ v # w
    BY <1>0, <1>1, <1>7, <2>1 DEF OwnT, SendInv, OrderInv
  <2> QED
    BY <2>1, <2>2 DEF WR
<1>9. wk.pc \notin {"idle", "top"} => wk.w < w
  <2>1. wk.pc \notin {"idle", "top"} => wk.w \in WR /\ tx.snd[wk.w].qp # 0
    BY <1>7 DEF Inv1, TxTypes, OwnInv
  <2>2. wk.pc \notin {"idle", "top"} => wk.w <= w /\ wk.w # w
    BY <1>1, <2>1 DEF SendInv, OrderInv
  <2> QED
    BY <2>1, <2>2 DEF WR
<1>10. Rising(tx'.sq)
  <2> PICK n \in Nat : n = Len(tx.sq)
    BY <1>0
  <2>1. /\ DOMAIN tx'.sq = 1..(n + 1) /\ DOMAIN tx.sq = 1..n /\ tx'.sq[n + 1] = w
        /\ \A k \in 1..n : tx'.sq[k] = tx.sq[k]
    BY <1>0, <1>3, AppendFacts
  <2>2. \A k \in 1..n : tx.sq[k] < w
    BY <1>8, <2>1 DEF Ran
  <2>3. \A j, k \in 1..n : j < k => tx.sq[j] < tx.sq[k]
    BY <2>1 DEF SendInv, OrderInv, Rising
  <2>4. \A j, k \in 1..(n + 1) : j < k => j \in 1..n /\ (k \in 1..n \/ k = n + 1)
    OBVIOUS
  <2> QED
    BY <2>1, <2>2, <2>3, <2>4 DEF Rising
<1>11. OrderInv'
  BY <1>1, <1>3, <1>5, <1>9, <1>10 DEF SendInv, OrderInv
<1>12. wk.pc \in EarlyPc => wk.posted = 0
  BY DEF SendInv, WindowInv
<1> QED
  BY <1>1, <1>3, <1>4, <1>6, <1>11, <1>12, SendMoves

\* The worker takes an entry or ends.
LEMMA SendPop ==
  ASSUME Inv1, SendInv, WorkerPop
  PROVE  SendInv'
<1>0. /\ tx \in TxRec /\ tx.sq \in Seq(WR)
  BY SendTypes
<1>1. /\ UNCHANGED <<conf, qp, poster>> /\ wk.pc \in {"idle", "top"}
  BY DEF WorkerPop
<1>2. CASE tx.sq = <<>> /\ wk' = IdleWorker /\ tx' = tx
  <2>1. wk'.pc = "idle"
    BY <1>2 DEF IdleWorker
  <2>2. Early' \subseteq Early /\ Holding' = Holding
    BY <1>1, <1>2, <2>1 DEF Early, Holding, EarlyPc
  <2>3. OrderInv'
    BY <1>1, <1>2, <2>1 DEF SendInv, OrderInv
  <2>4. LeftOK(Unposted, tx') /\ SameCounts(tx, tx')
    BY <1>2 DEF SendInv, AccInv, Acc, SameCounts
  <2> QED
    BY <1>0, <1>1, <1>2, <2>1, <2>2, <2>3, <2>4, SendMoves DEF Posting, EarlyPc
<1>3. CASE tx.sq # <<>> /\ wk' = [IdleWorker EXCEPT !.pc = "popped", !.w = Head(tx.sq)]
  <2> PICK w \in WR : w = Head(tx.sq)
    BY <1>0, <1>3, RanTail
  <2>1. wk'.pc = "popped" /\ wk'.w = w /\ wk'.posted = 0
    BY <1>3 DEF IdleWorker
  <2>2. /\ tx' \in TxRec /\ tx'.snd = tx.snd /\ tx'.sq = Tail(tx.sq) /\ Ran(tx.sq) = Ran(Tail(tx.sq)) \cup {w}
        /\ tx'.late = tx.late /\ SamePath(tx, tx') /\ SameCounts(tx, tx')
    BY <1>3, WorkerPopTx DEF Inv1
  <2>3. Early' \subseteq Early /\ Holding' = Holding
    BY <1>1, <2>1, <2>2 DEF Early, Holding
  <2>4. Frs(tx') \subseteq Frs(tx) /\ LeftOK(Unposted, tx')
    BY <2>2 DEF Frs, SamePath, LeftOK, SendInv, AccInv, Acc
  <2>5. Rising(tx'.sq) /\ \A v \in Ran(tx'.sq) : w < v
    <3> PICK n \in Nat : n = Len(tx.sq)
      BY <1>0
    <3>1. n > 0 /\ DOMAIN tx.sq = 1..n /\ DOMAIN tx'.sq = 1..(n - 1) /\ w = tx.sq[1]
      BY <1>0, <1>3, <2>2
    <3>2. \A k \in 1..(n - 1) : tx'.sq[k] = tx.sq[k + 1]
      BY <1>0, <1>3, <2>2
    <3>3. \A j, k \in 1..n : j < k => tx.sq[j] < tx.sq[k]
      BY <3>1 DEF SendInv, OrderInv, Rising
    <3>4. \A j, k \in 1..(n - 1) : j + 1 \in 1..n /\ k + 1 \in 1..n /\ 1 < k + 1 /\ 1 \in 1..n
                                   /\ (j < k => j + 1 < k + 1)
      BY <3>1
    <3> QED
      BY <3>1, <3>2, <3>3, <3>4 DEF Rising, Ran
  <2>6. OrderInv'
    BY <1>1, <2>1, <2>2, <2>5 DEF SendInv, OrderInv
  <2> QED
    BY <1>1, <2>1, <2>2, <2>3, <2>4, <2>6, SendMoves DEF Posting
<1> QED
  BY <1>2, <1>3 DEF WorkerPop

\* A frame goes to the ring.
LEMMA SendPath ==
  ASSUME Inv1, SendInv, NEW cl, PathSchedule(cl)
  PROVE  SendInv'
<1>0. /\ tx \in TxRec /\ tx.pq \in Seq(FrameRec) /\ tx.ring \in Seq(FrameRec) /\ Unposted \in [WR -> Nat]
  BY SendTypes
<1>1. UNCHANGED <<conf, qp, poster, wk>>
  BY DEF PathSchedule
<1>2. /\ tx.pq # <<>> /\ Head(tx.pq) \in FrameRec /\ Tail(tx.pq) \in Seq(FrameRec)
      /\ tx' \in TxRec /\ tx'.snd = tx.snd /\ SameLists(tx, tx') /\ SameCounts(tx, tx')
      /\ tx'.ring = Append(tx.ring, Head(tx.pq)) /\ tx'.pq = Tail(tx.pq)
  BY PathScheduleTx DEF Inv1
<1>3. /\ Ran(tx'.ring) = Ran(tx.ring) \cup {Head(tx.pq)}
      /\ Ran(tx.pq) = Ran(tx'.pq) \cup {Head(tx.pq)}
  BY <1>0, <1>2, RanAppend, RanTail
<1>4. Frs(tx') \subseteq Frs(tx)
  BY <1>3 DEF Frs
<1>5. LeftOK(Unposted, tx')
  <2> SUFFICES ASSUME NEW v \in WR
               PROVE  tx'.snd[v].left >= FramesOf(tx'.pq, v) + FramesOf(tx'.ring, v) + Unposted[v]
    BY DEF LeftOK
  <2>1. /\ FramesOf(tx'.ring, v) = FramesOf(tx.ring, v) + (IF Head(tx.pq)[1] = v THEN 1 ELSE 0)
        /\ FramesOf(tx.pq, v) = FramesOf(tx'.pq, v) + (IF Head(tx.pq)[1] = v THEN 1 ELSE 0)
    BY <1>0, <1>2, CountAppend, CountTail
  <2>2. FramesOf(tx.ring, v) \in Nat /\ FramesOf(tx'.pq, v) \in Nat /\ tx.snd[v].left \in Int
    BY <1>0, <1>2, CountFacts DEF TxRec, SndRec
  <2> PICK a \in Nat, b \in Nat, h \in Nat, l \in Int, e \in 0..1 :
        a = FramesOf(tx'.pq, v) /\ b = FramesOf(tx.ring, v) /\ h = Unposted[v] /\ l = tx.snd[v].left
        /\ e = (IF Head(tx.pq)[1] = v THEN 1 ELSE 0)
    BY <1>0, <2>2
  <2>3. l >= (a + e) + b + h
    BY <2>1 DEF SendInv, AccInv, Acc, LeftOK
  <2>4. l >= a + (b + e) + h
    BY ONLY <2>3, a \in Nat, b \in Nat, h \in Nat, l \in Int, e \in 0..1
  <2> QED
    BY <1>2, <2>1, <2>4
<1>6. tx'.sq = tx.sq /\ tx'.late = tx.late
  BY <1>2 DEF SameLists
<1>7. Early' \subseteq Early /\ Holding' = Holding
  BY <1>1, <1>2, <1>6 DEF Early, Holding
<1>8. OrderInv' /\ (wk.pc \in EarlyPc => wk.posted = 0)
  BY <1>1, <1>2, <1>6 DEF SendInv, OrderInv, WindowInv
<1> QED
  BY <1>1, <1>2, <1>4, <1>5, <1>6, <1>7, <1>8, SendMoves

\* The timeout scan.
LEMMA SendExpire ==
  ASSUME Inv1, SendInv, NEW w \in WR, TimerExpire(w)
  PROVE  SendInv'
<1>0. /\ tx \in TxRec /\ \A v \in WR : tx.snd[v] \in SndRec
  BY SendTypes
<1>1. UNCHANGED <<conf, qp, poster, wk>>
  BY DEF TimerExpire
<1>2. tx.snd[w].armed /\ \E n \in Nat : ExpireTo(tx, w, n, timer'.taken, tx')
  BY ExpireTx DEF Inv1
<1>3. /\ tx' \in TxRec /\ tx'.sq = tx.sq /\ tx'.late = tx.late /\ tx'.pq = tx.pq /\ tx'.ring = tx.ring
      /\ tx'.wrs = tx.wrs /\ tx'.out = tx.out
      /\ tx'.snd[w] = Expired(tx.snd[w]) /\ \A v \in WR : v # w => tx'.snd[v] = tx.snd[v]
  BY <1>2 DEF ExpireTo, SamePath, SameCounts
<1>4. \A v \in WR : /\ tx'.snd[v].win = tx.snd[v].win /\ tx'.snd[v].left = tx.snd[v].left
                    /\ tx'.snd[v].qp = tx.snd[v].qp /\ tx'.snd[v].done = tx.snd[v].done
                    /\ tx'.snd[v].counted = tx.snd[v].counted
  <2>1. tx'.snd[w] = [tx.snd[w] EXCEPT !.ready = TRUE, !.ok = FALSE, !.expired = TRUE] /\ tx.snd[w] \in SndRec
    BY <1>0, <1>3 DEF Expired
  <2>2. /\ tx'.snd[w].win = tx.snd[w].win /\ tx'.snd[w].left = tx.snd[w].left
        /\ tx'.snd[w].qp = tx.snd[w].qp /\ tx'.snd[w].done = tx.snd[w].done
        /\ tx'.snd[w].counted = tx.snd[w].counted
    BY ONLY <2>1 DEF SndRec
  <2> QED
    BY ONLY <1>3, <2>2
<1>5. Early' \subseteq Early /\ Holding' = Holding
  BY <1>1, <1>3, <1>4 DEF Early, Holding
<1>6. \A v \in Early : Clean(tx, v)
  BY DEF SendInv, AccInv, Acc
<1>7. w \notin Early
  BY <1>2, <1>6 DEF Clean
<1>8. Frs(tx') = Frs(tx)
  BY <1>3 DEF Frs
<1>9. \A v \in Early' : Clean(tx', v)
  <2> TAKE v \in Early'
  <2>1. Clean(tx, v) /\ tx'.snd[v] = tx.snd[v]
    BY <1>3, <1>5, <1>6, <1>7 DEF Early
  <2> QED
    BY <1>3, <1>8, <2>1, CleanKept
<1>10. OutOK(qp.inc, tx')
  <2>1. CntSet(qp.inc, tx') = CntSet(qp.inc, tx)
    BY <1>4 DEF CntSet
  <2> QED
    BY <1>3, <2>1 DEF OutOK, SendInv, AccInv, Acc
<1>11. LeftOK(Unposted, tx')
  BY <1>3, <1>4 DEF LeftOK, SendInv, AccInv, Acc
<1>12. OrderInv'
  <2>2. \A v \in WR : tx'.snd[v].qp = tx.snd[v].qp /\ tx'.snd[v].counted = tx.snd[v].counted
    BY <1>4
  <2>3. poster.pc = "slot" => poster.w \in WR
    BY DEF Inv1, RailInv, UserInv
  <2>4. poster.pc = "slot" => tx'.snd[poster.w].counted = FALSE
    BY <2>2, <2>3 DEF SendInv, OrderInv
  <2> QED
    BY <1>1, <1>3, <2>2, <2>4 DEF SendInv, OrderInv
<1>13. tx'.out <= conf.slots /\ (wk.pc \in EarlyPc => wk.posted = 0)
  BY <1>3 DEF SendInv, WindowInv
<1> QED
  BY <1>1, <1>3, <1>4, <1>5, <1>8, <1>9, <1>10, <1>11, <1>12, <1>13, SendQuiet

\* The window is taken or given back, the worker is not yet posting.
LEMMA SendHold ==
  ASSUME Inv1, SendInv, UNCHANGED <<conf, qp, poster>>, wk.pc \in EarlyPc, wk'.w = wk.w,
         wk'.posted = wk.posted, wk'.pc \in EarlyPc \cup {"fail"},
         NEW d \in Int, WindowTo(tx, d, tx'), TakesWr => Holding' = Holding + d, ~TakesWr => d = 0,
         Exclusive /\ Holding' = 1 => WinSet(qp.inc, tx) = {}
  PROVE  SendInv'
<1>0. tx \in TxRec /\ Holding \in Nat /\ TakesWr \in BOOLEAN
  BY SendTypes
<1>1. /\ tx' \in TxRec /\ tx'.snd = tx.snd /\ tx'.list = tx.list /\ tx'.sq = tx.sq /\ tx'.late = tx.late
      /\ tx'.pq = tx.pq /\ tx'.ring = tx.ring /\ tx'.out = tx.out /\ tx'.wrs = tx.wrs + d
  BY DEF WindowTo, SameLists, SamePath
<1>2. TakesWr' = TakesWr /\ Exclusive' = Exclusive
  BY DEF TakesWr, Exclusive
<1>3. Early' \subseteq Early /\ wk.pc \notin Posting /\ wk'.pc \notin Posting
  BY <1>1 DEF Early, EarlyPc, Posting
<1>4. Unposted' = Unposted
  BY <1>3 DEF Unposted
<1>5. WinSet(qp.inc, tx') = WinSet(qp.inc, tx) /\ CntSet(qp.inc, tx') = CntSet(qp.inc, tx) /\ Frs(tx') = Frs(tx)
  BY <1>1 DEF WinSet, CntSet, Frs
<1>6. OrderInv'
  BY <1>1 DEF SendInv, OrderInv, EarlyPc
<1>7. WrsOK(TakesWr, qp.inc, Holding', tx')
  <2> PICK c \in Nat : c = Cardinality(WinSet(qp.inc, tx))
    BY CardOut DEF WinSet
  <2> PICK h \in Nat, k \in Nat, x \in Int : h = Holding /\ k = Holding' /\ x = tx.wrs
    BY <1>0 DEF Holding, TxRec
  <2>1. x = IF TakesWr THEN c + h ELSE 0
    BY DEF SendInv, AccInv, Acc, WrsOK
  <2>2. x + d = IF TakesWr THEN c + k ELSE 0
    BY ONLY <1>0, <2>1, TakesWr => k = h + d, ~TakesWr => d = 0, c \in Nat, h \in Nat, k \in Nat, x \in Int, d \in Int
  <2> QED
    BY <1>1, <1>5, <2>2 DEF WrsOK
<1>8. AccInv'
  <2>1. \A v \in Early' : Clean(tx', v)
    <3> TAKE v \in Early'
    <3>1. Clean(tx, v)
      BY <1>3 DEF SendInv, AccInv, Acc
    <3> QED
      BY <1>1, <1>5, <3>1, CleanKept
  <2>2. LeftOK(Unposted, tx') /\ OutOK(qp.inc, tx')
    BY <1>1, <1>5 DEF SendInv, AccInv, Acc, LeftOK, OutOK
  <2>3. Acc(TakesWr, qp.inc, Holding', Early', Unposted, tx')
    BY <1>7, <2>1, <2>2 DEF Acc
  <2> QED
    BY <1>2, <1>4, <2>3 DEF AccInv
<1>9. WindowInv'
  BY <1>1, <1>2, <1>3, <1>5 DEF SendInv, WindowInv
<1> QED
  BY <1>6, <1>8, <1>9 DEF SendInv

\* The worker takes the window.
LEMMA SendWindow ==
  ASSUME Inv1, SendInv, WorkerWindow
  PROVE  SendInv'
<1>0. wk \in WkRec /\ conf \in Conf /\ tx \in TxRec /\ Holding \in Nat /\ TakesWr \in BOOLEAN
  BY SendTypes
<1>1. UNCHANGED <<conf, qp, poster>> /\ wk.pc = "window"
  BY DEF WorkerWindow
<1>2. CASE wk' = [wk EXCEPT !.pc = "fail"] /\ tx' = tx
  BY <1>0, <1>2, SendWorkerPc DEF WkRec
<1>3. CASE WindowOk(wk.w) /\ AcquireWindow(wk.w) /\ wk' = [wk EXCEPT !.pc = "reserve"]
  <2>1. wk'.pc = "reserve" /\ wk'.w = wk.w /\ wk'.posted = wk.posted
    BY <1>0, <1>3 DEF WkRec
  <2>2. wk.w \in WR
    BY <1>1 DEF Inv1, TxTypes
  <2> PICK d \in Int : d = IF TakesWr THEN 1 ELSE 0
    BY <1>0
  <2>3. WindowTo(tx, d, tx')
    BY <1>0, <1>3, <2>2, WindowTx
  <2>4. Holding = 0 /\ Holding' = 1
    BY <1>1, <2>1 DEF Holding
  <2>5. Exclusive => WinSet(qp.inc, tx) = {}
    <3> SUFFICES ASSUME Exclusive PROVE WinSet(qp.inc, tx) = {}
      OBVIOUS
    <3>1. tx.wrs = 0
      BY <1>3 DEF WindowOk
    <3>2. WinSet(qp.inc, tx) \subseteq WR /\ IsFiniteSet(WR)
      BY SizeAssumption, FS_Interval DEF WR, WinSet
    <3> PICK S : S = WinSet(qp.inc, tx)
      OBVIOUS
    <3>3. IsFiniteSet(S)
      BY <3>2, FS_Subset
    <3>4. tx.wrs = Cardinality(S) + 0
      BY <2>4 DEF SendInv, AccInv, Acc, WrsOK, TakesWr
    <3>5. Cardinality(S) = 0
      BY <3>1, <3>3, <3>4, FS_CardinalityType
    <3> QED
      BY <3>3, <3>5, FS_EmptySet
  <2>6. (TakesWr => Holding' = Holding + d) /\ (~TakesWr => d = 0)
    BY <2>4
  <2>7. wk.pc \in EarlyPc /\ wk'.pc \in EarlyPc \cup {"fail"}
    BY <1>1, <2>1 DEF EarlyPc
  <2> QED
    BY <1>1, <2>1, <2>3, <2>5, <2>6, <2>7, SendHold
<1> QED
  BY <1>2, <1>3 DEF WorkerWindow

\* The worker gives the window back.
LEMMA SendReserve ==
  ASSUME Inv1, SendInv, WorkerReserve(rail.closed)
  PROVE  SendInv'
<1>0. wk \in WkRec /\ conf \in Conf /\ tx \in TxRec /\ Holding \in Nat /\ TakesWr \in BOOLEAN
  BY SendTypes
<1>1. UNCHANGED <<conf, qp, poster>> /\ wk.pc = "reserve"
  BY DEF WorkerReserve
<1>2. CASE wk' = [wk EXCEPT !.pc = "set"] /\ tx' = tx
  BY <1>0, <1>2, SendWorkerPc DEF WkRec
<1>3. CASE tx' = ReleaseWindow(tx, wk.w) /\ (wk' = [wk EXCEPT !.pc = "fail"] \/ wk' = [wk EXCEPT !.pc = "path"])
  <2>1. wk'.pc \in {"fail", "path"} /\ wk'.w = wk.w /\ wk'.posted = wk.posted
    BY <1>0, <1>3 DEF WkRec
  <2>2. wk.w \in WR
    BY <1>1 DEF Inv1, TxTypes
  <2> PICK d \in Int : d = IF TakesWr THEN -1 ELSE 0
    BY <1>0
  <2>3. WindowTo(tx, d, tx')
    BY <1>0, <1>3, <2>2, WindowTx
  <2>4. Holding = 1 /\ Holding' = 0
    BY <1>1, <2>1 DEF Holding
  <2>6. (TakesWr => Holding' = Holding + d) /\ (~TakesWr => d = 0)
    BY <2>4
  <2>7. wk.pc \in EarlyPc /\ wk'.pc \in EarlyPc \cup {"fail"}
    BY <1>1, <2>1 DEF EarlyPc
  <2> QED
    BY <1>1, <2>1, <2>3, <2>4, <2>6, <2>7, SendHold
<1> QED
  BY <1>2, <1>3 DEF WorkerReserve

\* The worker arms the send.
LEMMA SendSet ==
  ASSUME Inv1, SendInv, WorkerSet
  PROVE  SendInv'
<1>0. /\ wk \in WkRec /\ conf \in Conf /\ tx \in TxRec /\ TakesWr \in BOOLEAN /\ OwnT(qp.inc, tx)
      /\ Unposted \in [WR -> Nat] /\ (\A v \in WR : tx.snd[v] \in SndRec /\ conf.len[v] \in Nat)
      /\ tx.pq \in Seq(FrameRec) /\ tx.ring \in Seq(FrameRec)
      /\ Frs(tx) \subseteq FrameRec /\ \A f \in FrameRec : f[1] \in WR
  BY SendTypes
<1>1. UNCHANGED <<conf, qp, poster>> /\ wk.pc = "set" /\ wk' = [wk EXCEPT !.pc = "post"]
  BY DEF WorkerSet
<1>2. wk'.pc = "post" /\ wk'.w = wk.w /\ wk'.posted = wk.posted
  BY <1>0, <1>1 DEF WkRec
<1>3. wk.w \in WR /\ tx.snd[wk.w].qp = qp.inc /\ qp.inc # 0
  BY <1>1, IncUsed DEF Inv1, TxTypes, OwnInv
<1> PICK w \in WR : w = wk.w
  BY <1>3
<1>b. (w \in Ran(tx.list)) \in BOOLEAN
  OBVIOUS
<1> PICK b \in BOOLEAN : b = (w \in Ran(tx.list))
  BY <1>b
<1>4. SndTo(tx, w, [tx.snd[w] EXCEPT !.win = TRUE, !.left = conf.len[w], !.armed = b], tx')
  BY WorkerSetTx DEF Inv1
<1>5. /\ tx' \in TxRec /\ tx'.list = tx.list /\ tx'.sq = tx.sq /\ tx'.pq = tx.pq /\ tx'.ring = tx.ring
      /\ tx'.wrs = tx.wrs /\ tx'.out = tx.out /\ tx'.late = tx.late
      /\ \A v \in WR : v # w => tx'.snd[v] = tx.snd[v]
  BY <1>4 DEF SndTo, SameQueues
<1>6. /\ tx'.snd[w].win = TRUE /\ tx'.snd[w].left = conf.len[w]
      /\ tx'.snd[w].qp = tx.snd[w].qp /\ tx'.snd[w].done = tx.snd[w].done
      /\ tx'.snd[w].counted = tx.snd[w].counted
  <2>1. tx'.snd[w] = [tx.snd[w] EXCEPT !.win = TRUE, !.left = conf.len[w], !.armed = b] /\ tx.snd[w] \in SndRec
    BY <1>0, <1>4 DEF SndTo
  <2> QED
    BY ONLY <2>1 DEF SndRec
<1>7. w \in Early /\ \A v \in Early : Clean(tx, v)
  BY <1>1 DEF Early, EarlyPc, SendInv, AccInv, Acc
<1>8. wk.posted = 0 /\ conf.len[w] > 0
  BY <1>1, <1>3 DEF SendInv, WindowInv, OrderInv, EarlyPc
<1>9. Early' \subseteq Early /\ w \notin Early' /\ Holding = 1 /\ Holding' = 0
  <2>1. w \notin Ran(tx.sq) /\ (poster.pc # "idle" => w # poster.w)
    BY <1>1 DEF SendInv, OrderInv, WR
  <2>2. \A v \in WR : tx'.snd[v].qp = tx.snd[v].qp
    BY <1>5, <1>6
  <2>3. wk'.pc \notin EarlyPc
    BY <1>2 DEF EarlyPc
  <2> QED
    BY <1>1, <1>2, <1>3, <1>5, <2>1, <2>2, <2>3 DEF Early, Holding
<1>10. Frs(tx') = Frs(tx)
  BY <1>5 DEF Frs
<1>11. \A v \in Early' : Clean(tx', v)
  <2> TAKE v \in Early'
  <2>1. Clean(tx, v) /\ tx'.snd[v] = tx.snd[v]
    BY <1>5, <1>7, <1>9 DEF Early
  <2> QED
    BY <1>5, <1>10, <2>1, CleanKept
<1>12. LeftOK(Unposted', tx')
  <2> SUFFICES ASSUME NEW v \in WR
               PROVE  tx'.snd[v].left >= FramesOf(tx'.pq, v) + FramesOf(tx'.ring, v) + Unposted'[v]
    BY DEF LeftOK
  <2>1. CASE v = w
    <3>1. \A f \in Frs(tx) : f[1] # w
      BY <1>7 DEF Clean, Frs
    <3>2. (\A k \in DOMAIN tx.pq : tx.pq[k][1] # w) /\ (\A k \in DOMAIN tx.ring : tx.ring[k][1] # w)
      BY <3>1 DEF Frs, Ran
    <3>3. FramesOf(tx.pq, w) = 0 /\ FramesOf(tx.ring, w) = 0
      BY <1>0, <3>2, CountFacts
    <3>4. Unposted'[w] = conf.len[w] - 0
      BY <1>1, <1>2, <1>8 DEF Unposted, Posting
    <3>5. conf.len[w] \in Nat
      BY <1>0
    <3>6. conf.len[w] >= 0 + 0 + (conf.len[w] - 0)
      BY ONLY <3>5
    <3> QED
      BY <1>5, <1>6, <2>1, <3>3, <3>4, <3>6
  <2>2. CASE v # w
    <3>1. Unposted'[v] = 0 /\ Unposted[v] = 0
      BY <1>1, <1>2, <2>2 DEF Unposted, Posting
    <3>2. tx'.snd[v] = tx.snd[v] /\ tx.snd[v].left >= FramesOf(tx.pq, v) + FramesOf(tx.ring, v) + Unposted[v]
      BY <1>5, <2>2 DEF SendInv, AccInv, Acc, LeftOK
    <3> QED
      BY <1>5, <3>1, <3>2
  <2> QED
    BY <2>1, <2>2
<1>13. WinSet(qp.inc, tx) = WinSet(qp.inc, tx') \ {w} /\ w \in WinSet(qp.inc, tx') /\ w \notin WinSet(qp.inc, tx)
  <2>1. tx.snd[w].win = FALSE
    BY <1>7 DEF Clean
  <2> QED
    BY <1>3, <1>5, <1>6, <2>1 DEF WinSet
<1>14. WrsOK(TakesWr, qp.inc, 0, tx')
  <2> PICK A, B : A = WinSet(qp.inc, tx') /\ B = WinSet(qp.inc, tx)
    OBVIOUS
  <2>1. A \subseteq WR /\ B = A \ {w} /\ w \in A
    BY <1>13 DEF WinSet
  <2>2. Cardinality(A) \in Nat /\ Cardinality(B) = Cardinality(A) - 1
    BY ONLY <2>1, CardOut
  <2>3. tx.wrs = IF TakesWr THEN Cardinality(B) + 1 ELSE 0
    BY <1>9 DEF SendInv, AccInv, Acc, WrsOK
  <2>4. tx.wrs = IF TakesWr THEN Cardinality(A) + 0 ELSE 0
    BY ONLY <1>0, <2>2, <2>3
  <2> QED
    BY <1>5, <2>4 DEF WrsOK
<1>15. OutOK(qp.inc, tx')
  <2>1. \A v \in WR : tx'.snd[v].counted = tx.snd[v].counted /\ tx'.snd[v].qp = tx.snd[v].qp
    BY <1>5, <1>6
  <2>2. CntSet(qp.inc, tx') = CntSet(qp.inc, tx)
    BY <2>1 DEF CntSet
  <2> QED
    BY <1>5, <2>2 DEF OutOK, SendInv, AccInv, Acc
<1>16. TakesWr' = TakesWr /\ Exclusive' = Exclusive
  BY <1>1 DEF TakesWr, Exclusive
<1>17. AccInv'
  <2>1. Acc(TakesWr, qp.inc, 0, Early', Unposted', tx')
    BY <1>11, <1>12, <1>14, <1>15 DEF Acc
  <2> QED
    BY <1>1, <1>9, <1>16, <2>1 DEF AccInv
<1>18. OrderInv'
  <2>1. \A v \in WR : tx'.snd[v].counted = tx.snd[v].counted /\ tx'.snd[v].qp = tx.snd[v].qp
    BY <1>5, <1>6
  <2>2. poster.pc = "slot" => tx'.snd[poster.w].counted = FALSE
    <3>1. poster.pc = "slot" => poster.w \in WR
      BY DEF Inv1, RailInv, UserInv
    <3> QED
      BY <2>1, <3>1 DEF SendInv, OrderInv
  <2> QED
    BY <1>1, <1>2, <1>5, <2>1, <2>2 DEF SendInv, OrderInv
<1>19. WindowInv'
  <2>1. \A f \in Frs(tx') : tx'.snd[f[1]].done \/ tx'.snd[f[1]].win
    <3>1. \A v \in WR : tx.snd[v].done \/ tx.snd[v].win => tx'.snd[v].done \/ tx'.snd[v].win
      BY <1>5, <1>6
    <3> QED
      BY <1>0, <1>10, <3>1 DEF SendInv, WindowInv
  <2>2. wk'.pc \in Posting => (tx'.snd[wk'.w].done \/ tx'.snd[wk'.w].win) /\ wk'.posted < conf.len[wk'.w]
    BY <1>2, <1>6, <1>8
  <2>3. \A v \in WR : tx'.snd[v].left <= conf.len[v]
    <3> TAKE v \in WR
    <3>1. CASE v = w
      BY <1>0, <1>6, <3>1
    <3>2. CASE v # w
      BY <1>5, <3>2 DEF SendInv, WindowInv
    <3> QED
      BY <3>1, <3>2
  <2>4. Exclusive => \A u, v \in WinSet(qp.inc, tx') : u = v
    <3>1. Exclusive => WinSet(qp.inc, tx) = {}
      BY <1>9 DEF SendInv, WindowInv
    <3> QED
      BY <1>13, <3>1
  <2>5. wk'.pc \notin EarlyPc
    BY <1>2 DEF EarlyPc
  <2>6. tx'.out <= conf.slots
    BY <1>5 DEF SendInv, WindowInv
  <2> QED
    BY <1>1, <1>9, <1>16, <2>1, <2>2, <2>3, <2>4, <2>5, <2>6 DEF WindowInv
<1> QED
  BY <1>17, <1>18, <1>19 DEF SendInv

\* The worker posts a frame.
LEMMA SendPost ==
  ASSUME Inv1, SendInv, WorkerPost(rail.closed), ~rail.closed
  PROVE  SendInv'
<1>0. /\ wk \in WkRec /\ conf \in Conf /\ tx \in TxRec /\ TakesWr \in BOOLEAN
      /\ Unposted \in [WR -> Nat] /\ (\A v \in WR : tx.snd[v] \in SndRec /\ conf.len[v] \in Nat)
      /\ tx.pq \in Seq(FrameRec) /\ tx.ring \in Seq(FrameRec) /\ Early \subseteq WR
  BY SendTypes
<1>1. UNCHANGED <<conf, qp, poster>> /\ wk.pc = "frame"
  BY DEF WorkerPost
<1>2. /\ wk.w \in WR /\ <<wk.w, qp.ep>> \in FrameRec
      /\ tx' \in TxRec /\ tx'.snd = tx.snd /\ SameLists(tx, tx') /\ tx'.ring = tx.ring
      /\ tx'.pq = Append(tx.pq, <<wk.w, qp.ep>>) /\ SameCounts(tx, tx')
  BY WorkerPostTx DEF Inv1
<1> PICK w \in WR : w = wk.w
  BY <1>2
<1> PICK n \in Nat, p \in Nat : n = conf.len[w] /\ p = wk.posted
  BY <1>0 DEF WkRec
<1>3. p < n
  BY <1>1 DEF SendInv, WindowInv, Posting
<1>4. /\ wk'.w = w /\ wk'.posted = p + 1
      /\ IF p + 1 < n THEN wk'.pc \in {"group", "post"} ELSE wk'.pc = "end"
  <2>1. wk' = [wk EXCEPT !.posted = @ + 1,
                         !.group = IF conf.group > 0 /\ wk.group + 1 >= conf.group THEN 0 ELSE wk.group + 1,
                         !.pc = IF ~(p + 1 < n) THEN "end"
                                ELSE IF conf.group > 0 /\ wk.group + 1 >= conf.group THEN "group" ELSE "post"]
    BY DEF WorkerPost
  <2> QED
    BY <1>0, <2>1 DEF WkRec
<1>5. tx'.sq = tx.sq /\ tx'.late = tx.late /\ tx'.wrs = tx.wrs /\ tx'.out = tx.out
  BY <1>2 DEF SameLists, SameCounts
<1>6. w \notin Early
  <2>1. w \notin Ran(tx.sq) /\ (poster.pc # "idle" => w # poster.w)
    BY <1>1 DEF SendInv, OrderInv, WR
  <2>2. tx.snd[w].qp # 0
    BY <1>1, IncUsed DEF Inv1, OwnInv
  <2> QED
    BY <1>1, <2>1, <2>2 DEF Early, EarlyPc
<1>7. Early' \subseteq Early /\ Holding' = 0 /\ Holding = 0 /\ wk'.pc \notin EarlyPc
  BY <1>1, <1>2, <1>4, <1>5 DEF Early, EarlyPc, Holding
<1>8. Frs(tx') = Frs(tx) \cup {<<w, qp.ep>>}
  <2> PICK f \in FrameRec : f = <<w, qp.ep>>
    BY <1>2
  <2>0. tx'.pq = Append(tx.pq, f) /\ tx.pq \in Seq(FrameRec)
    BY <1>0, <1>2
  <2>1. Ran(tx'.pq) = Ran(tx.pq) \cup {f}
    BY ONLY <2>0, f \in FrameRec, RanAppend
  <2> QED
    BY <1>2, <2>1 DEF Frs
<1>9. \A v \in Early' : Clean(tx', v)
  <2> TAKE v \in Early'
  <2>1. Clean(tx, v) /\ v # w
    BY <1>6, <1>7 DEF SendInv, AccInv, Acc
  <2>2. \A f \in Frs(tx') : f \in Frs(tx) \/ f[1] # v
    BY <1>8, <2>1
  <2> QED
    BY <1>2, <1>5, <2>1, <2>2, CleanKept
<1>10. LeftOK(Unposted', tx')
  <2> SUFFICES ASSUME NEW v \in WR
               PROVE  tx'.snd[v].left >= FramesOf(tx'.pq, v) + FramesOf(tx'.ring, v) + Unposted'[v]
    BY DEF LeftOK
  <2>1. FramesOf(tx.ring, v) \in Nat /\ FramesOf(tx.pq, v) \in Nat /\ tx.snd[v].left \in Int
    BY <1>0, CountFacts DEF SndRec
  <2>2. FramesOf(tx'.pq, v) = FramesOf(tx.pq, v) + (IF w = v THEN 1 ELSE 0)
    BY <1>0, <1>2, CountAppend
  <2> PICK a \in Nat, b \in Nat, l \in Int :
        a = FramesOf(tx.pq, v) /\ b = FramesOf(tx.ring, v) /\ l = tx.snd[v].left
    BY <2>1
  <2>3. CASE v = w
    <3>1. Unposted[w] = n - p
      BY <1>1 DEF Unposted, Posting
    <3>2. Unposted'[w] = IF p + 1 < n THEN n - (p + 1) ELSE 0
      BY <1>1, <1>4 DEF Unposted, Posting
    <3>3. l >= a + b + (n - p)
      BY <2>3, <3>1 DEF SendInv, AccInv, Acc, LeftOK
    <3>4. l >= (a + 1) + b + (IF p + 1 < n THEN n - (p + 1) ELSE 0)
      BY ONLY <1>3, <3>3, a \in Nat, b \in Nat, l \in Int, n \in Nat, p \in Nat
    <3> QED
      BY <1>2, <2>2, <2>3, <3>2, <3>4
  <2>4. CASE v # w
    <3>1. Unposted'[v] = 0 /\ Unposted[v] = 0
      BY <1>4, <2>4 DEF Unposted
    <3>2. l >= a + b + 0
      BY <3>1 DEF SendInv, AccInv, Acc, LeftOK
    <3>3. l >= (a + 0) + b + 0
      BY ONLY <3>2, a \in Nat, b \in Nat, l \in Int
    <3> QED
      BY <1>2, <2>2, <2>4, <3>1, <3>3
  <2> QED
    BY <2>3, <2>4
<1>11. WinSet(qp.inc, tx') = WinSet(qp.inc, tx) /\ CntSet(qp.inc, tx') = CntSet(qp.inc, tx)
  BY <1>2 DEF WinSet, CntSet
<1>12. TakesWr' = TakesWr /\ Exclusive' = Exclusive
  BY <1>1 DEF TakesWr, Exclusive
<1>13. AccInv'
  <2>1. WrsOK(TakesWr, qp.inc, 0, tx') /\ OutOK(qp.inc, tx')
    BY <1>5, <1>7, <1>11 DEF SendInv, AccInv, Acc, WrsOK, OutOK
  <2>2. Acc(TakesWr, qp.inc, 0, Early', Unposted', tx')
    BY <1>9, <1>10, <2>1 DEF Acc
  <2> QED
    BY <1>1, <1>7, <1>12, <2>2 DEF AccInv
<1>14. OrderInv'
  BY <1>1, <1>2, <1>4, <1>5 DEF SendInv, OrderInv
<1>15. WindowInv'
  <2>1. tx.snd[w].done \/ tx.snd[w].win
    BY <1>1 DEF SendInv, WindowInv, Posting
  <2>2. \A f \in Frs(tx') : tx'.snd[f[1]].done \/ tx'.snd[f[1]].win
    BY <1>2, <1>8, <2>1 DEF SendInv, WindowInv
  <2>3. wk'.pc \in Posting => (tx'.snd[wk'.w].done \/ tx'.snd[wk'.w].win) /\ wk'.posted < conf.len[wk'.w]
    BY <1>2, <1>4, <2>1 DEF Posting
  <2> QED
    BY <1>1, <1>2, <1>5, <1>7, <1>11, <1>12, <2>2, <2>3 DEF SendInv, WindowInv
<1> QED
  BY <1>13, <1>14, <1>15 DEF SendInv

\* A new queue pair has its counters at zero.
LEMMA SendCreate ==
  ASSUME Inv1, SendInv, CreateQp
  PROVE  SendInv'
<1>0. /\ conf \in Conf /\ tx \in TxRec /\ OwnT(qp.inc, tx) /\ qp.inc \in Nat /\ TakesWr \in BOOLEAN
      /\ \A v \in WR : tx.snd[v] \in SndRec
  BY SendTypes
<1>1. UNCHANGED <<conf, poster, wk>> /\ qp'.inc = qp.inc + 1 /\ ~Exists
  BY DEF CreateQp, NoQp
<1>2. wk.pc = "idle"
  BY <1>1 DEF Inv1, DestroyInv, Past1, Past
<1>3. /\ tx' \in TxRec /\ tx'.snd = tx.snd /\ tx'.sq = tx.sq /\ tx'.late = tx.late
      /\ tx'.pq = tx.pq /\ tx'.ring = tx.ring /\ tx'.wrs = 0 /\ tx'.out = 0
  BY CreateTx DEF Inv1, SameLists, SamePath
<1>4. Early' = Early /\ Holding' = 0 /\ Unposted' = Unposted /\ TakesWr' = TakesWr /\ Exclusive' = Exclusive
  BY <1>1, <1>2, <1>3 DEF Early, Holding, Unposted, TakesWr, Exclusive
<1>5. WinSet(qp'.inc, tx') = {} /\ CntSet(qp'.inc, tx') = {}
  <2>1. \A v \in WR : tx'.snd[v].qp # qp'.inc
    <3> TAKE v \in WR
    <3>1. tx.snd[v].qp <= qp.inc /\ tx.snd[v].qp \in Nat
      BY <1>0 DEF OwnT, SndRec
    <3> QED
      BY <1>0, <1>1, <1>3, <3>1
  <2> QED
    BY <2>1 DEF WinSet, CntSet
<1>6. Cardinality({}) = 0
  BY FS_EmptySet
<1>7. AccInv'
  <2>1. WrsOK(TakesWr, qp'.inc, 0, tx') /\ OutOK(qp'.inc, tx')
    BY <1>0, <1>3, <1>5, <1>6 DEF WrsOK, OutOK
  <2>2. \A v \in Early : Clean(tx', v)
    <3> TAKE v \in Early
    <3>1. Clean(tx, v)
      BY DEF SendInv, AccInv, Acc
    <3> QED
      BY <1>3, <3>1 DEF Clean
  <2>3. LeftOK(Unposted, tx')
    BY <1>3 DEF SendInv, AccInv, Acc, LeftOK
  <2> QED
    BY <1>4, <2>1, <2>2, <2>3 DEF AccInv, Acc
<1>8. OrderInv'
  BY <1>1, <1>3 DEF SendInv, OrderInv
<1>9. WindowInv'
  <2>1. conf.slots \in Nat
    BY <1>0, ConfFacts
  <2>2. Frs(tx') = Frs(tx)
    BY <1>3 DEF Frs
  <2> QED
    BY <1>1, <1>2, <1>3, <1>4, <1>5, <2>1, <2>2 DEF SendInv, WindowInv, Posting, EarlyPc
<1> QED
  BY <1>7, <1>8, <1>9 DEF SendInv

\* The worker, all of it.
LEMMA SendWorker ==
  ASSUME Inv1, SendInv, Worker
  PROVE  SendInv'
<1>1. CASE WorkerPop
  BY <1>1, SendPop
<1>2. CASE WorkerGet \/ WorkerPath(BoundTo) \/ WorkerCheck \/ WorkerGroup
  BY <1>2, SendWorkerPc
<1>3. CASE WorkerWindow
  BY <1>3, SendWindow
<1>4. CASE WorkerReserve(rail.closed)
  BY <1>4, SendReserve
<1>5. CASE WorkerSet
  BY <1>5, SendSet
<1>6. CASE WorkerPost(rail.closed) /\ rail.closed
  BY <1>6, SendWorkerPc
<1>7. CASE WorkerPost(rail.closed) /\ ~rail.closed
  BY <1>7, SendPost
<1>8. CASE WorkerEnd
  BY <1>8, SendEnd
<1> QED
  BY <1>1, <1>2, <1>3, <1>4, <1>5, <1>6, <1>7, <1>8 DEF Worker

\* Posting, all of it.
LEMMA SendPosting ==
  ASSUME Inv1, SendInv, Post \/ PostStep
  PROVE  SendInv'
<1>1. CASE Post
  <2>1. PICK w \in WR : PostGetLive(w)
    BY <1>1 DEF Post
  <2> QED
    BY <2>1, SendGetLive
<1>2. CASE PostSlot
  <2>1. poster.w \in WR
    BY <1>2 DEF PostSlot, Inv1, RailInv, UserInv
  <2>2. \/ poster' = IdlePoster /\ SndTo(tx, poster.w, [tx.snd[poster.w] EXCEPT !.done = TRUE], tx')
        \/ /\ poster' = [poster EXCEPT !.pc = "queue"] /\ tx.out < conf.slots
           /\ tx' \in TxRec /\ SameLists(tx, tx') /\ SamePath(tx, tx')
           /\ tx'.wrs = tx.wrs /\ tx'.frm = tx.frm /\ tx'.out = tx.out + 1
           /\ tx'.snd[poster.w] = [tx.snd[poster.w] EXCEPT !.counted = TRUE]
           /\ \A v \in WR : v # poster.w => tx'.snd[v] = tx.snd[v]
    BY <1>2, PostSlotTx DEF Inv1
  <2> QED
    BY <1>2, <2>2, SendSlotNo, SendSlotYes
<1>3. CASE PostQueueSend
  BY <1>3, SendQueueSend
<1>4. CASE PostQueueEntry
  BY <1>4, SendQueueEntry
<1> QED
  BY <1>1, <1>2, <1>3, <1>4 DEF PostStep

\* Steps that do not touch the send side.
sendVars == <<conf, tx, wk, poster>>
\* The rail, the quiesce and the receive side leave the sends alone.
LEMMA SendOther ==
  ASSUME Inv1, TimerError \/ Modify \/ ModifyStep \/ Destroy \/ Destroyed \/ Watchdog \/ RemoveRail
               \/ (\E t \in {"user", "wd", "rm"} : QClose(t)) \/ QMark \/ QCancelWorker \/ QDrained
               \/ QRefs(RxHolds) \/ QEnd \/ RxCheck \/ RxLookup \/ RxDeliver \/ PostRecv
  PROVE  UNCHANGED sendVars /\ qp'.inc = qp.inc
<1>0. qp \in QpRec
  BY DEF Inv1, RailInv, RailTypes
<1>1. CASE TimerError
  BY <1>0, <1>1 DEF TimerError, QpRec, sendVars
<1>2. CASE Modify
  BY <1>0, <1>2 DEF Modify, ModifyUp, ModifyDown, QpRec, sendVars, txVars
<1>3. CASE ModifyStep
  BY <1>0, <1>3 DEF ModifyStep, Bind, Commit, ModifyJoin, ModifyEnd, QpRec, sendVars, txVars
<1>4. CASE Destroy \/ Destroyed
  BY <1>0, <1>4 DEF Destroy, Destroyed, DestroyQp, DestroyFree, QpRec, NoQp, sendVars, txVars
<1>5. CASE Watchdog \/ RemoveRail
  BY <1>0, <1>5 DEF Watchdog, RemoveRail, WatchdogFail, RemoveStart, sendVars, txVars
<1>6. CASE (\E t \in {"user", "wd", "rm"} : QClose(t)) \/ QMark
  BY <1>0, <1>6 DEF QClose, QMark, QpRec, sendVars, txVars
<1>7. CASE QCancelWorker \/ QDrained \/ QRefs(RxHolds)
  BY <1>0, <1>7 DEF QCancelWorker, QDrained, QRefs, sendVars, txVars
<1>8. CASE QEnd
  BY <1>0, <1>8 DEF QEnd, QpRec, sendVars, txVars
<1>9. CASE RxCheck \/ RxLookup \/ RxDeliver \/ PostRecv
  BY <1>9 DEF RxCheck, RxLookup, RxDeliver, PostRecv, rxOthers, sendVars
<1> QED
  BY <1>1, <1>2, <1>3, <1>4, <1>5, <1>6, <1>7, <1>8, <1>9

\* Every step keeps the accounts of the send side.
LEMMA SendStep ==
  ASSUME Inv1, SendInv, [Next]_vars
  PROVE  SendInv'
<1>1. CASE Post \/ PostStep
  BY <1>1, SendPosting
<1>2. CASE Worker
  BY <1>2, SendWorker
<1>3. CASE Path
  BY <1>3, SendPath DEF Path
<1>4. CASE Nhi
  BY <1>4, SendNhi DEF Nhi
<1>5. CASE Late
  BY <1>5, SendLate DEF Late
<1>6. CASE Expire
  BY <1>6, SendExpire DEF Expire
<1>7. CASE TimerFlush \/ ModifyFlush \/ QFlush \/ QStop
  <2>1. UNCHANGED <<conf, poster, wk, qp>> /\ tx' = Flush(tx)
    BY <1>7 DEF TimerFlush, ModifyFlush, QFlush, QStop, FlushError, flushOthers
  <2> QED
    BY <2>1, SendFlush
<1>8. CASE Create
  BY <1>8, SendCreate DEF Create
<1>9. CASE QCancel \/ Barrier
  BY <1>9, SendCancel DEF Barrier
<1>10. CASE TimerComplete
  BY <1>10, SendTimerComplete
<1>11. CASE \/ TimerError \/ Modify \/ ModifyStep \/ Destroy \/ Destroyed \/ Watchdog \/ RemoveRail
            \/ (\E t \in {"user", "wd", "rm"} : QClose(t)) \/ QMark \/ QCancelWorker \/ QDrained
            \/ QRefs(RxHolds) \/ QEnd \/ RxCheck \/ RxLookup \/ RxDeliver \/ PostRecv
  <2>1. UNCHANGED sendVars /\ qp'.inc = qp.inc
    BY <1>11, SendOther
  <2> QED
    BY <2>1, SendKeep DEF sendVars
<1>12. CASE UNCHANGED vars
  BY <1>12, SendKeep DEF vars
<1> QED
  BY <1>1, <1>2, <1>3, <1>4, <1>5, <1>6, <1>7, <1>8, <1>9, <1>10, <1>11, <1>12
     DEF Next, TimerStep, Quiesce

\* Initially SendInv holds.
LEMMA SendInit == Init => SendInv
<1> SUFFICES ASSUME Init PROVE SendInv
  OBVIOUS
<1>0. conf \in Conf /\ tx = TxInit /\ wk = IdleWorker /\ poster = IdlePoster /\ qp = NoQp
  BY DEF Init
<1>1. /\ \A w \in WR : tx.snd[w] = NoSend
      /\ tx.sq = <<>> /\ tx.pq = <<>> /\ tx.ring = <<>> /\ tx.late = {} /\ tx.wrs = 0 /\ tx.out = 0
      /\ wk.pc = "idle" /\ poster.pc = "idle" /\ qp.inc = 0
  BY <1>0 DEF TxInit, IdleWorker, IdlePoster, NoQp
<1>2. Ran(<<>>) = {} /\ Rising(<<>>)
  BY DEF Ran, Rising
<1>3. /\ NoSend.qp = 0 /\ NoSend.counted = FALSE /\ NoSend.win = FALSE /\ NoSend.left = 0
      /\ NoSend.armed = FALSE /\ NoSend.sent = 0 /\ NoSend.ok = FALSE /\ NoSend.ready = FALSE
      /\ NoSend.expired = FALSE
  BY DEF NoSend
<1>4. OrderInv
  BY <1>1, <1>2, <1>3 DEF OrderInv
<1>5. Frs(tx) = {} /\ WinSet(0, tx) = {} /\ CntSet(0, tx) = {} /\ Holding = 0 /\ \A w \in WR : Unposted[w] = 0
  BY <1>1, <1>2, <1>3 DEF Frs, WinSet, CntSet, Holding, Unposted, Posting
<1>6. AccInv
  <2>1. \A w \in WR : Clean(tx, w)
    BY <1>1, <1>2, <1>3 DEF Clean
  <2>2. LeftOK(Unposted, tx)
    <3>1. <<>> \in Seq(FrameRec) /\ DOMAIN <<>> = {}
      OBVIOUS
    <3>2. \A w \in WR : FramesOf(<<>>, w) = 0
      BY <3>1, CountFacts
    <3>3. 0 >= 0 + 0 + 0
      OBVIOUS
    <3> QED
      BY <1>1, <1>3, <1>5, <3>2, <3>3 DEF LeftOK
  <2>3. Cardinality({}) = 0
    BY FS_EmptySet
  <2>4. WrsOK(TakesWr, 0, 0, tx) /\ OutOK(0, tx)
    <3>1. 0 = Cardinality({}) + 0
      BY <2>3
    <3> QED
      BY <1>1, <1>5, <2>3, <3>1 DEF WrsOK, OutOK
  <2>5. Early \subseteq WR
    BY DEF Early
  <2> QED
    BY <1>1, <1>5, <2>1, <2>2, <2>4, <2>5 DEF AccInv, Acc
<1>7. WindowInv
  <2>1. conf.slots \in Nat /\ \A w \in WR : conf.len[w] \in Nat
    BY <1>0, ConfFacts
  <2> QED
    BY <1>1, <1>3, <1>5, <2>1 DEF WindowInv, Posting, EarlyPc
<1> QED
  BY <1>4, <1>6, <1>7 DEF SendInv

-----------------------------------------------------------------------------
(* What is on the path is of the binding's epoch.                          *)

\* The stages at which the worker has the rail's path in hand.
Hold == {"window", "reserve", "set", "post", "frame", "group", "end"}

\* What a quiesce that owns the queue pair has emptied.
EmptiedInv ==
  /\ Owned /\ qz.pc \in {"drain", "refs", "end"} => tx.pq = <<>>
  /\ Owned /\ qz.pc \in {"refs", "end"} => tx.ring = <<>>
  /\ Owned /\ qz.pc \in {"timer", "cancel", "drain", "refs", "end"} => wk.pc \notin Hold
PathInv ==
  /\ \A f \in Frs(tx) : qp.bound /\ f[2] = qp.ep
  /\ wk.pc \in Hold => qp.bound
  /\ EmptiedInv

\* Empty queues hold no frame.
LEMMA FrsEmpty ==
  ASSUME Inv1
  PROVE  tx.pq = <<>> /\ tx.ring = <<>> <=> Frs(tx) = {}
<1>1. tx.pq \in Seq(FrameRec) /\ tx.ring \in Seq(FrameRec)
  BY DEF Inv1, TxTypes, TxRec
<1>2. (tx.pq = <<>> <=> Ran(tx.pq) = {}) /\ (tx.ring = <<>> <=> Ran(tx.ring) = {})
  BY <1>1, RanEmpty
<1> QED
  BY <1>2 DEF Frs

\* The quiesce stands still.
LEMMA PathSame ==
  ASSUME PathInv, UNCHANGED <<qz, qp>>, Frs(tx') \subseteq Frs(tx),
         tx.pq = <<>> => tx'.pq = <<>>, tx.ring = <<>> => tx'.ring = <<>>,
         wk'.pc \in Hold => wk.pc \in Hold
  PROVE  PathInv'
  BY DEF PathInv, EmptiedInv, Owned

\* The quiesce moves on.
LEMMA PathOn ==
  ASSUME PathInv, qp'.bound = qp.bound, qp'.ep = qp.ep, Frs(tx') \subseteq Frs(tx),
         wk'.pc \in Hold => wk.pc \in Hold, EmptiedInv'
  PROVE  PathInv'
  BY DEF PathInv

\* A completion loop takes frames off the queue and puts none there.
LEMMA PathLess ==
  ASSUME Inv1, NEW T \in TxRec, Less(T, tx'),
         T.pq = tx.pq \/ T.pq = <<>>, T.ring = tx.ring \/ T.ring = <<>>
  PROVE  /\ Frs(tx') \subseteq Frs(tx) /\ tx'.ring = T.ring
         /\ tx.pq = <<>> \/ T.pq = <<>> => tx'.pq = <<>> 
         /\ tx.ring = <<>> \/ T.ring = <<>> => tx'.ring = <<>>
<1>1. Ran(tx'.pq) \subseteq Ran(T.pq) /\ tx'.ring = T.ring /\ (T.pq = <<>> => tx'.pq = <<>>)
  BY EmptyLess DEF Less
<1>2. Ran(<<>>) = {}
  BY DEF Ran
<1>3. Ran(T.pq) \subseteq Ran(tx.pq) /\ Ran(T.ring) \subseteq Ran(tx.ring)
  BY <1>2
<1> QED
  BY <1>1, <1>3 DEF Frs

\* A flush only takes frames off.
LEMMA PathFlush ==
  ASSUME Inv1, tx' = Flush(tx)
  PROVE  /\ Frs(tx') \subseteq Frs(tx) 
         /\ tx.pq = <<>> => tx'.pq = <<>> 
         /\ tx.ring = <<>> => tx'.ring = <<>>
<1>1. tx \in TxRec /\ <<>> \in Seq(WR)
  BY DEF Inv1, TxTypes
<1> PICK T : T = [tx EXCEPT !.sq = <<>>]
  OBVIOUS
<1>2. T \in TxRec /\ T.pq = tx.pq /\ T.ring = tx.ring
  BY ONLY <1>1, T = [tx EXCEPT !.sq = <<>>] DEF TxRec
<1>3. Less(T, tx')
  BY LoopTx DEF Inv1
<1> QED
  BY <1>2, <1>3, PathLess

\* The worker.
LEMMA PathWorker ==
  ASSUME Inv1, PathInv, Worker
  PROVE  PathInv'
<1>0. wk \in WkRec /\ tx \in TxRec /\ qp \in QpRec /\ conf \in Conf /\ rail \in RailRec
  BY DEF Inv1, TxTypes, RailInv, RailTypes
<1>1. UNCHANGED railVars /\ UNCHANGED <<conf, qp, poster>>
  BY DEF Worker, WorkerPop, WorkerGet, WorkerPath, WorkerWindow, WorkerReserve, WorkerSet,
         WorkerCheck, WorkerPost, WorkerGroup, WorkerEnd
<1>2. CASE UNCHANGED tx /\ (wk'.pc \in Hold => wk.pc \in Hold)
  BY <1>1, <1>2, PathSame DEF railVars
<1>3. CASE WorkerPop
  <2>1. wk'.pc \notin Hold
    <3>1. wk' = IdleWorker \/ wk' = [IdleWorker EXCEPT !.pc = "popped", !.w = Head(tx.sq)]
      BY <1>3 DEF WorkerPop
    <3>2. wk'.pc = "idle" \/ wk'.pc = "popped"
      <4>1. CASE wk' = IdleWorker
        BY ONLY <4>1 DEF IdleWorker
      <4>2. CASE wk' = [IdleWorker EXCEPT !.pc = "popped", !.w = Head(tx.sq)]
        BY ONLY <4>2 DEF IdleWorker
      <4> QED
        BY <3>1, <4>1, <4>2
    <3> QED
      BY <3>2 DEF Hold
  <2>2. SamePath(tx, tx')
    BY <1>3, WorkerPopTx DEF Inv1, SamePath
  <2> QED
    BY <1>1, <2>1, <2>2, PathSame DEF railVars, SamePath, Frs
<1>4. CASE WorkerGet \/ WorkerCheck \/ WorkerGroup
  <2>1. UNCHANGED tx /\ (wk'.pc \in Hold => wk.pc \in Hold)
    BY <1>0, <1>4 DEF WorkerGet, WorkerCheck, WorkerGroup, Hold, WkRec
  <2> QED
    BY <1>2, <2>1
<1>5. CASE WorkerPath(BoundTo)
  <2>1. CASE wk'.pc = "fail"
    <3>1. UNCHANGED tx /\ wk'.pc \notin Hold
      BY <1>5, <2>1 DEF WorkerPath, Hold
    <3> QED
      BY <1>2, <3>1
  <2>2. CASE wk'.pc # "fail"
    <3>1. UNCHANGED tx /\ ~Stopping
      BY <1>0, <1>5, <2>2 DEF WorkerPath, WkRec
    <3>2. qp.bound /\ (Owned => qz.pc = "mark")
      BY <3>1 DEF Stopping, Inv1, RailInv, UserInv
    <3> QED
      BY <1>1, <3>1, <3>2 DEF PathInv, EmptiedInv, Owned, railVars
  <2> QED
    BY <2>1, <2>2
<1>6. CASE WorkerWindow \/ WorkerReserve(rail.closed)
  <2>1. wk.pc \in Hold
    BY <1>6 DEF WorkerWindow, WorkerReserve, Hold
  <2>2. wk.w \in WR
    BY <1>6 DEF WorkerWindow, WorkerReserve, Inv1, TxTypes
  <2>3. SamePath(tx, tx')
    BY <1>0, <1>6, <2>2, WindowTx DEF WorkerWindow, WorkerReserve, WindowTo, SamePath
  <2> QED
    BY <1>1, <2>1, <2>3, PathSame DEF railVars, SamePath, Frs
<1>7. CASE WorkerSet
  <2>1. wk.pc \in Hold
    BY <1>7 DEF WorkerSet, Hold
  <2>2. SamePath(tx, tx')
    BY <1>7, WorkerSetTx DEF Inv1, SndTo, SameQueues, SamePath
  <2> QED
    BY <1>1, <2>1, <2>2, PathSame DEF railVars, SamePath, Frs
<1>8. CASE WorkerPost(rail.closed)
  <2>1. wk.pc \in Hold /\ wk.pc = "frame"
    BY <1>8 DEF WorkerPost, Hold
  <2>2. CASE rail.closed
    <3>1. UNCHANGED tx
      BY <1>8, <2>2 DEF WorkerPost
    <3> QED
      BY <1>2, <2>1, <3>1
  <2>3. CASE ~rail.closed
    <3>1. /\ <<wk.w, qp.ep>> \in FrameRec /\ tx'.pq = Append(tx.pq, <<wk.w, qp.ep>>) /\ tx'.ring = tx.ring
      BY <1>8, <2>3, WorkerPostTx DEF Inv1
    <3> PICK f \in FrameRec : f = <<wk.w, qp.ep>>
      BY <3>1
    <3>2. tx'.pq = Append(tx.pq, f) /\ tx.pq \in Seq(FrameRec)
      BY <1>0, <3>1 DEF TxRec
    <3>3. Ran(tx'.pq) = Ran(tx.pq) \cup {f}
      BY ONLY <3>2, f \in FrameRec, RanAppend
    <3>4. \A g \in Frs(tx') : g \in Frs(tx) \/ g = f
      BY <3>1, <3>3 DEF Frs
    <3>5. qp.bound /\ f[2] = qp.ep
      BY <2>1 DEF PathInv
    <3>6. ~Owned
      BY <2>3 DEF Inv1, RailInv, QuiesceInv
    <3>7. ~Owned'
      BY <1>1, <3>6 DEF Owned, railVars
    <3>8. EmptiedInv'
      BY <3>7 DEF EmptiedInv
    <3>9. \A g \in Frs(tx') : qp.bound /\ g[2] = qp.ep
      BY <3>4, <3>5 DEF PathInv
    <3> QED
      BY <1>1, <2>1, <3>5, <3>8, <3>9 DEF PathInv
  <2> QED
    BY <2>2, <2>3
<1>9. CASE WorkerEnd
  <2>1. wk'.pc \notin Hold
    BY <1>9 DEF WorkerEnd, IdleWorker, Hold
  <2>2. Less(tx, tx')
    BY <1>9, LoopTx DEF Inv1
  <2>3. Frs(tx') \subseteq Frs(tx) /\ (tx.pq = <<>> => tx'.pq = <<>>) /\ (tx.ring = <<>> => tx'.ring = <<>>)
    BY <1>0, <2>2, PathLess
  <2> QED
    BY <1>1, <2>1, <2>3, PathSame DEF railVars
<1> QED
  BY <1>3, <1>4, <1>5, <1>6, <1>7, <1>8, <1>9 DEF Worker

\* Posting a send.
LEMMA PathPost ==
  ASSUME Inv1, PathInv, Post \/ PostStep
  PROVE  PathInv'
<1>1. UNCHANGED <<wk, qp, qz>>
  BY DEF Post, PostStep, PostGetLive, PostSlot, PostQueueSend, PostQueueEntry, railVars
<1>2. SamePath(tx, tx')
  <2>1. CASE Post
    <3>1. PICK w \in WR : PostGetLive(w)
      BY <2>1 DEF Post
    <3> QED
      BY <3>1, PostGetLiveTx DEF Inv1, SndTo, SameQueues, SamePath
  <2>2. CASE PostSlot
    BY <2>2, PostSlotTx DEF Inv1, SndTo, SameQueues, SamePath
  <2>3. CASE PostQueueSend
    BY <2>3, PostQueueSendTx DEF Inv1
  <2>4. CASE PostQueueEntry
    BY <2>4, PostQueueEntryTx DEF Inv1
  <2> QED
    BY <2>1, <2>2, <2>3, <2>4 DEF PostStep
<1> QED
  BY <1>1, <1>2, PathSame DEF SamePath, Frs

\* The path, the NHI, delayed completions and the timeout scan.
LEMMA PathMoves ==
  ASSUME Inv1, PathInv, Path \/ Nhi \/ Late \/ Expire
  PROVE  PathInv'
<1>0. tx \in TxRec /\ conf \in Conf /\ tx.pq \in Seq(FrameRec) /\ tx.ring \in Seq(FrameRec)
  BY DEF Inv1, TxTypes, TxRec, RailInv, RailTypes
<1>1. UNCHANGED <<wk, qp, qz>>
  BY DEF Path, Nhi, Late, Expire, PathSchedule, NhiSend, SendCompleteWork, TimerExpire, railVars
<1>2. CASE Path
  <2>1. PathSchedule(rail.closed) /\ ~rail.closed
    BY <1>2 DEF Path, PathSchedule
  <2>2. /\ tx.pq # <<>> /\ Head(tx.pq) \in FrameRec
        /\ tx'.ring = Append(tx.ring, Head(tx.pq)) /\ tx'.pq = Tail(tx.pq)
    BY <2>1, PathScheduleTx DEF Inv1
  <2>3. Ran(tx'.ring) = Ran(tx.ring) \cup {Head(tx.pq)} /\ Ran(tx.pq) = Ran(tx'.pq) \cup {Head(tx.pq)}
    BY <1>0, <2>2, RanAppend, RanTail
  <2>4. Frs(tx') \subseteq Frs(tx)
    BY <2>3 DEF Frs
  <2>5. ~Owned'
    BY <1>1, <2>1 DEF Inv1, RailInv, QuiesceInv, Owned
  <2> QED
    BY <1>1, <2>4, <2>5, PathOn DEF EmptiedInv
<1>3. CASE Nhi
  <2> PICK w : w = Head(tx.ring)[1]
    OBVIOUS
  <2>1. /\ tx.ring # <<>> /\ w \in WR /\ \E U : SentTo(tx, w, U) /\ tx' = TxDone(U, w, TRUE)
    BY <1>3, NhiSendTx DEF Nhi, Inv1
  <2> PICK U : SentTo(tx, w, U) /\ tx' = TxDone(U, w, TRUE)
    BY <2>1
  <2>2. U \in TxRec /\ U.pq = tx.pq /\ U.ring = Tail(tx.ring)
    BY DEF SentTo
  <2>3. Less(U, tx')
    BY <1>0, <2>1, <2>2, TxDoneLess
  <2>4. Ran(tx.ring) = Ran(U.ring) \cup {Head(tx.ring)}
    BY <1>0, <2>1, <2>2, RanTail
  <2>5. Ran(tx'.pq) \subseteq Ran(tx.pq) /\ tx'.ring = U.ring /\ (tx.pq = <<>> => tx'.pq = <<>>)
    BY <2>2, <2>3, EmptyLess DEF Less
  <2>6. Frs(tx') \subseteq Frs(tx)
    BY <2>4, <2>5 DEF Frs
  <2> QED
    BY <1>1, <2>1, <2>5, <2>6, PathSame
<1>4. CASE Late
  <2>1. PICK w \in tx.late : SendCompleteWork(w)
    BY <1>4 DEF Late
  <2>2. w \in WR /\ LateTo(SendComplete(tx, w, TRUE), w, tx')
    BY <2>1, LateTx DEF Inv1
  <2> PICK U : U = SendComplete(tx, w, TRUE)
    OBVIOUS
  <2>3. Less(tx, U)
    BY <1>0, <2>2, DoneLess
  <2>4. tx'.pq = U.pq /\ tx'.ring = U.ring
    BY <2>2 DEF LateTo, SamePath
  <2>5. Ran(tx'.pq) \subseteq Ran(tx.pq) /\ tx'.ring = tx.ring /\ (tx.pq = <<>> => tx'.pq = <<>>)
    BY <1>0, <2>3, <2>4, EmptyLess DEF Less
  <2>6. Frs(tx') \subseteq Frs(tx)
    BY <2>5 DEF Frs
  <2> QED
    BY <1>1, <2>5, <2>6, PathSame
<1>5. CASE Expire
  <2>1. PICK w \in WR : TimerExpire(w)
    BY <1>5 DEF Expire
  <2>2. tx'.pq = tx.pq /\ tx'.ring = tx.ring
    BY <2>1, ExpireTx DEF Inv1, ExpireTo, SamePath
  <2> QED
    BY <1>1, <2>2, PathSame DEF Frs
<1> QED
  BY <1>2, <1>3, <1>4, <1>5

\* The timeout work and the flushes.
LEMMA PathTimer ==
  ASSUME Inv1, PathInv, TimerStep \/ TimerFlush \/ ModifyFlush \/ QFlush \/ QStop
  PROVE  PathInv'
<1>0. tx \in TxRec /\ conf \in Conf /\ qp \in QpRec /\ qz \in QzRec
  BY DEF Inv1, TxTypes, RailInv, RailTypes
<1>1. CASE TimerError /\ UNCHANGED railVars
  <2>1. UNCHANGED <<tx, wk, qz>> /\ qp'.bound = qp.bound /\ qp'.ep = qp.ep
    BY <1>0, <1>1 DEF TimerError, QpRec, railVars
  <2>2. EmptiedInv'
    BY <2>1 DEF PathInv, EmptiedInv, Owned
  <2> QED
    BY <2>1, <2>2, PathOn
<1>2. CASE TimerComplete /\ UNCHANGED railVars
  <2>1. UNCHANGED <<wk, qz, qp>>
    BY <1>2 DEF TimerComplete, railVars
  <2>2. Less(tx, tx')
    BY <1>2, LoopTx DEF Inv1
  <2>3. Frs(tx') \subseteq Frs(tx) /\ (tx.pq = <<>> => tx'.pq = <<>>) /\ (tx.ring = <<>> => tx'.ring = <<>>)
    BY <1>0, <2>2, PathLess
  <2> QED
    BY <2>1, <2>3, PathSame
<1>3. CASE TimerFlush \/ ModifyFlush
  <2>1. UNCHANGED <<wk, qz, qp>> /\ tx' = Flush(tx)
    BY <1>3 DEF TimerFlush, ModifyFlush, FlushError, flushOthers
  <2> QED
    BY <2>1, PathFlush, PathSame
<1>4. CASE QFlush
  <2>1. UNCHANGED <<wk, qp>> /\ tx' = Flush(tx) /\ qz' = [qz EXCEPT !.pc = "worker"]
    BY <1>4 DEF QFlush, FlushError, flushOthers
  <2>2. qz'.pc = "worker"
    BY <1>0, <2>1 DEF QzRec
  <2>3. EmptiedInv'
    BY <2>2 DEF EmptiedInv
  <2> QED
    BY <2>1, <2>3, PathFlush, PathOn
<1>5. CASE QStop
  <2>1. UNCHANGED <<wk, qp>> /\ tx' = Flush(tx) /\ qz' = [qz EXCEPT !.pc = "cancel"] /\ qz.pc = "timer"
    BY <1>5 DEF QStop
  <2>2. qz'.pc = "cancel" /\ qz'.owner = qz.owner
    BY <1>0, <2>1 DEF QzRec
  <2>3. EmptiedInv'
    BY <2>1, <2>2 DEF EmptiedInv, PathInv, Owned
  <2> QED
    BY <2>1, <2>3, PathFlush, PathOn
<1> QED
  BY <1>1, <1>2, <1>3, <1>4, <1>5 DEF TimerStep

\* The quiesce.
LEMMA PathQuiesce ==
  ASSUME Inv1, PathInv, Barrier \/ (\E t \in {"user", "wd", "rm"} : QClose(t)) \/ QMark \/ QCancelWorker
                        \/ QCancel \/ QDrained \/ QRefs(RxHolds) \/ QEnd
  PROVE  PathInv'
<1>0. tx \in TxRec /\ conf \in Conf /\ qp \in QpRec /\ qz \in QzRec
  BY DEF Inv1, TxTypes, RailInv, RailTypes
<1>1. CASE \E t \in {"user", "wd", "rm"} : QClose(t)
  <2>1. UNCHANGED <<tx, wk, qp>> /\ (qz'.pc \in {"mark", "worker"} \/ (qz'.pc = "cancel" /\ qz'.owner = 0))
    BY <1>1 DEF QClose, txVars, IdleQz
  <2>2. EmptiedInv'
    BY <2>1 DEF EmptiedInv, Owned
  <2> QED
    BY <2>1, <2>2, PathOn
<1>2. CASE QMark
  <2>1. UNCHANGED <<tx, wk>> /\ qp'.bound = qp.bound /\ qp'.ep = qp.ep /\ qz'.pc \in {"worker", "flush"}
    BY <1>0, <1>2 DEF QMark, txVars, QpRec, QzRec
  <2>2. EmptiedInv'
    BY <2>1 DEF EmptiedInv
  <2> QED
    BY <2>1, <2>2, PathOn
<1>3. CASE QCancelWorker
  <2>1. UNCHANGED <<tx, wk, qp>> /\ qz'.pc = "timer" /\ wk.pc = "idle"
    BY <1>0, <1>3 DEF QCancelWorker, QzRec
  <2>2. EmptiedInv'
    BY <2>1 DEF EmptiedInv, Hold
  <2> QED
    BY <2>1, <2>2, PathOn
<1>4. CASE QCancel
  <2>1. UNCHANGED <<wk, qp>> /\ qz'.pc = "drain" /\ qz'.owner = qz.owner /\ qz.pc = "cancel"
    BY <1>0, <1>4 DEF QCancel, QzRec
  <2>2. Less(PqEmptied(tx), tx') /\ PqEmptied(tx) \in TxRec /\ PqEmptied(tx).pq = <<>> /\ PqEmptied(tx).ring = tx.ring
    BY <1>0, <1>4, LoopTx, EmptiedTx DEF Inv1
  <2>3. Frs(tx') \subseteq Frs(tx) /\ tx'.pq = <<>>
    BY <2>2, PathLess
  <2>4. EmptiedInv'
    BY <2>1, <2>3 DEF EmptiedInv, PathInv, Owned
  <2> QED
    BY <2>1, <2>3, <2>4, PathOn
<1>5. CASE QDrained
  <2>1. UNCHANGED <<tx, wk, qp>> /\ qz'.pc = "refs" /\ qz'.owner = qz.owner /\ qz.pc = "drain" /\ tx.ring = <<>>
    BY <1>0, <1>5 DEF QDrained, QzRec, txVars
  <2>2. EmptiedInv'
    BY <2>1 DEF EmptiedInv, PathInv, Owned
  <2> QED
    BY <2>1, <2>2, PathOn
<1>6. CASE Barrier
  <2>0. QBarrier
    BY <1>6 DEF Barrier
  <2>1. UNCHANGED <<wk, qp>> /\ qz'.owner = qz.owner /\ qz.pc = "drain"
    BY <1>0, <2>0 DEF QBarrier, QzRec
  <2>2. Less(RingEmptied(tx), tx') /\ RingEmptied(tx) \in TxRec /\ RingEmptied(tx).pq = tx.pq /\ RingEmptied(tx).ring = <<>>
    BY <1>0, <2>0, LoopTx, EmptiedTx DEF Inv1
  <2>3. Frs(tx') \subseteq Frs(tx) /\ tx'.ring = <<>> /\ (tx.pq = <<>> => tx'.pq = <<>>)
    BY <2>2, PathLess
  <2>4. EmptiedInv'
    BY <2>1, <2>3 DEF EmptiedInv, PathInv, Owned
  <2> QED
    BY <2>1, <2>3, <2>4, PathOn
<1>7. CASE QRefs(RxHolds)
  <2>1. UNCHANGED <<tx, wk, qp>> /\ qz'.pc = "end" /\ qz'.owner = qz.owner /\ qz.pc = "refs"
    BY <1>0, <1>7 DEF QRefs, QzRec, txVars
  <2>2. EmptiedInv'
    BY <2>1 DEF EmptiedInv, PathInv, Owned
  <2> QED
    BY <2>1, <2>2, PathOn
<1>8. CASE QEnd
  <2>1. UNCHANGED <<tx, wk>> /\ qz' = IdleQz /\ qz.pc = "end"
    BY <1>8 DEF QEnd, txVars
  <2>2. EmptiedInv'
    BY <2>1 DEF EmptiedInv, Owned, IdleQz
  <2>3. CASE qz.owner = 0
    <3>1. qp' = qp
      BY <1>8, <2>3 DEF QEnd
    <3> QED
      BY <2>1, <2>2, <3>1, PathOn
  <2>4. CASE qz.owner # 0
    <3>1. tx.pq = <<>> /\ tx.ring = <<>> /\ wk.pc \notin Hold
      BY <2>1, <2>4 DEF PathInv, EmptiedInv, Owned
    <3>2. Frs(tx) = {}
      BY <3>1, FrsEmpty
    <3> QED
      BY <2>1, <2>2, <3>1, <3>2 DEF PathInv
  <2> QED
    BY <2>3, <2>4
<1> QED
  BY <1>1, <1>2, <1>3, <1>4, <1>5, <1>6, <1>7, <1>8

\* A queue pair whose binding changes has nothing on the path.
LEMMA PathRebind ==
  ASSUME Inv1, PathInv, UNCHANGED <<tx, wk, qz>>, ~qp.bound
  PROVE  PathInv'
<1>1. Frs(tx) = {} /\ wk.pc \notin Hold
  BY DEF PathInv
<1> QED
  BY <1>1 DEF PathInv, EmptiedInv, Owned

\* create, modify and destroy, the watchdog, rail removal and the receive side.
LEMMA PathRail ==
  ASSUME Inv1, PathInv, Create \/ Modify \/ ModifyStep \/ Destroy \/ Destroyed \/ Watchdog \/ RemoveRail
                        \/ RxCheck \/ RxLookup \/ RxDeliver \/ PostRecv \/ UNCHANGED vars
  PROVE  PathInv'
<1>0. tx \in TxRec /\ qp \in QpRec
  BY DEF Inv1, TxTypes, RailInv, RailTypes
<1>1. CASE Create
  <2>1. UNCHANGED <<wk, qz>> /\ ~Exists
    BY <1>1 DEF Create, CreateQp
  <2>2. tx'.pq = tx.pq /\ tx'.ring = tx.ring
    BY <1>1, CreateTx DEF Create, Inv1, SamePath
  <2>3. Frs(tx') = Frs(tx) /\ ~qp.bound
    BY <2>1, <2>2 DEF Frs, Inv1, RailInv, BindInv
  <2>4. Frs(tx') = {} /\ wk'.pc \notin Hold
    BY <2>1, <2>3 DEF PathInv
  <2> QED
    BY <2>1, <2>2, <2>4 DEF PathInv, EmptiedInv, Owned
<1>2. CASE Modify \/ Destroy \/ Commit
  <2>1. UNCHANGED <<tx, wk, qz>> /\ qp'.bound = qp.bound /\ qp'.ep = qp.ep
    BY <1>0, <1>2 DEF Modify, ModifyUp, ModifyDown, Destroy, DestroyQp, Commit, txVars, QpRec
  <2>2. EmptiedInv'
    BY <2>1 DEF PathInv, EmptiedInv, Owned
  <2> QED
    BY <2>1, <2>2, PathOn
<1>3. CASE Bind
  <2>1. UNCHANGED <<tx, wk, qz>>
    BY <1>3 DEF Bind, txVars
  <2>2. CASE ~qp.bound
    BY <2>1, <2>2, PathRebind
  <2>3. CASE qp.bound
    <3>1. qp'.bound = qp.bound /\ qp'.ep = qp.ep
      BY <1>0, <1>3, <2>3 DEF Bind, QpRec
    <3>2. EmptiedInv'
      BY <2>1 DEF PathInv, EmptiedInv, Owned
    <3> QED
      BY <2>1, <3>1, <3>2, PathOn
  <2> QED
    BY <2>2, <2>3
<1>4. CASE ModifyEnd \/ Destroyed
  <2>1. UNCHANGED <<tx, wk, qz>> /\ user.pc \in {"end", "free"}
    BY <1>4 DEF ModifyEnd, Destroyed, DestroyFree, txVars
  <2>2. ~qp.bound
    BY <2>1 DEF Inv1, RailInv, UserInv
  <2> QED
    BY <2>1, <2>2, PathRebind
<1>5. CASE ModifyJoin \/ Watchdog \/ RemoveRail
  <2>1. UNCHANGED <<tx, wk, qz, qp>>
    BY <1>5 DEF ModifyJoin, Watchdog, RemoveRail, WatchdogFail, RemoveStart, txVars
  <2> QED
    BY <2>1, PathSame
<1>6. CASE RxCheck \/ RxLookup \/ RxDeliver \/ PostRecv \/ UNCHANGED vars
  <2>1. UNCHANGED <<tx, wk, qz, qp>>
    BY <1>6 DEF RxCheck, RxLookup, RxDeliver, PostRecv, rxOthers, vars, railVars
  <2> QED
    BY <2>1, PathSame
<1> QED
  BY <1>1, <1>2, <1>3, <1>4, <1>5, <1>6 DEF ModifyStep

\* Every step keeps PathInv.
LEMMA PathStep ==
  ASSUME Inv1, PathInv, [Next]_vars
  PROVE  PathInv'
<1>1. CASE Post \/ PostStep
  BY <1>1, PathPost
<1>2. CASE Worker
  BY <1>2, PathWorker
<1>3. CASE Path \/ Nhi \/ Late \/ Expire
  BY <1>3, PathMoves
<1>4. CASE TimerStep \/ TimerFlush \/ ModifyFlush \/ QFlush \/ QStop
  BY <1>4, PathTimer
<1>5. CASE Barrier \/ (\E t \in {"user", "wd", "rm"} : QClose(t)) \/ QMark \/ QCancelWorker
           \/ QCancel \/ QDrained \/ QRefs(RxHolds) \/ QEnd
  BY <1>5, PathQuiesce
<1>6. CASE Create \/ Modify \/ ModifyStep \/ Destroy \/ Destroyed \/ Watchdog \/ RemoveRail
           \/ RxCheck \/ RxLookup \/ RxDeliver \/ PostRecv \/ UNCHANGED vars
  BY <1>6, PathRail
<1> QED
  BY <1>1, <1>2, <1>3, <1>4, <1>5, <1>6 DEF Next, Quiesce

\* Initially it holds.
LEMMA PathInit == Init => PathInv
<1> SUFFICES ASSUME Init PROVE PathInv
  OBVIOUS
<1>1. tx.pq = <<>> /\ tx.ring = <<>> /\ wk.pc = "idle" /\ qz.pc = "idle"
  BY DEF Init, TxInit, IdleWorker, IdleQz
<1>2. Ran(<<>>) = {}
  BY DEF Ran
<1> QED
  BY <1>1, <1>2 DEF PathInv, EmptiedInv, Owned, Frs, Hold

-----------------------------------------------------------------------------
(* What is held is of the binding's epoch.                                 *)

\* What holds a reference to a context.
Refs(T, k, p, m) ==
  Ran(T.list) \cup T.late \cup {f[1] : f \in Frs(T)} \cup Ran(m.taken)
    \cup {w \in {k.w} : k.ref} \cup {w \in {p.w} : p.pc \in {"slot", "queue"}}
Held1 == Refs(tx, wk, poster, timer)

\* Unless a quiesce gave up waiting: what is still held was posted in the epoch
\* of the binding, and nothing is held where a binding may begin.
EpochInv ==
  ~conf.deadline =>
    /\ \A f \in Frs(tx) : tx.snd[f[1]].ep = qp.ep
    /\ freed = FALSE =>
         /\ \A w \in Held1 : tx.snd[w].ep = qp.ep
         /\ Exists /\ qp.bound = FALSE => (rail.st = "QUARANTINED" /\ rail.stopped) \/ Held1 = {}
         /\ Owned /\ qz.pc = "end" => qz.err \/ Held1 = {}
    /\ Owned /\ qz.pc = "end" /\ qz.err => rail.stopped

\* The contexts of the queue pair are those that are held.
LEMMA HeldFacts ==
  ASSUME Inv1
  PROVE  /\ Held1 \subseteq WR /\ \A w \in Held1 : tx.snd[w].qp = qp.inc
         /\ \A w \in WR : Alive(w) <=> w \in Held1
         /\ Contexts(qp.inc) = Held1
<1>0. /\ tx.list \in Seq(WR) /\ timer.taken \in Seq(WR) /\ tx.pq \in Seq(FrameRec) /\ tx.ring \in Seq(FrameRec)
      /\ tx.late \subseteq WR
  BY DEF Inv1, TxTypes, TxRec, TimerRec
<1>1. Frs(tx) \subseteq FrameRec /\ \A f \in FrameRec : f[1] \in WR
  <2>1. Ran(tx.pq) \subseteq FrameRec /\ Ran(tx.ring) \subseteq FrameRec
    BY <1>0, RanFacts
  <2> QED
    BY <2>1 DEF Frs, FrameRec
<1>2. wk.ref => wk.pc \notin {"idle", "top"} /\ wk.w \in WR
  BY DEF Inv1, TxTypes
<1>3. poster.pc \in {"slot", "queue"} => poster.w \in WR
  BY DEF Inv1, RailInv, UserInv
<1>4. Ran(tx.list) \subseteq WR /\ Ran(timer.taken) \subseteq WR
  BY <1>0, RanFacts
<1>5. Held1 \subseteq WR
  BY <1>0, <1>1, <1>2, <1>3, <1>4 DEF Held1, Refs
<1>6. \A w \in Held1 : tx.snd[w].qp = qp.inc
  BY <1>2 DEF Held1, Refs, Inv1, OwnInv, OwnT, Frs
<1>7. ASSUME NEW w \in WR PROVE Alive(w) <=> w \in Held1
  <2>1. (Contains(tx.list, w) <=> w \in Ran(tx.list)) /\ (Contains(timer.taken, w) <=> w \in Ran(timer.taken))
    BY <1>0, RanFacts
  <2>2. FramesOf(tx.pq, w) + FramesOf(tx.ring, w) > 0 <=> w \in {f[1] : f \in Frs(tx)}
    <3>1. /\ FramesOf(tx.pq, w) \in Nat /\ (FramesOf(tx.pq, w) = 0 <=> \A k \in DOMAIN tx.pq : tx.pq[k][1] # w)
          /\ FramesOf(tx.ring, w) \in Nat /\ (FramesOf(tx.ring, w) = 0 <=> \A k \in DOMAIN tx.ring : tx.ring[k][1] # w)
      BY <1>0, CountFacts
    <3>2. FramesOf(tx.pq, w) + FramesOf(tx.ring, w) > 0 <=> FramesOf(tx.pq, w) # 0 \/ FramesOf(tx.ring, w) # 0
      BY <3>1
    <3>3. FramesOf(tx.pq, w) # 0 \/ FramesOf(tx.ring, w) # 0 <=> \E f \in Frs(tx) : f[1] = w
      BY <3>1 DEF Frs, Ran
    <3> QED
      BY <3>2, <3>3
  <2>3. w \in Held1 <=> \/ w \in Ran(tx.list) \/ w \in tx.late \/ w \in {f[1] : f \in Frs(tx)}
                        \/ (wk.ref /\ wk.w = w) \/ w \in Ran(timer.taken)
                        \/ (poster.pc \in {"slot", "queue"} /\ poster.w = w)
    BY DEF Held1, Refs
  <2> QED
    BY <2>1, <2>2, <2>3 DEF Alive
<1>8. Contexts(qp.inc) = Held1
  BY <1>5, <1>6, <1>7 DEF Contexts
<1> QED
  BY <1>5, <1>6, <1>7, <1>8

\* Nothing new is held, nothing else changes that matters.
LEMMA EpochKeep ==
  ASSUME EpochInv, conf' = conf, freed = FALSE, Held1' \subseteq Held1 \/ freed' = TRUE,
         Frs(tx') \subseteq Frs(tx) \/ \A f \in Frs(tx') : f \in Frs(tx) \/ (f[1] \in Held1),
         Frs(tx) \subseteq FrameRec, \A w \in Held1 \cup {f[1] : f \in Frs(tx)} : tx'.snd[w].ep = tx.snd[w].ep,
         qp'.ep = qp.ep, qp'.bound = qp.bound, Exists' => Exists,
         rail.stopped /\ rail.st = "QUARANTINED" => rail'.stopped /\ rail'.st = "QUARANTINED",
         Owned' /\ qz'.pc = "end" => Owned /\ qz.pc = "end" /\ qz'.err = qz.err /\ rail'.stopped = rail.stopped
  PROVE  EpochInv'
<1>1. CASE conf.deadline
  BY <1>1 DEF EpochInv
<1>2. CASE ~conf.deadline
  <2>1. /\ \A f \in Frs(tx) : tx.snd[f[1]].ep = qp.ep
        /\ \A w \in Held1 : tx.snd[w].ep = qp.ep
        /\ Exists /\ qp.bound = FALSE => (rail.st = "QUARANTINED" /\ rail.stopped) \/ Held1 = {}
        /\ Owned /\ qz.pc = "end" => qz.err \/ Held1 = {}
        /\ Owned /\ qz.pc = "end" /\ qz.err => rail.stopped
    BY <1>2 DEF EpochInv
  <2>2. \A f \in Frs(tx') : tx'.snd[f[1]].ep = qp'.ep
    BY <2>1
  <2>3. freed' = FALSE => \A w \in Held1' : tx'.snd[w].ep = qp'.ep
    BY <2>1
  <2>4. freed' = FALSE /\ Exists' /\ qp'.bound = FALSE => (rail'.st = "QUARANTINED" /\ rail'.stopped) \/ Held1' = {}
    BY <2>1
  <2>5. freed' = FALSE /\ Owned' /\ qz'.pc = "end" => qz'.err \/ Held1' = {}
    BY <2>1
  <2>6. Owned' /\ qz'.pc = "end" /\ qz'.err => rail'.stopped
    BY <2>1
  <2> QED
    BY <2>2, <2>3, <2>4, <2>5, <2>6 DEF EpochInv
<1> QED
  BY <1>1, <1>2

\* U holds no send, and has no frame, that T does not.
Narrow(T, U) ==
  /\ Ran(U.list) \cup U.late \subseteq Ran(T.list) \cup T.late /\ Frs(U) \subseteq Frs(T)
  /\ \A w \in WR : U.snd[w].ep = T.snd[w].ep

\* The binding and the stages at which a quiesce has waited stand still.
SameBinding ==
  /\ qp'.ep = qp.ep /\ qp'.bound = qp.bound /\ (Exists' => Exists)
  /\ rail.stopped /\ rail.st = "QUARANTINED" => rail'.stopped /\ rail'.st = "QUARANTINED"
  /\ Owned' /\ qz'.pc = "end" => Owned /\ qz.pc = "end" /\ qz'.err = qz.err /\ rail'.stopped = rail.stopped

\* So does a step after which nothing new is held.
LEMMA EpochNarrow ==
  ASSUME Inv1, EpochInv, freed = FALSE, conf' = conf, Narrow(tx, tx'), SameBinding,
         wk'.ref => wk.ref /\ wk'.w = wk.w,
         poster'.pc \in {"slot", "queue"} => poster.pc \in {"slot", "queue"} /\ poster'.w = poster.w,
         Ran(timer'.taken) \subseteq Ran(timer.taken)
  PROVE  EpochInv'
<1>1. {f[1] : f \in Frs(tx')} \subseteq {f[1] : f \in Frs(tx)}
  BY DEF Narrow
<1>2. {w \in {wk'.w} : wk'.ref} \subseteq {w \in {wk.w} : wk.ref}
  OBVIOUS
<1>3. {w \in {poster'.w} : poster'.pc \in {"slot", "queue"}} \subseteq {w \in {poster.w} : poster.pc \in {"slot", "queue"}}
  OBVIOUS
<1>4. Held1' \subseteq Held1
  BY <1>1, <1>2, <1>3 DEF Held1, Refs, Narrow
<1>5. Held1 \subseteq WR /\ Frs(tx) \subseteq FrameRec
  <2>1. tx.pq \in Seq(FrameRec) /\ tx.ring \in Seq(FrameRec)
    BY DEF Inv1, TxTypes, TxRec
  <2>2. Ran(tx.pq) \subseteq FrameRec /\ Ran(tx.ring) \subseteq FrameRec
    BY <2>1, RanFacts
  <2> QED
    BY <2>2, HeldFacts DEF Frs
<1>6. \A w \in Held1 \cup {f[1] : f \in Frs(tx)} : tx'.snd[w].ep = tx.snd[w].ep
  <2>1. {f[1] : f \in Frs(tx)} \subseteq Held1
    BY DEF Held1, Refs
  <2> QED
    BY <1>5, <2>1 DEF Narrow
<1> QED
  BY <1>4, <1>5, <1>6, EpochKeep DEF Narrow, SameBinding

\* Completion loops only let go.
LEMMA NarrowLess ==
  ASSUME Inv1, NEW T \in TxRec, Narrow(tx, T), NEW U, Less(T, U)
  PROVE  Narrow(tx, U)
<1>1. \A w \in WR : U.snd[w].ep = T.snd[w].ep
  BY DEF Less, SndLess
<1>2. Frs(U) \subseteq Frs(T)
  BY DEF Less, Frs
<1>3. Ran(U.list) \cup U.late \subseteq Ran(T.list) \cup T.late
  BY DEF Less
<1> QED
  BY <1>1, <1>2, <1>3 DEF Narrow

\* The queues stay as they are.
LEMMA NarrowSame ==
  ASSUME NEW T, NEW U, T = U \/ (U.snd = T.snd /\ U.list = T.list /\ U.late = T.late /\ SamePath(T, U))
  PROVE  Narrow(T, U)
  BY DEF Narrow, SamePath, Frs

\* One send changes, its epoch does not.
LEMMA NarrowSnd ==
  ASSUME NEW T, NEW U, NEW w \in WR, U.snd[w].ep = T.snd[w].ep, \A v \in WR : v # w => U.snd[v] = T.snd[v],
         U.list = T.list, U.late = T.late, SamePath(T, U)
  PROVE  Narrow(T, U)
  BY DEF Narrow, SamePath, Frs

\* A flush lets go.
LEMMA NarrowFlush ==
  ASSUME Inv1, tx' = Flush(tx)
  PROVE  Narrow(tx, tx')
<1>1. tx \in TxRec /\ <<>> \in Seq(WR)
  BY DEF Inv1, TxTypes
<1> PICK T : T = [tx EXCEPT !.sq = <<>>]
  OBVIOUS
<1>2. T \in TxRec /\ T.pq = tx.pq /\ T.ring = tx.ring /\ T.snd = tx.snd /\ T.list = tx.list /\ T.late = tx.late
  BY ONLY <1>1, T = [tx EXCEPT !.sq = <<>>] DEF TxRec
<1>3. Less(T, tx')
  BY LoopTx DEF Inv1
<1>4. Narrow(tx, T)
  BY <1>2, NarrowSame DEF SamePath
<1> QED
  BY <1>2, <1>3, <1>4, NarrowLess

\* The worker.
LEMMA EpochWorker ==
  ASSUME Inv1, EpochInv, freed = FALSE, Worker
  PROVE  EpochInv'
<1>0. wk \in WkRec /\ tx \in TxRec /\ qp \in QpRec /\ conf \in Conf /\ rail \in RailRec
  BY DEF Inv1, TxTypes, RailInv, RailTypes
<1>1. UNCHANGED railVars /\ UNCHANGED <<conf, qp, poster, timer>>
  BY DEF Worker, WorkerPop, WorkerGet, WorkerPath, WorkerWindow, WorkerReserve, WorkerSet,
         WorkerCheck, WorkerPost, WorkerGroup, WorkerEnd
<1>2. SameBinding
  BY <1>1 DEF SameBinding, railVars, Exists, Owned
<1>3. wk.ref = (wk.pc \notin {"idle", "top", "popped"})
  BY DEF Inv1, TxTypes
<1>4. CASE Narrow(tx, tx') /\ (wk'.ref => wk.ref /\ wk'.w = wk.w)
  BY <1>1, <1>2, <1>4, EpochNarrow
<1>5. CASE WorkerPop
  <2>1. wk'.ref = FALSE
    <3>1. wk' = IdleWorker \/ wk' = [IdleWorker EXCEPT !.pc = "popped", !.w = Head(tx.sq)]
      BY <1>5 DEF WorkerPop
    <3>2. CASE wk' = IdleWorker
      BY ONLY <3>2 DEF IdleWorker
    <3>3. CASE wk' = [IdleWorker EXCEPT !.pc = "popped", !.w = Head(tx.sq)]
      BY ONLY <3>3 DEF IdleWorker
    <3> QED
      BY <3>1, <3>2, <3>3
  <2>2. Narrow(tx, tx')
    BY <1>5, WorkerPopTx, NarrowSame DEF Inv1
  <2> QED
    BY <1>4, <2>1, <2>2
<1>6. CASE WorkerGet
  <2>1. tx' = tx /\ wk.pc = "popped" /\ wk' = [wk EXCEPT !.pc = "path", !.ref = TRUE] /\ freed' = ~Alive(wk.w)
    BY <1>6 DEF WorkerGet
  <2>2. wk'.w = wk.w
    BY <1>0, <2>1 DEF WkRec
  <2>3. Held1' \subseteq Held1 \/ freed' = TRUE
    <3>1. CASE ~Alive(wk.w)
      BY <2>1, <3>1
    <3>2. CASE Alive(wk.w)
      <4>1. wk.w \in Held1
        BY <2>1, <3>2, HeldFacts DEF Inv1, TxTypes
      <4>2. {w \in {wk'.w} : wk'.ref} \subseteq {wk.w}
        BY <2>2
      <4> QED
        BY <1>1, <2>1, <4>1, <4>2 DEF Held1, Refs
    <3> QED
      BY <3>1, <3>2
  <2>4. Frs(tx) \subseteq FrameRec
    <3>1. tx.pq \in Seq(FrameRec) /\ tx.ring \in Seq(FrameRec)
      BY <1>0 DEF TxRec
    <3>2. Ran(tx.pq) \subseteq FrameRec /\ Ran(tx.ring) \subseteq FrameRec
      BY <3>1, RanFacts
    <3> QED
      BY <3>2 DEF Frs
  <2> QED
    BY <1>1, <1>2, <2>1, <2>3, <2>4, EpochKeep DEF SameBinding
<1>7. CASE WorkerCheck \/ WorkerGroup \/ WorkerPath(BoundTo)
  <2>1. tx' = tx /\ wk'.w = wk.w /\ wk'.ref = wk.ref
    BY <1>0, <1>7 DEF WorkerCheck, WorkerGroup, WorkerPath, WkRec
  <2> QED
    BY <1>4, <2>1, NarrowSame
<1>8. CASE WorkerWindow \/ WorkerReserve(rail.closed)
  <2>1. wk'.w = wk.w /\ wk'.ref = wk.ref
    BY <1>0, <1>8 DEF WorkerWindow, WorkerReserve, WkRec
  <2>2. wk.w \in WR
    BY <1>8 DEF WorkerWindow, WorkerReserve, Inv1, TxTypes
  <2>3. tx' = tx \/ \E d : WindowTo(tx, d, tx')
    BY <1>0, <1>8, <2>2, WindowTx DEF WorkerWindow, WorkerReserve
  <2> QED
    BY <1>4, <2>1, <2>3, NarrowSame DEF WindowTo, SameLists
<1>9. CASE WorkerSet
  <2>1. wk'.w = wk.w /\ wk'.ref = wk.ref
    BY <1>0, <1>9 DEF WorkerSet, WkRec
  <2> PICK s : s = [tx.snd[wk.w] EXCEPT !.win = TRUE, !.left = conf.len[wk.w], !.armed = (wk.w \in Ran(tx.list))]
    OBVIOUS
  <2>2. wk.w \in WR /\ SndTo(tx, wk.w, s, tx')
    BY <1>9, WorkerSetTx DEF Inv1
  <2>3. tx.snd[wk.w] \in SndRec
    BY <1>0, <2>2 DEF TxRec
  <2>4. s.ep = tx.snd[wk.w].ep
    BY <2>3 DEF SndRec
  <2>5. Narrow(tx, tx')
    <3>1. /\ SamePath(tx, tx') /\ tx'.list = tx.list /\ tx'.late = tx.late
          /\ tx'.snd[wk.w].ep = tx.snd[wk.w].ep /\ \A v \in WR : v # wk.w => tx'.snd[v] = tx.snd[v]
      BY <2>2, <2>4 DEF SndTo, SameQueues, SamePath
    <3> QED
      BY <2>2, <3>1, NarrowSnd
  <2> QED
    BY <1>4, <2>1, <2>5
<1>10. CASE WorkerPost(rail.closed)
  <2>1. wk'.w = wk.w /\ wk'.ref = wk.ref /\ wk.pc = "frame"
    BY <1>0, <1>10 DEF WorkerPost, WkRec
  <2>2. CASE rail.closed
    <3>1. tx' = tx
      BY <1>10, <2>2 DEF WorkerPost
    <3> QED
      BY <1>4, <2>1, <3>1, NarrowSame
  <2>3. CASE ~rail.closed
    <3>1. /\ <<wk.w, qp.ep>> \in FrameRec /\ tx'.pq = Append(tx.pq, <<wk.w, qp.ep>>) /\ tx'.ring = tx.ring
          /\ tx'.snd = tx.snd /\ SameLists(tx, tx') /\ freed' = freed
      BY <1>10, <2>3, WorkerPostTx DEF Inv1, WorkerPost
    <3> PICK f \in FrameRec : f = <<wk.w, qp.ep>>
      BY <3>1
    <3>2. tx'.pq = Append(tx.pq, f) /\ tx.pq \in Seq(FrameRec) /\ tx.ring \in Seq(FrameRec)
      BY <1>0, <3>1 DEF TxRec
    <3>3. Ran(tx'.pq) = Ran(tx.pq) \cup {f}
      BY ONLY <3>2, f \in FrameRec, RanAppend
    <3>4. \A g \in Frs(tx') : g \in Frs(tx) \/ g = f
      BY <3>1, <3>3 DEF Frs
    <3>5. f[1] = wk.w /\ wk.w \in Held1
      BY <1>3, <2>1 DEF Held1, Refs
    <3>6. Held1' \subseteq Held1
      <4>1. {g[1] : g \in Frs(tx')} \subseteq {g[1] : g \in Frs(tx)} \cup {wk.w}
        BY <3>4, <3>5
      <4>2. Held1' \subseteq Held1 \cup {g[1] : g \in Frs(tx')}
        BY <1>1, <2>1, <3>1 DEF Held1, Refs, SameLists
      <4>3. {g[1] : g \in Frs(tx)} \subseteq Held1
        BY DEF Held1, Refs
      <4> QED
        BY <3>5, <4>1, <4>2, <4>3
    <3>7. Frs(tx) \subseteq FrameRec
      <4>1. Ran(tx.pq) \subseteq FrameRec /\ Ran(tx.ring) \subseteq FrameRec
        BY <3>2, RanFacts
      <4> QED
        BY <4>1 DEF Frs
    <3>8. \A g \in Frs(tx') : g \in Frs(tx) \/ g[1] \in Held1
      BY <3>4, <3>5
    <3> QED
      BY <1>1, <1>2, <3>1, <3>6, <3>7, <3>8, EpochKeep DEF SameBinding
  <2> QED
    BY <2>2, <2>3
<1>11. CASE WorkerEnd
  <2>1. wk'.ref = FALSE
    BY <1>11 DEF WorkerEnd, IdleWorker
  <2>2. Less(tx, tx')
    BY <1>11, LoopTx DEF Inv1
  <2>3. Narrow(tx, tx')
    BY <1>0, <2>2, NarrowLess, NarrowSame
  <2> QED
    BY <1>4, <2>1, <2>3
<1> QED
  BY <1>5, <1>6, <1>7, <1>8, <1>9, <1>10, <1>11 DEF Worker

\* The frames on the path hold their sends.
LEMMA FrsTyped ==
  ASSUME Inv1
  PROVE  Frs(tx) \subseteq FrameRec /\ {f[1] : f \in Frs(tx)} \subseteq Held1
<1>1. tx.pq \in Seq(FrameRec) /\ tx.ring \in Seq(FrameRec)
  BY DEF Inv1, TxTypes, TxRec
<1>2. Ran(tx.pq) \subseteq FrameRec /\ Ran(tx.ring) \subseteq FrameRec
  BY <1>1, RanFacts
<1> QED
  BY <1>2 DEF Frs, Held1, Refs

\* Posting a send.
LEMMA EpochPost ==
  ASSUME Inv1, EpochInv, freed = FALSE, Post \/ PostStep
  PROVE  EpochInv'
<1>0. tx \in TxRec /\ poster \in PosterRec /\ conf' = conf /\ qp \in QpRec
  BY DEF Inv1, TxTypes, RailInv, RailTypes, Post, PostStep, PostGetLive, PostSlot, PostQueueSend, PostQueueEntry
<1>1. UNCHANGED <<wk, qp, timer, rail, qz>>
  BY DEF Post, PostStep, PostGetLive, PostSlot, PostQueueSend, PostQueueEntry, railVars
<1>2. SameBinding
  BY <1>1 DEF SameBinding, Exists, Owned
<1>3. CASE Post
  <2>1. PICK w \in WR : PostGetLive(w)
    BY <1>3 DEF Post
  <2> PICK s : s = [tx.snd[w] EXCEPT !.qp = qp.inc, !.ep = qp.ep]
    OBVIOUS
  <2>2. SndTo(tx, w, s, tx')
    BY <2>1, PostGetLiveTx DEF Inv1
  <2>3. tx.snd[w] \in SndRec
    BY <1>0 DEF TxRec
  <2>4. s.ep = qp.ep
    BY <2>3 DEF SndRec
  <2>5. /\ SamePath(tx, tx') /\ tx'.list = tx.list /\ tx'.late = tx.late
        /\ tx'.snd[w].ep = qp.ep /\ \A v \in WR : v # w => tx'.snd[v] = tx.snd[v]
    BY <2>2, <2>4 DEF SndTo, SameQueues, SamePath
  <2>6. poster' = [pc |-> "slot", w |-> w] /\ qp.bound = TRUE /\ (Owned => qz.pc = "mark")
    <3>1. qp.st = "RTS" /\ ~qp.closing /\ poster' = [pc |-> "slot", w |-> w]
      BY <2>1 DEF PostGetLive
    <3>2. qp.bound /\ (Owned => qz.pc = "mark")
      BY <3>1 DEF Inv1, RailInv, UserInv, UsesTransport
    <3> QED
      BY <1>0, <3>1, <3>2 DEF QpRec
  <2>7. Frs(tx') = Frs(tx)
    BY <2>5 DEF Frs, SamePath
  <2>8. Held1' \subseteq Held1 \cup {w}
    BY <1>1, <2>5, <2>6, <2>7 DEF Held1, Refs
  <2>9. Held1 \subseteq WR /\ {f[1] : f \in Frs(tx)} \subseteq Held1
    BY HeldFacts, FrsTyped
  <2>10. (\A f \in Frs(tx) : f[1] \in WR) /\ (\A v \in Held1' : v \in Held1 \/ v = w)
    BY <2>8, <2>9
  <2>11. CASE conf.deadline
    BY <1>0, <2>11 DEF EpochInv
  <2>12. CASE ~conf.deadline
    <3>1. /\ \A f \in Frs(tx) : tx.snd[f[1]].ep = qp.ep
          /\ \A v \in Held1 : tx.snd[v].ep = qp.ep
          /\ Owned /\ qz.pc = "end" /\ qz.err => rail.stopped
      BY <2>12 DEF EpochInv
    <3>2. \A v \in WR : v = w \/ tx'.snd[v].ep = tx.snd[v].ep
      BY <2>5
    <3>3. \A f \in Frs(tx') : tx'.snd[f[1]].ep = qp'.ep
      BY <1>1, <2>5, <2>7, <2>10, <3>1, <3>2
    <3>4. \A v \in Held1' : tx'.snd[v].ep = qp'.ep
      BY <1>1, <2>5, <2>9, <2>10, <3>1, <3>2
    <3>5. qp'.bound = TRUE /\ ~(Owned' /\ qz'.pc = "end")
      BY <1>1, <2>6 DEF Owned
    <3> QED
      BY <3>3, <3>4, <3>5 DEF EpochInv
  <2> QED
    BY <2>11, <2>12
<1>4. CASE PostSlot
  <2> PICK w : w = poster.w
    OBVIOUS
  <2>1. w \in WR /\ tx.snd[w] \in SndRec
    BY <1>0, <1>4 DEF PostSlot, Inv1, RailInv, UserInv, TxRec
  <2>2. /\ poster' = IdlePoster \/ poster' = [poster EXCEPT !.pc = "queue"]
        /\ SamePath(tx, tx') /\ tx'.list = tx.list /\ tx'.late = tx.late
        /\ tx'.snd[w] = [tx.snd[w] EXCEPT !.done = TRUE] \/ tx'.snd[w] = [tx.snd[w] EXCEPT !.counted = TRUE]
        /\ \A v \in WR : v # w => tx'.snd[v] = tx.snd[v]
    BY <1>4, PostSlotTx DEF Inv1, SndTo, SameQueues, SamePath, SameLists
  <2>3. tx'.snd[w].ep = tx.snd[w].ep
    BY ONLY <2>1, <2>2 DEF SndRec
  <2>4. Narrow(tx, tx')
    BY <2>1, <2>2, <2>3, NarrowSnd
  <2>5. poster'.pc \in {"slot", "queue"} => poster.pc \in {"slot", "queue"} /\ poster'.w = poster.w
    <3>1. poster.pc = "slot"
      BY <1>4 DEF PostSlot
    <3>2. poster' = IdlePoster => poster'.pc = "idle"
      BY DEF IdlePoster
    <3>3. poster' = [poster EXCEPT !.pc = "queue"] => poster'.w = poster.w
      BY <1>0 DEF PosterRec
    <3> QED
      BY <2>2, <3>1, <3>2, <3>3
  <2> QED
    BY <1>0, <1>1, <1>2, <2>4, <2>5, EpochNarrow
<1>5. CASE PostQueueSend
  <2>1. /\ tx'.snd = tx.snd /\ tx'.list = Append(tx.list, poster.w) /\ tx'.late = tx.late /\ SamePath(tx, tx')
        /\ poster.w \in WR
    BY <1>5, PostQueueSendTx DEF Inv1
  <2>2. poster.pc = "queue" /\ poster' = [poster EXCEPT !.pc = "entry"] /\ freed' = freed
    BY <1>5 DEF PostQueueSend
  <2>3. poster'.pc = "entry"
    BY <1>0, <2>2 DEF PosterRec
  <2>4. tx.list \in Seq(WR)
    BY <1>0 DEF TxRec
  <2>5. Ran(tx'.list) = Ran(tx.list) \cup {poster.w}
    BY <2>1, <2>4, RanAppend
  <2>6. Frs(tx') = Frs(tx)
    BY <2>1 DEF SamePath, Frs
  <2>7. poster.w \in Held1
    BY <2>2 DEF Held1, Refs
  <2>8. Held1' \subseteq Held1
    BY <1>1, <2>1, <2>3, <2>5, <2>6, <2>7 DEF Held1, Refs
  <2> QED
    BY <1>0, <1>2, <2>1, <2>2, <2>6, <2>8, FrsTyped, EpochKeep DEF SameBinding
<1>6. CASE PostQueueEntry
  <2>1. Narrow(tx, tx')
    BY <1>6, PostQueueEntryTx, NarrowSame DEF Inv1
  <2>2. poster'.pc = "idle"
    BY <1>6 DEF PostQueueEntry, IdlePoster
  <2> QED
    BY <1>0, <1>1, <1>2, <2>1, <2>2, EpochNarrow
<1> QED
  BY <1>3, <1>4, <1>5, <1>6 DEF PostStep

\* The path, the NHI, delayed completions and the timeout scan.
LEMMA EpochMoves ==
  ASSUME Inv1, EpochInv, freed = FALSE, Path \/ Nhi \/ Late \/ Expire
  PROVE  EpochInv'
<1>0. tx \in TxRec /\ conf \in Conf /\ tx.pq \in Seq(FrameRec) /\ tx.ring \in Seq(FrameRec) /\ tx.list \in Seq(WR)
  BY DEF Inv1, TxTypes, TxRec, RailInv, RailTypes
<1>1. UNCHANGED <<conf, wk, qp, poster, rail, qz, freed>>
  BY DEF Path, Nhi, Late, Expire, PathSchedule, NhiSend, SendCompleteWork, TimerExpire, railVars
<1>2. SameBinding
  BY <1>1 DEF SameBinding, Exists, Owned
<1>3. CASE Narrow(tx, tx') /\ timer' = timer
  BY <1>1, <1>2, <1>3, EpochNarrow
<1>4. CASE Path
  <2>1. PathSchedule(rail.closed) /\ timer' = timer
    BY <1>4 DEF Path, PathSchedule
  <2>2. /\ tx.pq # <<>> /\ Head(tx.pq) \in FrameRec /\ tx'.snd = tx.snd /\ SameLists(tx, tx')
        /\ tx'.ring = Append(tx.ring, Head(tx.pq)) /\ tx'.pq = Tail(tx.pq)
    BY <2>1, PathScheduleTx DEF Inv1
  <2>3. Ran(tx'.ring) = Ran(tx.ring) \cup {Head(tx.pq)} /\ Ran(tx.pq) = Ran(tx'.pq) \cup {Head(tx.pq)}
    BY <1>0, <2>2, RanAppend, RanTail
  <2>4. Frs(tx') \subseteq Frs(tx)
    BY <2>3 DEF Frs
  <2> QED
    BY <1>3, <2>1, <2>2, <2>4 DEF Narrow, SameLists
<1>5. CASE Nhi
  <2> PICK w : w = Head(tx.ring)[1]
    OBVIOUS
  <2>1. /\ tx.ring # <<>> /\ w \in WR /\ \E U : SentTo(tx, w, U) /\ tx' = TxDone(U, w, TRUE)
    BY <1>5, NhiSendTx DEF Nhi, Inv1
  <2> PICK U : SentTo(tx, w, U) /\ tx' = TxDone(U, w, TRUE)
    BY <2>1
  <2>2. /\ U \in TxRec /\ U.pq = tx.pq /\ U.ring = Tail(tx.ring) /\ U.list = tx.list /\ U.late = tx.late
        /\ U.snd[w] = [tx.snd[w] EXCEPT !.sent = tx.snd[w].sent + 1] /\ \A v \in WR : v # w => U.snd[v] = tx.snd[v]
    BY DEF SentTo, SameLists
  <2>3. Less(U, tx')
    BY <1>0, <2>1, <2>2, TxDoneLess
  <2>4. Ran(tx.ring) = Ran(U.ring) \cup {Head(tx.ring)}
    BY <1>0, <2>1, <2>2, RanTail
  <2>5. Frs(U) \subseteq Frs(tx)
    BY <2>2, <2>4 DEF Frs
  <2>6. tx.snd[w] \in SndRec
    BY <1>0, <2>1 DEF TxRec
  <2>7. U.snd[w].ep = tx.snd[w].ep
    BY ONLY <2>2, <2>6 DEF SndRec
  <2>8. Narrow(tx, U)
    BY <2>2, <2>5, <2>7 DEF Narrow
  <2>9. Narrow(tx, tx') /\ timer' = timer
    BY <1>5, <2>2, <2>3, <2>8, NarrowLess DEF Nhi, NhiSend
  <2> QED
    BY <1>3, <2>9
<1>6. CASE Late
  <2>1. PICK w \in tx.late : SendCompleteWork(w)
    BY <1>6 DEF Late
  <2>2. w \in WR /\ LateTo(SendComplete(tx, w, TRUE), w, tx') /\ timer' = timer
    BY <2>1, LateTx DEF Inv1, SendCompleteWork
  <2> PICK U : U = SendComplete(tx, w, TRUE)
    OBVIOUS
  <2>3. Less(tx, U)
    BY <1>0, <2>2, DoneLess
  <2>4. Narrow(tx, U)
    BY <1>0, <2>3, NarrowLess, NarrowSame
  <2>5. tx'.pq = U.pq /\ tx'.ring = U.ring /\ tx'.snd = U.snd /\ tx'.list = U.list /\ tx'.late \subseteq U.late
    BY <2>2 DEF LateTo, SamePath
  <2>6. Narrow(tx, tx')
    BY <2>4, <2>5 DEF Narrow, Frs
  <2> QED
    BY <1>3, <2>2, <2>6
<1>7. CASE Expire
  <2>1. PICK w \in WR : TimerExpire(w)
    BY <1>7 DEF Expire
  <2>2. PICK n \in Nat : ExpireTo(tx, w, n, timer'.taken, tx')
    BY <2>1, ExpireTx DEF Inv1
  <2>3. /\ tx'.late = tx.late /\ Frs(tx') = Frs(tx) /\ n <= Len(tx.list)
        /\ timer'.taken = SubSeq(tx.list, 1, n) /\ tx'.list = SubSeq(tx.list, n + 1, Len(tx.list))
        /\ tx'.snd[w] = Expired(tx.snd[w]) /\ \A v \in WR : v # w => tx'.snd[v] = tx.snd[v]
    BY <2>2 DEF ExpireTo, SamePath, Frs
  <2>4. Ran(timer'.taken) \subseteq Ran(tx.list)
    <3>1. \A k \in DOMAIN SubSeq(tx.list, 1, n) : k \in DOMAIN tx.list /\ SubSeq(tx.list, 1, n)[k] = tx.list[k]
      BY <1>0, <2>3
    <3> QED
      BY <2>3, <3>1 DEF Ran
  <2>5. Ran(tx'.list) \subseteq Ran(tx.list)
    <3>1. \A k \in DOMAIN SubSeq(tx.list, n + 1, Len(tx.list)) :
            n + k \in DOMAIN tx.list /\ SubSeq(tx.list, n + 1, Len(tx.list))[k] = tx.list[n + k]
      BY <1>0, <2>3, RestFacts
    <3> QED
      BY <2>3, <3>1 DEF Ran
  <2>6. Held1' \subseteq Held1
    BY <1>1, <2>3, <2>4, <2>5 DEF Held1, Refs
  <2>7. tx.snd[w] \in SndRec
    BY <1>0 DEF TxRec
  <2>8. tx'.snd[w].ep = tx.snd[w].ep
    BY <2>3, <2>7 DEF SndRec, Expired
  <2>9. \A v \in Held1 \cup {f[1] : f \in Frs(tx)} : tx'.snd[v].ep = tx.snd[v].ep
    BY <2>3, <2>8, HeldFacts, FrsTyped
  <2> QED
    BY <1>1, <1>2, <2>3, <2>6, <2>9, FrsTyped, EpochKeep DEF SameBinding
<1> QED
  BY <1>4, <1>5, <1>6, <1>7

\* The timeout work and the flushes.
LEMMA EpochTimer ==
  ASSUME Inv1, EpochInv, freed = FALSE, TimerStep \/ TimerFlush \/ ModifyFlush \/ QFlush \/ QStop
  PROVE  EpochInv'
<1>0. tx \in TxRec /\ conf \in Conf /\ qp \in QpRec /\ qz \in QzRec /\ timer \in TimerRec
  BY DEF Inv1, TxTypes, RailInv, RailTypes
<1>1. UNCHANGED <<conf, wk, poster, rail>>
  BY DEF TimerStep, TimerError, TimerComplete, TimerFlush, ModifyFlush, QFlush, QStop, FlushError, flushOthers, railVars
<1>2. CASE TimerError /\ UNCHANGED railVars
  <2>1. tx' = tx /\ qz' = qz /\ qp'.bound = qp.bound /\ qp'.ep = qp.ep /\ timer.pc = "err"
    BY <1>0, <1>2 DEF TimerError, QpRec, railVars
  <2>2. timer'.taken = timer.taken
    BY <1>0, <1>2 DEF TimerError, TimerRec
  <2>3. Exists
    BY <2>1 DEF Inv1, DestroyInv, Past2, Past
  <2>4. SameBinding
    BY <1>1, <2>1, <2>3 DEF SameBinding, Owned
  <2> QED
    BY <1>1, <2>1, <2>2, <2>4, NarrowSame, EpochNarrow
<1>3. CASE TimerComplete /\ UNCHANGED railVars
  <2>1. UNCHANGED <<qz, qp>> /\ timer' = IdleTimer
    BY <1>3 DEF TimerComplete, railVars
  <2>2. Ran(timer'.taken) = {}
    BY <2>1 DEF IdleTimer, Ran
  <2>3. Less(tx, tx')
    BY <1>3, LoopTx DEF Inv1
  <2>4. Narrow(tx, tx')
    BY <1>0, <2>3, NarrowLess, NarrowSame
  <2>5. SameBinding
    BY <1>1, <2>1 DEF SameBinding, Owned, Exists
  <2> QED
    BY <1>1, <2>2, <2>4, <2>5, EpochNarrow
<1>4. CASE TimerFlush \/ ModifyFlush
  <2>1. UNCHANGED <<qz, qp>> /\ tx' = Flush(tx)
    BY <1>4 DEF TimerFlush, ModifyFlush, FlushError, flushOthers
  <2>2. timer'.taken = timer.taken
    BY <1>0, <1>4 DEF TimerFlush, ModifyFlush, TimerRec
  <2>3. SameBinding
    BY <1>1, <2>1 DEF SameBinding, Owned, Exists
  <2> QED
    BY <1>1, <2>1, <2>2, <2>3, NarrowFlush, EpochNarrow
<1>5. CASE QFlush \/ QStop
  <2>1. UNCHANGED <<timer, qp>> /\ tx' = Flush(tx)
    BY <1>5 DEF QFlush, QStop, FlushError, flushOthers
  <2>2. qz'.pc # "end"
    BY <1>0, <1>5 DEF QFlush, QStop, QzRec
  <2>3. SameBinding
    BY <1>1, <2>1, <2>2 DEF SameBinding, Owned, Exists
  <2> QED
    BY <1>1, <2>1, <2>3, NarrowFlush, EpochNarrow
<1> QED
  BY <1>2, <1>3, <1>4, <1>5 DEF TimerStep

\* The barrier runs only while the binding stands.
LEMMA EpochBarrier ==
  ASSUME Inv1, PathInv, EpochInv, freed = FALSE, QBarrier
  PROVE  EpochInv'
<1>0. tx \in TxRec /\ conf \in Conf /\ qp \in QpRec /\ qz \in QzRec /\ rail \in RailRec
  BY DEF Inv1, TxTypes, RailInv, RailTypes
<1>1. UNCHANGED <<conf, wk, poster, timer, freed, qp>> /\ tx.ring # <<>>
  BY DEF QBarrier
<1>2. qp.bound = TRUE
  <2>1. Frs(tx) # {}
    BY <1>1, FrsEmpty
  <2> QED
    BY <1>0, <2>1 DEF PathInv, QpRec
<1>3. Narrow(tx, tx')
  <2>1. Less(RingEmptied(tx), tx') /\ RingEmptied(tx) \in TxRec
    BY <1>0, LoopTx, EmptiedTx DEF Inv1
  <2>2. /\ RingEmptied(tx).pq = tx.pq /\ RingEmptied(tx).ring = <<>> /\ RingEmptied(tx).snd = tx.snd
        /\ RingEmptied(tx).list = tx.list /\ RingEmptied(tx).late = tx.late
    BY <1>0, EmptiedTx DEF SameLists
  <2>3. Ran(<<>>) = {}
    BY DEF Ran
  <2>4. Narrow(tx, RingEmptied(tx))
    BY <2>2, <2>3 DEF Narrow, Frs
  <2> QED
    BY <2>1, <2>4, NarrowLess
<1>4. qz'.pc = "end" => qz'.err /\ rail'.stopped
  <2> PICK restart : restart = (~rail.removing /\ rail.reg)
    OBVIOUS
  <2>1. PICK fails \in {FALSE, restart /\ conf.badrestart} :
          /\ qz' = [qz EXCEPT !.pc = IF fails THEN "end" ELSE "refs", !.barrier = TRUE, !.restart = restart, !.err = fails]
          /\ rail' = [rail EXCEPT !.stopped = ~restart \/ fails]
    BY DEF QBarrier
  <2>2. qz'.pc = (IF fails THEN "end" ELSE "refs") /\ qz'.err = fails /\ rail'.stopped = (~restart \/ fails)
    BY <1>0, <2>1 DEF QzRec, RailRec
  <2> QED
    BY <2>2
<1>5. Held1' \subseteq Held1 /\ {f[1] : f \in Frs(tx)} \subseteq Held1 /\ Held1 \subseteq WR
  <2>1. {f[1] : f \in Frs(tx')} \subseteq {f[1] : f \in Frs(tx)}
    BY <1>3 DEF Narrow
  <2>2. Held1' \subseteq Held1
    BY <1>1, <1>3, <2>1 DEF Held1, Refs, Narrow
  <2> QED
    BY <2>2, HeldFacts, FrsTyped
<1>6. CASE conf.deadline
  BY <1>1, <1>6 DEF EpochInv
<1>7. CASE ~conf.deadline
  <2>1. /\ \A f \in Frs(tx) : tx.snd[f[1]].ep = qp.ep
        /\ \A v \in Held1 : tx.snd[v].ep = qp.ep
    BY <1>7 DEF EpochInv
  <2>2. \A v \in WR : tx'.snd[v].ep = tx.snd[v].ep
    BY <1>3 DEF Narrow
  <2>3. \A v \in Held1' : tx'.snd[v].ep = qp'.ep
    BY <1>1, <1>5, <2>1, <2>2
  <2>4. \A f \in Frs(tx') : tx'.snd[f[1]].ep = qp'.ep
    <3>1. \A f \in Frs(tx') : f[1] \in Held1
      BY <1>3, <1>5 DEF Narrow
    <3> QED
      BY <1>1, <1>5, <2>1, <2>2, <3>1
  <2> QED
    BY <1>1, <1>2, <1>4, <2>3, <2>4 DEF EpochInv
<1> QED
  BY <1>6, <1>7

\* The wait for the references, and what follows from its outcome.
LEMMA EpochWait ==
  ASSUME Inv1, EpochInv, freed = FALSE, QRefs(RxHolds) \/ QEnd
  PROVE  EpochInv'
<1>0. tx \in TxRec /\ conf \in Conf /\ qp \in QpRec /\ qz \in QzRec /\ rail \in RailRec
  BY DEF Inv1, TxTypes, RailInv, RailTypes
<1>1. UNCHANGED <<conf, tx, wk, poster, timer, freed>>
  BY DEF QRefs, QEnd, txVars
<1>2. Held1' = Held1
  BY <1>1 DEF Held1, Refs
<1>3. CASE conf.deadline
  BY <1>1, <1>3 DEF EpochInv
<1>4. CASE ~conf.deadline
  <2>1. /\ \A f \in Frs(tx) : tx.snd[f[1]].ep = qp.ep
        /\ \A v \in Held1 : tx.snd[v].ep = qp.ep
        /\ Exists /\ qp.bound = FALSE => (rail.st = "QUARANTINED" /\ rail.stopped) \/ Held1 = {}
        /\ Owned /\ qz.pc = "end" => qz.err \/ Held1 = {}
        /\ Owned /\ qz.pc = "end" /\ qz.err => rail.stopped
    BY <1>4 DEF EpochInv
  <2>2. CASE QRefs(RxHolds)
    <3>1. /\ qz.pc = "refs" /\ UNCHANGED <<qp, rail>> /\ (qz.owner = 0 \/ (Contexts(qz.owner) = {} /\ ~RxHolds))
          /\ qz' = [qz EXCEPT !.pc = "end", !.err = qz.owner # 0 /\ ~(Contexts(qz.owner) = {} /\ ~RxHolds)]
      BY <1>4, <2>2 DEF QRefs
    <3>2. qz'.err = FALSE /\ qz'.owner = qz.owner
      BY <1>0, <3>1 DEF QzRec
    <3>3. qz.owner # 0 => Held1 = {}
      <4>1. ASSUME qz.owner # 0 PROVE Held1 = {}
        <5>1. qz.owner = qp.inc
          BY <3>1, <4>1 DEF Inv1, RailInv, QuiesceInv, Owned
        <5> QED
          BY <3>1, <4>1, <5>1, HeldFacts
      <4> QED
        BY <4>1
    <3>4. Owned' => Held1' = {}
      BY <1>2, <3>2, <3>3 DEF Owned
    <3> QED
      BY <1>1, <1>2, <2>1, <3>1, <3>2, <3>4 DEF EpochInv, Exists
  <2>3. CASE QEnd
    <3> PICK clean : clean = (~qz.err /\ ~(qz.barrier /\ qz.restart))
      OBVIOUS
    <3> PICK st : st = IF ~clean THEN "QUARANTINED" ELSE IF qz.wasq THEN rail.st ELSE "UNBOUND"
      OBVIOUS
    <3>1. qz.pc = "end" /\ qz' = IdleQz /\ rail'.st = st /\ rail'.stopped = rail.stopped
      BY <1>0, <2>3 DEF QEnd, RailRec
    <3>2. ~Owned'
      BY <3>1 DEF Owned, IdleQz
    <3>3. qp'.ep = qp.ep /\ (Exists' => Exists)
      BY <1>0, <2>3 DEF QEnd, Exists, QpRec
    <3>4. Exists' /\ qp'.bound = FALSE => (rail'.st = "QUARANTINED" /\ rail'.stopped) \/ Held1' = {}
      <4>1. CASE qz.owner = 0
        <5>1. qp' = qp
          BY <2>3, <4>1 DEF QEnd
        <5>2. rail.st = "QUARANTINED" => rail'.st = "QUARANTINED"
          BY <3>1 DEF Inv1, RailInv, QuiesceInv
        <5> QED
          BY <1>2, <2>1, <3>1, <3>3, <5>1, <5>2
      <4>2. CASE qz.owner # 0
        <5>1. qz.err \/ Held1 = {}
          BY <2>1, <3>1, <4>2 DEF Owned
        <5>2. qz.err => rail'.st = "QUARANTINED" /\ rail'.stopped
          BY <2>1, <3>1, <4>2 DEF Owned
        <5> QED
          BY <1>2, <5>1, <5>2
      <4> QED
        BY <4>1, <4>2
    <3> QED
      BY <1>1, <1>2, <2>1, <3>2, <3>3, <3>4 DEF EpochInv
  <2> QED
    BY <2>2, <2>3
<1> QED
  BY <1>3, <1>4

\* The other stages of the quiesce.
LEMMA EpochQuiesce ==
  ASSUME Inv1, EpochInv, freed = FALSE,
         (\E t \in {"user", "wd", "rm"} : QClose(t)) \/ QMark \/ QCancelWorker \/ QCancel \/ QDrained
  PROVE  EpochInv'
<1>0. tx \in TxRec /\ conf \in Conf /\ qp \in QpRec /\ qz \in QzRec /\ rail \in RailRec
  BY DEF Inv1, TxTypes, RailInv, RailTypes
<1>1. UNCHANGED <<conf, wk, poster, timer>>
  BY DEF QClose, QMark, QCancelWorker, QCancel, QDrained, txVars
<1>2. qz'.pc # "end"
  BY <1>0 DEF QClose, QMark, QCancelWorker, QCancel, QDrained, QzRec, IdleQz
<1>3. qp'.ep = qp.ep /\ qp'.bound = qp.bound
  BY <1>0 DEF QClose, QMark, QCancelWorker, QCancel, QDrained, QpRec
<1>4. Exists' => Exists
  <2>1. CASE QMark
    BY <2>1 DEF QMark, Inv1, RailInv, QuiesceInv, Owned
  <2>2. CASE ~QMark
    BY <2>2 DEF QClose, QCancelWorker, QCancel, QDrained, Exists
  <2> QED
    BY <2>1, <2>2
<1>5. rail.st = "QUARANTINED" => rail'.st = "QUARANTINED" /\ rail'.stopped = rail.stopped
  BY <1>0 DEF QClose, QMark, QCancelWorker, QCancel, QDrained, RailRec
<1>6. SameBinding
  BY <1>2, <1>3, <1>4, <1>5 DEF SameBinding
<1>7. Narrow(tx, tx')
  <2>1. CASE QCancel
    <3>1. Less(PqEmptied(tx), tx') /\ PqEmptied(tx) \in TxRec
      BY <1>0, <2>1, LoopTx, EmptiedTx DEF Inv1
    <3>2. /\ PqEmptied(tx).pq = <<>> /\ PqEmptied(tx).ring = tx.ring /\ PqEmptied(tx).snd = tx.snd
          /\ PqEmptied(tx).list = tx.list /\ PqEmptied(tx).late = tx.late
      BY <1>0, EmptiedTx DEF SameLists
    <3>3. Ran(<<>>) = {}
      BY DEF Ran
    <3>4. Narrow(tx, PqEmptied(tx))
      BY <3>2, <3>3 DEF Narrow, Frs
    <3> QED
      BY <3>1, <3>4, NarrowLess
  <2>2. CASE ~QCancel
    <3>1. tx' = tx
      BY <2>2 DEF QClose, QMark, QCancelWorker, QDrained, txVars
    <3> QED
      BY <3>1, NarrowSame
  <2> QED
    BY <2>1, <2>2
<1> QED
  BY <1>1, <1>6, <1>7, EpochNarrow

\* Nothing is held: an epoch may begin, or the queue pair may go.
LEMMA EpochEmpty ==
  ASSUME conf' = conf, Held1' = {}, Frs(tx') = {}, ~Owned'
  PROVE  EpochInv'
  BY DEF EpochInv

\* A binding begins where nothing is held.
LEMMA EpochBind ==
  ASSUME Inv1, PathInv, EpochInv, freed = FALSE, Bind
  PROVE  EpochInv'
<1>0. tx \in TxRec /\ conf \in Conf /\ qp \in QpRec /\ qz \in QzRec /\ rail \in RailRec /\ user \in UserRec
  BY DEF Inv1, TxTypes, RailInv, RailTypes
<1>1. UNCHANGED <<conf, tx, wk, poster, timer, freed, qz>> /\ user.pc = "bind"
  BY DEF Bind, txVars
<1>2. Exists
  BY <1>1 DEF Inv1, RailInv, BindInv
<1>3. CASE qp'.ep = qp.ep /\ qp'.bound = qp.bound /\ rail'.st = rail.st /\ rail'.stopped = rail.stopped
  <2>1. SameBinding
    BY <1>1, <1>2, <1>3 DEF SameBinding, Owned
  <2> QED
    BY <1>1, <2>1, NarrowSame, EpochNarrow
<1>4. CASE qp.bound
  <2>1. qp'.ep = qp.ep /\ qp'.bound = qp.bound /\ rail'.st = rail.st /\ rail'.stopped = rail.stopped
    BY <1>0, <1>4 DEF Bind, QpRec, RailRec, ReleaseTunnel
  <2> QED
    BY <1>3, <2>1
<1>5. CASE ~qp.bound /\ ~Admitted(user.next = "RTR")
  <2>1. qp'.ep = qp.ep /\ qp'.bound = qp.bound /\ rail'.st = rail.st /\ rail'.stopped = rail.stopped
    BY <1>0, <1>5 DEF Bind, QpRec, RailRec, ReleaseTunnel
  <2> QED
    BY <1>3, <2>1
<1>6. CASE ~qp.bound /\ Admitted(user.next = "RTR")
  <2>1. rail.st = "UNBOUND" \/ ~rail.stopped
    BY <1>6 DEF Admitted, Silent
  <2>2. ~Owned
    BY <1>1, <1>6 DEF Inv1, RailInv, QuiesceInv
  <2>3. qp.bound = FALSE
    BY <1>0, <1>6 DEF QpRec
  <2>4. CASE conf.deadline
    BY <1>1, <2>4 DEF EpochInv
  <2>5. CASE ~conf.deadline
    <3>1. Held1 = {}
      BY <1>2, <2>1, <2>3, <2>5 DEF EpochInv
    <3>2. Frs(tx) = {}
      BY <2>3 DEF PathInv
    <3>3. Held1' = {} /\ Frs(tx') = {} /\ ~Owned'
      BY <1>1, <2>2, <3>1, <3>2 DEF Held1, Refs, Owned
    <3> QED
      BY <1>1, <3>3, EpochEmpty
  <2> QED
    BY <2>4, <2>5
<1> QED
  BY <1>4, <1>5, <1>6

\* create, modify and destroy, the watchdog, rail removal and the receive side.
LEMMA EpochRail ==
  ASSUME Inv1, PathInv, EpochInv, freed = FALSE,
         Create \/ Modify \/ Commit \/ ModifyJoin \/ ModifyEnd \/ Destroy \/ Destroyed \/ Watchdog \/ RemoveRail
         \/ RxCheck \/ RxLookup \/ RxDeliver \/ PostRecv \/ UNCHANGED vars
  PROVE  EpochInv'
<1>0. tx \in TxRec /\ qp \in QpRec /\ qz \in QzRec /\ rail \in RailRec /\ user \in UserRec
  BY DEF Inv1, TxTypes, RailInv, RailTypes
<1>1. CASE Create
  <2>1. UNCHANGED <<conf, wk, poster, timer, qz>> /\ ~Exists
    BY <1>1 DEF Create, CreateQp
  <2>2. tx'.pq = tx.pq /\ tx'.ring = tx.ring /\ tx'.list = tx.list /\ tx'.late = tx.late
    BY <1>1, CreateTx DEF Create, Inv1, SamePath, SameLists
  <2>3. tx.list = <<>> /\ tx.late = {} /\ tx.pq = <<>> /\ tx.ring = <<>> /\ timer.taken = <<>> /\ wk.ref = FALSE
    BY <2>1 DEF Inv1, DestroyInv, Past1, Past2, Past3, Past4, Past, TxTypes
  <2>4. poster.pc = "idle" /\ ~Owned
    BY <2>1 DEF Inv1, RailInv, BindInv, QuiesceInv, IdlePoster
  <2>5. Ran(<<>>) = {}
    BY DEF Ran
  <2>6. Frs(tx') = {}
    BY <2>2, <2>3, <2>5 DEF Frs
  <2>7. Held1' = {} /\ ~Owned'
    BY <2>1, <2>2, <2>3, <2>4, <2>5, <2>6 DEF Held1, Refs, Owned
  <2> QED
    BY <2>1, <2>6, <2>7, EpochEmpty
<1>2. CASE Destroyed
  <2>1. /\ UNCHANGED <<conf, tx, wk, poster, timer, qz>> /\ user.pc = "free" /\ Contexts(qp.inc) = {}
    BY <1>2 DEF Destroyed, DestroyFree, txVars
  <2>2. ~qp.bound /\ ~Owned
    BY <2>1 DEF Inv1, RailInv, UserInv, QuiesceInv
  <2>3. Held1 = {} /\ Frs(tx) = {}
    BY <2>1, <2>2, HeldFacts DEF PathInv
  <2>4. Held1' = {} /\ Frs(tx') = {} /\ ~Owned'
    BY <2>1, <2>2, <2>3 DEF Held1, Refs, Owned
  <2> QED
    BY <2>1, <2>4, EpochEmpty
<1>3. CASE Modify \/ Commit \/ ModifyJoin \/ Destroy \/ Watchdog \/ RemoveRail
           \/ RxCheck \/ RxLookup \/ RxDeliver \/ PostRecv \/ UNCHANGED vars
  <2>1. UNCHANGED <<conf, tx, wk, poster, timer, qz>>
    BY <1>3 DEF Modify, ModifyUp, ModifyDown, Commit, ModifyJoin, Destroy, DestroyQp, Watchdog, WatchdogFail,
                RemoveRail, RemoveStart, RxCheck, RxLookup, RxDeliver, PostRecv, rxOthers, vars, railVars, txVars
  <2>2. qp'.bound = qp.bound /\ qp'.ep = qp.ep
    BY <1>0, <1>3 DEF Modify, ModifyUp, ModifyDown, Commit, ModifyJoin, Destroy, DestroyQp, Watchdog, WatchdogFail,
                RemoveRail, RemoveStart, RxCheck, RxLookup, RxDeliver, PostRecv, rxOthers, vars, QpRec
  <2>3. rail'.st = rail.st /\ rail'.stopped = rail.stopped
    BY <1>0, <1>3 DEF Modify, ModifyUp, ModifyDown, Commit, ModifyJoin, Destroy, DestroyQp, Watchdog, WatchdogFail,
                RemoveRail, RemoveStart, RxCheck, RxLookup, RxDeliver, PostRecv, rxOthers, vars, railVars, RailRec,
                EnsureTunnel, ReleaseTunnel
  <2>4. Exists' => Exists
    <3>1. CASE Commit
      BY <3>1 DEF Commit, Inv1, RailInv, BindInv
    <3>2. CASE ~Commit
      BY <1>0, <1>3, <3>2 DEF Modify, ModifyUp, ModifyDown, ModifyJoin, Destroy, DestroyQp, Watchdog, WatchdogFail,
                RemoveRail, RemoveStart, RxCheck, RxLookup, RxDeliver, PostRecv, rxOthers, vars, QpRec, Exists, Live
    <3> QED
      BY <3>1, <3>2
  <2>5. SameBinding
    BY <2>1, <2>2, <2>3, <2>4 DEF SameBinding, Owned
  <2> QED
    BY <2>1, <2>5, NarrowSame, EpochNarrow
<1>4. CASE ModifyEnd
  <2>1. UNCHANGED <<conf, tx, wk, poster, timer, qz>> /\ user.pc = "end"
    BY <1>4 DEF ModifyEnd, txVars
  <2>2. ~qp.bound /\ Exists
    BY <2>1 DEF Inv1, RailInv, UserInv, BindInv
  <2>3. rail'.st = rail.st /\ rail'.stopped = rail.stopped
    BY <1>0, <1>4, <2>2 DEF ModifyEnd, RailRec, ReleaseTunnel
  <2>4. qp'.bound = qp.bound /\ qp'.ep = qp.ep
    BY <1>0, <1>4, <2>2 DEF ModifyEnd, QpRec
  <2>5. SameBinding
    BY <2>1, <2>2, <2>3, <2>4 DEF SameBinding, Owned
  <2> QED
    BY <2>1, <2>5, NarrowSame, EpochNarrow
<1> QED
  BY <1>1, <1>2, <1>3, <1>4

\* Every step keeps EpochInv.
LEMMA EpochStep ==
  ASSUME Inv1, PathInv, EpochInv, [Next]_vars
  PROVE  EpochInv'
<1>1. CASE UNCHANGED vars
  <2>1. UNCHANGED <<conf, tx, wk, poster, timer, freed, qp, rail, qz>>
    BY <1>1 DEF vars, railVars
  <2> QED
    BY <2>1 DEF EpochInv, Held1, Refs, Exists, Owned
<1>2. CASE Next
  <2>0. freed = FALSE
    BY <1>2 DEF Next, Inv1, TxTypes
  <2>1. CASE Post \/ PostStep
    BY <2>0, <2>1, EpochPost
  <2>2. CASE Worker
    BY <2>0, <2>2, EpochWorker
  <2>3. CASE Path \/ Nhi \/ Late \/ Expire
    BY <2>0, <2>3, EpochMoves
  <2>4. CASE TimerStep \/ TimerFlush \/ ModifyFlush \/ QFlush \/ QStop
    BY <2>0, <2>4, EpochTimer
  <2>5. CASE Barrier
    BY <2>0, <2>5, EpochBarrier DEF Barrier
  <2>6. CASE QRefs(RxHolds) \/ QEnd
    BY <2>0, <2>6, EpochWait
  <2>7. CASE (\E t \in {"user", "wd", "rm"} : QClose(t)) \/ QMark \/ QCancelWorker \/ QCancel \/ QDrained
    BY <2>0, <2>7, EpochQuiesce
  <2>8. CASE Bind
    BY <2>0, <2>8, EpochBind
  <2>9. CASE Create \/ Modify \/ Commit \/ ModifyJoin \/ ModifyEnd \/ Destroy \/ Destroyed \/ Watchdog \/ RemoveRail
             \/ RxCheck \/ RxLookup \/ RxDeliver \/ PostRecv
    BY <2>0, <2>9, EpochRail
  <2> QED
    BY <1>2, <2>1, <2>2, <2>3, <2>4, <2>5, <2>6, <2>7, <2>8, <2>9 DEF Next, Quiesce, ModifyStep
<1> QED
  BY <1>1, <1>2

\* Initially it holds.
LEMMA EpochInit == Init => EpochInv
<1> SUFFICES ASSUME Init PROVE EpochInv
  OBVIOUS
<1>1. /\ tx.pq = <<>> /\ tx.ring = <<>> /\ tx.list = <<>> /\ tx.late = {} /\ timer.taken = <<>>
      /\ wk.ref = FALSE /\ poster.pc = "idle" /\ qz.pc = "idle"
  BY DEF Init, TxInit, IdleWorker, IdleQz, IdlePoster, IdleTimer
<1>2. Ran(<<>>) = {}
  BY DEF Ran
<1>3. Frs(tx) = {}
  BY <1>1, <1>2 DEF Frs
<1>4. Held1 = {}
  BY <1>1, <1>2, <1>3 DEF Held1, Refs
<1> QED
  BY <1>1, <1>3, <1>4 DEF EpochInv, Owned

-----------------------------------------------------------------------------
(* The path has one owner.                                                 *)

AppleInv == Inv1 /\ SendInv /\ PathInv /\ EpochInv

\* Initially the invariant holds ...
LEMMA AppleInvInit == Init => AppleInv
  BY Inv1Init, SendInit, PathInit, EpochInit DEF AppleInv

\* ... and every step keeps it.
LEMMA AppleInvStep == AppleInv /\ [Next]_vars => AppleInv'
  BY Inv1Step, SendStep, PathStep, EpochStep DEF AppleInv

\* What is on the path are the frames of the ring and of the queue.
LEMMA OnPathFrs ==
  ASSUME Inv1
  PROVE  /\ \A k \in DOMAIN OnPath : OnPath[k] \in Frs(tx) /\ OnPath[k][1] \in WR
         /\ Frs(tx) = {} => OnPath = <<>>
<1>1. tx.pq \in Seq(FrameRec) /\ tx.ring \in Seq(FrameRec)
  BY DEF Inv1, TxTypes, TxRec
<1> PICK q \in Seq(FrameRec), r \in Seq(FrameRec) : q = tx.pq /\ r = tx.ring
  BY <1>1
<1> PICK n \in Nat, m \in Nat : n = Len(q) /\ m = Len(r)
  OBVIOUS
<1> PICK P : P = r \o q
  OBVIOUS
<1>2. /\ P \in Seq(FrameRec) /\ Len(P) = m + n
      /\ \A k \in 1..m : P[k] = r[k]
      /\ \A k \in 1..n : P[m + k] = q[k]
  BY ONLY ConcatFacts, q \in Seq(FrameRec), r \in Seq(FrameRec), n \in Nat, n = Len(q), m = Len(r), P = r \o q
<1>3. ASSUME NEW k \in DOMAIN P PROVE P[k] \in Ran(q) \cup Ran(r)
  <2>1. k \in 1..(m + n)
    BY ONLY <1>2, k \in DOMAIN P
  <2>2. CASE k <= m
    <3>1. k \in 1..m
      BY ONLY <2>1, <2>2, m \in Nat, n \in Nat
    <3>2. k \in DOMAIN r /\ P[k] = r[k]
      BY <1>2, <3>1
    <3> QED
      BY <3>2 DEF Ran
  <2>3. CASE k > m
    <3>1. k - m \in 1..n /\ m + (k - m) = k
      BY ONLY <2>1, <2>3, m \in Nat, n \in Nat
    <3> PICK j \in 1..n : j = k - m /\ m + j = k
      BY <3>1
    <3>2. k - m \in DOMAIN q /\ P[k] = q[k - m]
      BY ONLY <1>2, j \in 1..n, j = k - m, m + j = k, n = Len(q), q \in Seq(FrameRec)
    <3> QED
      BY <3>2 DEF Ran
  <2>4. k \in Nat
    BY <2>1
  <2> QED
    BY <2>2, <2>3, <2>4
<1>4. \A k \in DOMAIN P : P[k][1] \in WR
  <2>1. \A k \in DOMAIN P : P[k] \in FrameRec
    BY ONLY <1>2
  <2> QED
    BY <2>1 DEF FrameRec
<1>5. OnPath = P
  BY DEF OnPath
<1>6. Frs(tx) = {} => OnPath = <<>>
  <2>1. Frs(tx) = {} => tx.pq = <<>> /\ tx.ring = <<>>
    BY FrsEmpty
  <2> QED
    BY <1>1, <2>1 DEF OnPath
<1> QED
  BY <1>3, <1>4, <1>5, <1>6 DEF Frs

\* The type invariant follows.
LEMMA AppleTypes == ASSUME AppleInv PROVE TypeOK
<1> USE DEF AppleInv
<1>0. /\ conf \in Conf /\ qp \in QpRec /\ rail \in RailRec /\ poster \in PosterRec /\ tx \in TxRec /\ wk \in WkRec
      /\ freed \in BOOLEAN /\ kicked \in BOOLEAN
  BY DEF Inv1, RailInv, RailTypes, TxTypes
<1>1. rail.qp \in 0..MaxQp /\ rail.tunqps = IF qp.tun THEN 1 ELSE 0
  BY <1>0, SizeAssumption DEF Inv1, RailInv, BindInv, QpRec
<1>2. tx.wrs \in 0..MaxWr
  <2> PICK S : S = WinSet(qp.inc, tx)
    OBVIOUS
  <2>1. S \subseteq WR
    BY DEF WinSet
  <2>2. Cardinality(S) \in Nat /\ Cardinality(S) <= MaxWr /\ (wk.w \in WR /\ wk.w \notin S => Cardinality(S) + 1 <= MaxWr)
    BY <2>1, CardOut
  <2>3. Holding = 1 => wk.w \in WR /\ wk.w \notin S
    <3> SUFFICES ASSUME Holding = 1 PROVE wk.w \in WR /\ wk.w \notin S
      OBVIOUS
    <3>1. wk.pc \in {"reserve", "set"}
      BY DEF Holding
    <3>2. wk.w \in WR
      BY <3>1 DEF Inv1, TxTypes
    <3>3. wk.w \in Early
      BY <3>1, <3>2 DEF Early, EarlyPc
    <3>4. Clean(tx, wk.w)
      BY <3>3 DEF SendInv, AccInv, Acc
    <3> QED
      BY <3>2, <3>4 DEF Clean, WinSet
  <2>4. tx.wrs = IF TakesWr THEN Cardinality(S) + Holding ELSE 0
    BY DEF SendInv, AccInv, Acc, WrsOK
  <2>5. Holding = 0 \/ Holding = 1
    BY DEF Holding
  <2> PICK c \in Nat : c = Cardinality(S)
    BY <2>2
  <2>6. (IF TakesWr THEN c + Holding ELSE 0) \in 0..MaxWr
    <3>1. CASE Holding = 0
      BY <2>2, <3>1, SizeAssumption
    <3>2. CASE Holding = 1
      BY <2>2, <2>3, <3>2, SizeAssumption
    <3> QED
      BY <2>5, <3>1, <3>2
  <2> QED
    BY <2>4, <2>6
<1>3. tx.out \in 0..conf.slots
  <2> PICK S : S = CntSet(qp.inc, tx)
    OBVIOUS
  <2>1. S \subseteq WR
    BY DEF CntSet
  <2>2. Cardinality(S) \in Nat
    BY <2>1, CardOut
  <2>3. tx.out = Cardinality(S) /\ tx.out <= conf.slots
    BY DEF SendInv, AccInv, Acc, OutOK, WindowInv
  <2>4. conf.slots \in Nat
    BY <1>0, ConfFacts
  <2> QED
    BY ONLY <2>2, <2>3, <2>4
<1>4. ASSUME NEW w \in WR PROVE tx.snd[w].left \in 0..conf.len[w]
  <2>1. tx.pq \in Seq(FrameRec) /\ tx.ring \in Seq(FrameRec) /\ Unposted \in [WR -> Nat] /\ conf.len[w] \in Nat
        /\ tx.snd[w] \in SndRec
    BY SendTypes
  <2> PICK a \in Nat, b \in Nat : a = FramesOf(tx.pq, w) /\ b = FramesOf(tx.ring, w)
    BY <2>1, CountFacts
  <2> PICK h \in Nat, l \in Int, n \in Nat : h = Unposted[w] /\ l = tx.snd[w].left /\ n = conf.len[w]
    BY <2>1 DEF SndRec
  <2>2. l >= a + b + h /\ l <= n
    BY DEF SendInv, AccInv, Acc, LeftOK, WindowInv
  <2> QED
    BY ONLY <2>2, a \in Nat, b \in Nat, h \in Nat, l \in Int, n \in Nat, l = tx.snd[w].left, n = conf.len[w]
<1> QED
  BY <1>0, <1>1, <1>2, <1>3, <1>4 DEF TypeOK, QpRec, RailRec, PosterRec, WkRec

\* And so does that the path has one owner.
LEMMA AppleOwner == AppleInv => PathHasOneOwner
<1> SUFFICES ASSUME AppleInv PROVE PathHasOneOwner
  OBVIOUS
<1> USE DEF AppleInv
<1>1. /\ \A k \in DOMAIN OnPath : OnPath[k] \in Frs(tx) /\ OnPath[k][1] \in WR
      /\ Frs(tx) = {} => OnPath = <<>>
  BY OnPathFrs
<1>2. OneEpochOnPath
  <2> SUFFICES ASSUME rail.st = "BOUND", NEW k \in DOMAIN OnPath
               PROVE  /\ OnPath[k][2] = rail.ep
                      /\ ~conf.deadline => tx.snd[OnPath[k][1]].ep = rail.ep
    BY DEF OneEpochOnPath
  <2>1. rail.ep = qp.ep
    BY DEF Inv1, RailInv, BindInv
  <2>2. OnPath[k] \in Frs(tx)
    BY <1>1
  <2>3. \A f \in Frs(tx) : f[2] = qp.ep /\ (~conf.deadline => tx.snd[f[1]].ep = qp.ep)
    BY DEF PathInv, EpochInv
  <2> QED
    BY <2>1, <2>2, <2>3
<1>3. UnboundPathEmpty
  <2> SUFFICES ASSUME rail.qp = 0 PROVE OnPath = <<>>
    BY DEF UnboundPathEmpty
  <2>1. ~qp.bound
    BY DEF Inv1, RailInv, BindInv
  <2>2. Frs(tx) = {}
    BY <2>1 DEF PathInv
  <2> QED
    BY <1>1, <2>2
<1>4. OneMessageAtATime
  <2> SUFFICES ASSUME ~conf.pipeline, NEW j \in DOMAIN OnPath, NEW k \in DOMAIN OnPath,
                      ~tx.snd[OnPath[j][1]].done, ~tx.snd[OnPath[k][1]].done
               PROVE  OnPath[j][1] = OnPath[k][1]
    BY DEF OneMessageAtATime
  <2> PICK v \in WR, w \in WR : v = OnPath[j][1] /\ w = OnPath[k][1]
    BY <1>1
  <2>1. OnPath[j] \in Frs(tx) /\ OnPath[k] \in Frs(tx)
    BY <1>1
  <2>2. tx.snd[v].win /\ tx.snd[w].win
    BY <2>1 DEF SendInv, WindowInv
  <2>3. tx.snd[v].qp = qp.inc /\ tx.snd[w].qp = qp.inc
    BY <2>1 DEF Inv1, OwnInv, OwnT, Frs
  <2>4. v \in WinSet(qp.inc, tx) /\ w \in WinSet(qp.inc, tx)
    BY <2>2, <2>3 DEF WinSet
  <2> QED
    BY <2>4 DEF SendInv, WindowInv, Exclusive
<1> QED
  BY <1>2, <1>3, <1>4, AppleTypes DEF PathHasOneOwner

\* What is on the path is the bound queue pair's, of the binding's epoch, and one
\* message at a time without apple_tx_pipeline; the path of an unbound rail is empty.
THEOREM PathHasOneOwnerThm == Spec => []PathHasOneOwner
<1>1. AppleInv /\ UNCHANGED vars => AppleInv'
  BY AppleInvStep
<1> QED
  BY <1>1, AppleInvInit, AppleInvStep, AppleOwner, PTL DEF Spec
=============================================================================
