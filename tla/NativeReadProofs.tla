-------------------------- MODULE NativeReadProofs --------------------------
(***************************************************************************)
(* Proofs about NativeRead, for any reads, fragments, depths, retries and  *)
(* scenarios.  They are for behaviours in which no post is refused after a *)
(* flush has taken its read (RefusedInTime).                               *)
(***************************************************************************)
EXTENDS NativeRead, FiniteSetTheorems, SequenceTheorems, WellFoundedInduction, TLAPS

\* tbv_path_send_owned() refuses a read that is still on the list: in the other
\* case tbv_post_rdma_read() puts a reference that the flush has put already.
RefusedInTime == [][PostRefused => rd[post.r].pos = "list"]_vars

Ks == 0..(MaxFrags - 1)
ReadRec == [pos : {"none", "post", "list", "reap", "off"}, ready : BOOLEAN,
            status : {"none", "ok", "error"}, armed : BOOLEAN, tx : {"none", "queued", "sent"},
            got : 0..MaxFrags, buf : SUBSET Ks, data : [Ks -> Nat], since : Nat, slot : BOOLEAN,
            refs : Nat, res : {"none", "ok", "error", "timeout", "flush", "rejected"}]
CtxRec == [on : BOOLEAN, closing : BOOLEAN, armed : BOOLEAN, forced : BOOLEAN, sent : BOOLEAN,
           retries : 0..MaxRetries, refs : Nat, ver : Nat]
QpRec == [st : {"rts", "err", "gone"}, closing : BOOLEAN, refs : Nat, tw : BOOLEAN]
WorkStates == {"none", "queued", "queue", "send", "ok", "busy", "fail", "done"}
ReqFrame == [psn : Reads]
AckFrame == [psn : Reads, code : {"ok", "error", "retry"}]
DataFrame == [psn : Reads, k : Ks, ver : Nat]
StatFrame == [psn : Reads, ok : BOOLEAN]

\* The frames under way.
WireSet == [req : Seq(ReqFrame), ack : Seq(AckFrame), data : Seq(DataFrame), stat : Seq(StatFrame)]
EnvTypes == /\ conf \in Conf /\ mem \in Nat /\ wire \in WireSet
            /\ user \in [Ends -> {"idle", "stop", "flush", "wait"}]

\* The requester.
ATypes ==
  /\ rd \in [Reads -> ReadRec] /\ slots \in 0..Depth
  /\ post \in [pc : {"idle", "queue", "send"}, r : 0..MaxReads]
  /\ rx.pc \in {"idle", "handle"} /\ (rx.pc = "idle" => rx = IdleRx)
  /\ rx.pc = "handle" => rx.r \in Reads /\ rx.f \in DataFrame \cup StatFrame /\ rx.f.psn = rx.r
\* The responder.
BTypes ==
  /\ exp \in [psn : 1..(MaxReads + 1), held : SUBSET Reads]
  /\ work \in [Reads -> WorkStates] /\ ctx \in [Reads -> CtxRec]
  /\ tb \in [pc : {"idle", "send", "note"}, todo : SUBSET Reads, drop : SUBSET Reads,
             cur : 0..MaxReads, was : BOOLEAN, ret : {"none", "ok", "busy", "fail"}, need : BOOLEAN]

\* Reads are posted one by one; the one in the poster's hands was not sent.
PostOK ==
  /\ \E n \in 0..MaxReads : \A r \in Reads : rd[r].pos # "none" <=> r <= n
  /\ post.pc # "idle" => /\ post.r \in Reads /\ rd[post.r].tx = "none"
                         /\ rd[post.r].armed = FALSE
                         /\ \A r \in Reads : rd[r].pos # "none" => r <= post.r
  /\ post.pc = "send" => rd[post.r].pos \in {"list", "off"}
  /\ \A r \in Reads : rd[r].pos = "post" <=> post.pc = "queue" /\ post.r = r
\* A slot is held from the post to the end of the wait.
SlotOK ==
  \A r \in Reads : /\ rd[r].slot <=> rd[r].pos \in {"post", "list"}
                   /\ rd[r].pos = "none" => rd[r].refs = 0
\* The timer works on what it has taken, within the retries; a response is
\* listed once, when its work queues it.
TimerOK ==
  /\ tb.pc = "idle" => tb = IdleTb
  /\ tb.pc = "note" => tb.cur \in Reads /\ tb.cur \notin tb.todo
  /\ \A p \in Reads : p \in tb.todo \/ (tb.pc = "note" /\ tb.cur = p) => ctx[p].retries < MaxRetries
  /\ \A p \in Reads : work[p] \in {"none", "queued", "queue"} => ctx[p].on = FALSE
  /\ \A p \in Reads : work[p] \in {"none", "queued"} => ctx[p].refs = 0
\* No request is worked on before its turn.
TurnOK == \A p \in Reads : p >= exp.psn => work[p] = "none"
\* A queue pair is destroyed once.
GoneOK == \A e \in Ends : user[e] # "idle" => qp[e].st # "gone"

\* What is requested was posted, and has its length in the scenario.
LenOK ==
  /\ \A r \in Reads : rd[r].pos # "none" => r \in DOMAIN conf.len
  /\ \A i \in 1..Len(wire.req) : wire.req[i].psn \in DOMAIN conf.len
  /\ exp.held \subseteq DOMAIN conf.len
  /\ \A p \in Reads : work[p] # "none" => p \in DOMAIN conf.len

Live == {r \in Reads : rd[r].refs > 0}
Answering == {p \in Reads : ctx[p].refs > 0}
Working == {p \in Reads : work[p] \notin {"none", "done"}}
ARefs == /\ \A r \in Reads : rd[r].refs = ReadHolders(r)
         /\ qp["a"].refs = B(qp["a"].st # "gone") + B(rx.pc = "handle") + Cardinality(Live)
BRefs == /\ \A p \in Reads : ctx[p].refs = CtxHolders(p)
         /\ qp["b"].refs = B(qp["b"].st # "gone") + Cardinality(Answering) + Cardinality(Working)

EnvOK == EnvTypes /\ qp \in [Ends -> QpRec] /\ GoneOK
AOK == ATypes /\ PostOK /\ SlotOK /\ SlotsExact /\ ARefs
BOK == BTypes /\ TimerOK /\ TurnOK /\ BRefs
Inv == EnvOK /\ AOK /\ BOK /\ LenOK

-----------------------------------------------------------------------------
(* Counting and records.                                                   *)

\* Subsets of the reads are finite, and shrink and grow by what they lose and get.
LEMMA CountFacts ==
  /\ MaxReads \in Nat /\ MaxFrags \in Nat /\ Depth \in Nat /\ MaxRetries \in Nat
  /\ \A S \in SUBSET Reads : IsFiniteSet(S) /\ Cardinality(S) \in Nat
  /\ \A S, T \in SUBSET Reads : T \subseteq S => Cardinality(T) = Cardinality(S) - Cardinality(S \ T)
  /\ \A S \in SUBSET Reads : \A x \in Reads : x \notin S => Cardinality(S \cup {x}) = Cardinality(S) + 1
  /\ \A S \in SUBSET Reads : Cardinality(S) = 0 <=> S = {}
<1>1. MaxReads \in Nat /\ MaxFrags \in Nat /\ Depth \in Nat /\ MaxRetries \in Nat
  BY ReadAssumption
<1>2. IsFiniteSet(Reads)
  BY <1>1, FS_Interval DEF Reads
<1>3. \A S \in SUBSET Reads : IsFiniteSet(S) /\ Cardinality(S) \in Nat
  BY <1>2, FS_Subset, FS_CardinalityType
<1>4. ASSUME NEW S \in SUBSET Reads, NEW T \in SUBSET Reads, T \subseteq S
      PROVE  Cardinality(T) = Cardinality(S) - Cardinality(S \ T)
  <2>1. S \cap T = T /\ IsFiniteSet(S)
    BY <1>3, <1>4
  <2>2. Cardinality(S \ T) = Cardinality(S) - Cardinality(T)
    BY <1>3, <2>1, FS_Difference
  <2>3. Cardinality(S) \in Nat /\ Cardinality(T) \in Nat
    BY <1>3
  <2> QED
    BY ONLY <2>2, <2>3
<1>5. \A S \in SUBSET Reads : \A x \in Reads : x \notin S => Cardinality(S \cup {x}) = Cardinality(S) + 1
  BY <1>3, FS_AddElement
<1>6. \A S \in SUBSET Reads : Cardinality(S) = 0 <=> S = {}
  BY <1>3, FS_EmptySet
<1> QED
  BY <1>1, <1>3, <1>4, <1>5, <1>6

\* A read leaves its list, completed, with its transmission cancelled.
Ended(c, res) == PutRead(Complete(CancelTx([c EXCEPT !.pos = "off", !.slot = FALSE]), res))

\* Putting references keeps the record; nothing else changes.
LEMMA PutFacts ==
  ASSUME NEW c \in ReadRec, c.refs > 0
  PROVE  /\ PutRead(c) \in ReadRec /\ PutRead(c).refs = c.refs - 1
         /\ PutRead(c).pos = c.pos /\ PutRead(c).slot = c.slot /\ PutRead(c).tx = c.tx
         /\ PutRead(c).armed = c.armed /\ PutRead(c).ready = c.ready /\ PutRead(c).status = c.status
         /\ PutRead(c).res = c.res /\ PutRead(c).got = c.got /\ PutRead(c).buf = c.buf
         /\ PutRead(c).data = c.data /\ PutRead(c).since = c.since
BY DEF PutRead, ReadRec

\* Only the first completion counts, and it changes nothing else.
LEMMA CompleteFacts ==
  ASSUME NEW c \in ReadRec, NEW res \in {"ok", "error", "timeout", "flush", "rejected", "none"}
  PROVE  /\ Complete(c, res) \in ReadRec /\ Complete(c, res).refs = c.refs
         /\ Complete(c, res).pos = c.pos /\ Complete(c, res).slot = c.slot /\ Complete(c, res).tx = c.tx
         /\ Complete(c, res).armed = c.armed /\ Complete(c, res).ready = c.ready
         /\ Complete(c, res).status = c.status
         /\ Complete(c, res).res = (IF c.res = "none" THEN res ELSE c.res)
         /\ Complete(c, res).got = c.got /\ Complete(c, res).buf = c.buf
         /\ Complete(c, res).data = c.data /\ Complete(c, res).since = c.since
BY DEF Complete, ReadRec

\* A request that is still queued gives its reference back.
LEMMA CancelFacts ==
  ASSUME NEW c \in ReadRec, c.tx = "queued" => c.refs > 0
  PROVE  /\ CancelTx(c) \in ReadRec /\ CancelTx(c).refs = (IF c.tx = "queued" THEN c.refs - 1 ELSE c.refs)
         /\ CancelTx(c).pos = c.pos /\ CancelTx(c).slot = c.slot
         /\ CancelTx(c).tx = (IF c.tx = "queued" THEN "none" ELSE c.tx)
         /\ CancelTx(c).armed = c.armed /\ CancelTx(c).ready = c.ready
         /\ CancelTx(c).status = c.status /\ CancelTx(c).res = c.res
         /\ CancelTx(c).got = c.got /\ CancelTx(c).buf = c.buf
         /\ CancelTx(c).data = c.data /\ CancelTx(c).since = c.since
<1>1. CASE c.tx = "queued"
  <2> PICK d : d = [c EXCEPT !.tx = "none"]
    OBVIOUS
  <2>1. /\ d \in ReadRec /\ d.refs = c.refs /\ d.tx = "none" /\ d.pos = c.pos /\ d.slot = c.slot
        /\ d.armed = c.armed /\ d.ready = c.ready /\ d.status = c.status /\ d.res = c.res
        /\ d.got = c.got /\ d.buf = c.buf /\ d.data = c.data /\ d.since = c.since
    BY DEF ReadRec
  <2>2. CancelTx(c) = PutRead(d) /\ d.refs > 0
    BY <1>1, <2>1 DEF CancelTx
  <2>3. /\ PutRead(d) \in ReadRec /\ PutRead(d).refs = d.refs - 1
        /\ PutRead(d).pos = d.pos /\ PutRead(d).slot = d.slot /\ PutRead(d).tx = d.tx
        /\ PutRead(d).armed = d.armed /\ PutRead(d).ready = d.ready
        /\ PutRead(d).status = d.status /\ PutRead(d).res = d.res
        /\ PutRead(d).got = d.got /\ PutRead(d).buf = d.buf
        /\ PutRead(d).data = d.data /\ PutRead(d).since = d.since
    BY ONLY <2>1, <2>2, PutFacts
  <2> QED
    BY ONLY <1>1, <2>1, <2>2, <2>3
<1>2. CASE c.tx # "queued"
  <2>1. CancelTx(c) = c /\ c.refs \in Nat
    BY <1>2 DEF CancelTx, ReadRec
  <2> QED
    BY <1>2, <2>1
<1> QED
  BY <1>1, <1>2

\* A read leaves the list with its slot.
LEMMA OffFacts ==
  ASSUME NEW c \in ReadRec, NEW d, d = [c EXCEPT !.pos = "off", !.slot = FALSE]
  PROVE  /\ d \in ReadRec /\ d.refs = c.refs /\ d.pos = "off" /\ d.slot = FALSE /\ d.tx = c.tx
         /\ d.armed = c.armed /\ d.ready = c.ready /\ d.status = c.status /\ d.res = c.res
         /\ d.got = c.got /\ d.buf = c.buf /\ d.data = c.data /\ d.since = c.since
BY DEF ReadRec

\* A read that a flush or the reaper ends.
LEMMA EndedFacts ==
  ASSUME NEW c \in ReadRec, c.refs > 0, c.tx = "queued" => c.refs > 1,
         NEW res \in {"ok", "error", "timeout", "flush"}
  PROVE  /\ Ended(c, res) \in ReadRec /\ Ended(c, res).refs = (IF c.tx = "queued" THEN c.refs - 2 ELSE c.refs - 1)
         /\ Ended(c, res).pos = "off" /\ Ended(c, res).slot = FALSE
         /\ Ended(c, res).tx = (IF c.tx = "queued" THEN "none" ELSE c.tx)
         /\ Ended(c, res).armed = c.armed /\ Ended(c, res).ready = c.ready
         /\ Ended(c, res).status = c.status
         /\ Ended(c, res).res = (IF c.res = "none" THEN res ELSE c.res)
         /\ Ended(c, res).got = c.got /\ Ended(c, res).buf = c.buf
         /\ Ended(c, res).data = c.data /\ Ended(c, res).since = c.since
<1> PICK d : d = [c EXCEPT !.pos = "off", !.slot = FALSE]
  OBVIOUS
<1> PICK e : e = CancelTx(d)
  OBVIOUS
<1> PICK f : f = Complete(e, res)
  OBVIOUS
<1>0. c.refs \in Nat
  BY DEF ReadRec
<1>1. /\ d \in ReadRec /\ d.refs = c.refs /\ d.pos = "off" /\ d.slot = FALSE /\ d.tx = c.tx
      /\ d.armed = c.armed /\ d.ready = c.ready /\ d.status = c.status /\ d.res = c.res
      /\ d.got = c.got /\ d.buf = c.buf /\ d.data = c.data /\ d.since = c.since
  BY OffFacts
<1>2. /\ e \in ReadRec /\ e.refs = (IF d.tx = "queued" THEN d.refs - 1 ELSE d.refs)
      /\ e.pos = d.pos /\ e.slot = d.slot /\ e.tx = (IF d.tx = "queued" THEN "none" ELSE d.tx)
      /\ e.armed = d.armed /\ e.ready = d.ready /\ e.status = d.status /\ e.res = d.res
      /\ e.got = d.got /\ e.buf = d.buf /\ e.data = d.data /\ e.since = d.since
  BY <1>1, CancelFacts
<1>3. /\ f \in ReadRec /\ f.refs = e.refs /\ f.pos = e.pos /\ f.slot = e.slot /\ f.tx = e.tx
      /\ f.armed = e.armed /\ f.ready = e.ready /\ f.status = e.status
      /\ f.res = (IF e.res = "none" THEN res ELSE e.res)
      /\ f.got = e.got /\ f.buf = e.buf /\ f.data = e.data /\ f.since = e.since
  BY <1>2, CompleteFacts
<1>4. f.refs = (IF c.tx = "queued" THEN c.refs - 1 ELSE c.refs) /\ f.refs > 0
  BY <1>0, <1>1, <1>2, <1>3
<1>5. Ended(c, res) = PutRead(f)
  BY DEF Ended
<1>6. /\ PutRead(f) \in ReadRec /\ PutRead(f).refs = f.refs - 1
      /\ PutRead(f).pos = f.pos /\ PutRead(f).slot = f.slot /\ PutRead(f).tx = f.tx
      /\ PutRead(f).armed = f.armed /\ PutRead(f).ready = f.ready /\ PutRead(f).status = f.status
      /\ PutRead(f).res = f.res /\ PutRead(f).got = f.got /\ PutRead(f).buf = f.buf
      /\ PutRead(f).data = f.data /\ PutRead(f).since = f.since
  BY <1>3, <1>4, PutFacts
<1>7. PutRead(f).refs = (IF c.tx = "queued" THEN c.refs - 2 ELSE c.refs - 1)
  BY <1>0, <1>4, <1>6
<1> QED
  BY ONLY <1>1, <1>2, <1>3, <1>5, <1>6, <1>7

-----------------------------------------------------------------------------
(* The requester.                                                          *)

\* What the requester's invariant says of a read.
LEMMA ReadFacts ==
  ASSUME Inv
  PROVE  /\ rd \in [Reads -> ReadRec] /\ \A r \in Reads : rd[r] \in ReadRec /\ rd[r].refs \in Nat
         /\ \A r \in Reads : rd[r].refs = ReadHolders(r)
         /\ qp \in [Ends -> QpRec] /\ qp["a"] \in QpRec /\ qp["b"] \in QpRec
         /\ qp["a"].refs \in Nat /\ qp["b"].refs \in Nat /\ slots \in Nat
BY CountFacts DEF Inv, EnvOK, AOK, ATypes, ARefs, ReadRec, QpRec, Ends

\* A step of the responder or of the environment.
LEMMA AKept ==
  ASSUME Inv, UNCHANGED <<rd, slots, post, rx>>, qp'["a"].refs = qp["a"].refs,
         qp'["a"].st = "gone" <=> qp["a"].st = "gone"
  PROVE  AOK'
<1>1. B(qp'["a"].st # "gone") = B(qp["a"].st # "gone")
  BY DEF B
<1>2. \A r \in Reads : ReadHolders(r)' = ReadHolders(r)
  BY DEF ReadHolders
<1>3. Live' = Live
  BY DEF Live
<1> QED
  BY <1>1, <1>2, <1>3 DEF Inv, AOK, ATypes, PostOK, SlotOK, SlotsExact, ARefs, B

\* A step that ends or keeps reads, and begins none: slots and references
\* follow when each read has its holders.
LEMMA ReadsMoved ==
  ASSUME Inv, NEW R \in [Reads -> ReadRec], rd' = R,
         slots' = slots - Cardinality({r \in Reads : rd[r].slot /\ ~R[r].slot}),
         post' \in [pc : {"idle", "queue", "send"}, r : 0..MaxReads],
         rx'.pc \in {"idle", "handle"}, rx'.pc = "idle" => rx' = IdleRx,
         rx'.pc = "handle" => rx'.r \in Reads /\ rx'.f \in DataFrame \cup StatFrame /\ rx'.f.psn = rx'.r,
         PostOK', SlotOK',
         \A r \in Reads : R[r].refs > 0 => rd[r].refs > 0,
         \A r \in Reads : R[r].slot => rd[r].slot,
         \A r \in Reads : R[r].refs = ReadHolders(r)',
         qp'["a"].refs = qp["a"].refs - Cardinality(Freed(R)) - B(rx.pc = "handle") + B(rx'.pc = "handle"),
         qp'["a"].st = "gone" <=> qp["a"].st = "gone"
  PROVE  AOK' /\ qp'["a"].refs \in Nat
<1> PICK S, T : S = {r \in Reads : rd[r].slot} /\ T = {r \in Reads : R[r].slot}
  OBVIOUS
<1>1. S = {r \in Reads : rd[r].pos \in {"post", "list"}} /\ T = {r \in Reads : R[r].pos \in {"post", "list"}}
  BY DEF Inv, AOK, SlotOK
<1>2. T \subseteq S /\ S \in SUBSET Reads /\ T \in SUBSET Reads
      /\ S \ T = {r \in Reads : rd[r].slot /\ ~R[r].slot}
  OBVIOUS
<1>3. Cardinality(T) = Cardinality(S) - Cardinality(S \ T) /\ Cardinality(S) \in Nat
      /\ Cardinality(T) \in Nat /\ Cardinality(S \ T) \in Nat
  BY <1>2, CountFacts
<1>4. slots = Cardinality(S) /\ slots \in 0..Depth /\ Depth \in Nat
  BY <1>1, CountFacts DEF Inv, AOK, SlotsExact, ATypes
<1>5. slots' = Cardinality(T) /\ slots' \in 0..Depth
  <2>1. slots' = slots - Cardinality(S \ T)
    BY <1>2
  <2> QED
    BY ONLY <1>3, <1>4, <2>1
<1>6. Live' \subseteq Live /\ Live \ Live' = Freed(R) /\ Live \in SUBSET Reads /\ Live' \in SUBSET Reads
  <2>1. \A r \in Reads : R[r].refs \in Nat
    BY DEF ReadRec
  <2>2. Live' = {r \in Reads : R[r].refs > 0}
    BY DEF Live
  <2> QED
    BY <2>1, <2>2 DEF Live, Freed
<1>7. Cardinality(Live') = Cardinality(Live) - Cardinality(Freed(R)) /\ Cardinality(Live) \in Nat
      /\ Cardinality(Live') \in Nat /\ Cardinality(Freed(R)) \in Nat
  <2>1. Freed(R) \in SUBSET Reads
    BY DEF Freed
  <2> QED
    BY <1>6, <2>1, CountFacts
<1>8. /\ B(qp'["a"].st # "gone") = B(qp["a"].st # "gone") /\ B(qp["a"].st # "gone") \in {0, 1}
      /\ B(rx.pc = "handle") \in {0, 1} /\ B(rx'.pc = "handle") \in {0, 1}
  BY DEF B
<1>9. qp["a"].refs = B(qp["a"].st # "gone") + B(rx.pc = "handle") + Cardinality(Live)
  BY DEF Inv, AOK, ARefs
<1>10. qp'["a"].refs = B(qp'["a"].st # "gone") + B(rx'.pc = "handle") + Cardinality(Live')
       /\ qp'["a"].refs \in Nat
  <2> PICK a, b, c, d, e, f : /\ a = qp["a"].refs /\ b = B(qp["a"].st # "gone") /\ c = B(rx.pc = "handle")
                              /\ d = Cardinality(Live) /\ e = Cardinality(Freed(R)) /\ f = B(rx'.pc = "handle")
    OBVIOUS
  <2>1. a = b + c + d /\ b \in {0, 1} /\ c \in {0, 1} /\ d \in Nat /\ e \in Nat /\ f \in {0, 1} /\ d - e \in Nat
    BY <1>7, <1>8, <1>9
  <2>2. qp'["a"].refs = a - e - c + f
    OBVIOUS
  <2>3. a - e - c + f = b + f + (d - e) /\ a - e - c + f \in Nat
    BY ONLY <2>1
  <2> QED
    BY <1>7, <1>8, <2>2, <2>3
<1>11. \A r \in Reads : rd'[r].refs = ReadHolders(r)'
  OBVIOUS
<1> QED
  BY <1>1, <1>5, <1>10, <1>11 DEF AOK, ATypes, SlotsExact, ARefs, B

\* Nothing is freed or given back by a step that keeps the references.
LEMMA NothingFreed ==
  /\ Cardinality({}) = 0
  /\ \A R : (\A r \in Reads : R[r].refs > 0) => Freed(R) = {}
BY FS_EmptySet DEF Freed

\* tbv_post_rdma_read() begins a read.
LEMMA PostReserveA ==
  ASSUME Inv, PostReserve
  PROVE  AOK' /\ qp' \in [Ends -> QpRec]
<1> PICK n : n = NextRead
  OBVIOUS
<1> PICK c : c = [NoRead EXCEPT !.pos = "post", !.slot = TRUE, !.refs = 1, !.since = mem]
  OBVIOUS
<1>1. /\ post = IdlePost /\ n \in DOMAIN conf.len /\ slots < Depth
      /\ post' = [pc |-> "queue", r |-> n] /\ rd' = [rd EXCEPT ![n] = c] /\ slots' = slots + 1
      /\ qp' = [qp EXCEPT !["a"].refs = @ + 1] /\ UNCHANGED rx
      /\ qp["a"].st = "rts"
  BY DEF PostReserve, ReserveSendq, Receives
<1>2. /\ rd \in [Reads -> ReadRec] /\ \A r \in Reads : rd[r] \in ReadRec /\ rd[r].refs \in Nat
      /\ qp \in [Ends -> QpRec] /\ qp["a"].refs \in Nat /\ slots \in Nat
      /\ MaxReads \in Nat /\ MaxFrags \in Nat /\ Depth \in Nat
  BY ReadFacts, CountFacts
<1>3. n \in Reads /\ \A r \in Reads : rd[r].pos # "none" <=> r < n
  <2> PICK m \in 0..MaxReads : \A r \in Reads : rd[r].pos # "none" <=> r <= m
    BY DEF Inv, AOK, PostOK
  <2>1. {r \in Reads : rd[r].pos # "none"} = 1..m
    BY <1>2 DEF Reads
  <2>2. Cardinality(1..m) = m
    <3>1. m \in Nat
      OBVIOUS
    <3>2. Cardinality(1..m) = IF 1 > m THEN 0 ELSE m - 1 + 1
      BY <3>1, FS_Interval
    <3> QED
      BY <3>1, <3>2
  <2>3. n = m + 1
    BY <2>1, <2>2 DEF NextRead
  <2>4. n \in Reads
    <3>1. conf \in Conf
      BY DEF Inv, EnvOK, EnvTypes
    <3> PICK k \in 0..MaxReads : conf.len \in [1..k -> 0..MaxFrags]
      BY <3>1 DEF Conf
    <3>2. n \in 1..k
      BY <1>1
    <3> QED
      BY <1>2, <3>2 DEF Reads
  <2> QED
    BY <1>2, <2>3, <2>4 DEF Reads
<1>4. /\ c \in ReadRec /\ c.pos = "post" /\ c.slot = TRUE /\ c.refs = 1 /\ c.tx = "none"
      /\ c.armed = FALSE
  <2>1. mem \in Nat
    BY DEF Inv, EnvOK, EnvTypes
  <2> PICK D : D = [k \in 0..(MaxFrags - 1) |-> 0]
    OBVIOUS
  <2>2. D \in [Ks -> Nat] /\ 0 \in 0..MaxFrags
    BY <1>2 DEF Ks
  <2>3. c = [pos |-> "post", ready |-> FALSE, status |-> "none", armed |-> FALSE, tx |-> "none",
             got |-> 0, buf |-> {}, data |-> D, since |-> mem,
             slot |-> TRUE, refs |-> 1, res |-> "none"]
    BY DEF NoRead
  <2> QED
    BY ONLY <2>1, <2>2, <2>3 DEF ReadRec
<1>5. /\ rd' \in [Reads -> ReadRec] /\ rd'[n] = c /\ \A r \in Reads : r # n => rd'[r] = rd[r]
  BY <1>2, <1>3, <1>4, <1>1
<1>6. rd[n].pos = "none" /\ rd[n].refs = 0 /\ ReadHolders(n) = 0
  BY <1>2, <1>3, ReadFacts DEF Inv, AOK, SlotOK, Reads
<1>7. ~(rx.pc = "handle" /\ rx.r = n)
  BY <1>6 DEF ReadHolders, B
<1>8. \A r \in Reads : rd'[r].refs = ReadHolders(r)'
  <2> SUFFICES ASSUME NEW r \in Reads PROVE rd'[r].refs = ReadHolders(r)'
    OBVIOUS
  <2>1. CASE r = n
    BY <1>1, <1>4, <1>5, <1>7, <2>1 DEF ReadHolders, B
  <2>2. CASE r # n
    <3>1. rd[r].refs = ReadHolders(r)
      BY ReadFacts
    <3> QED
      BY <1>1, <1>5, <2>2, <3>1 DEF ReadHolders, B, IdlePost
  <2> QED
    BY <2>1, <2>2
<1>9. PostOK'
  <2>1. \A r \in Reads : rd'[r].pos # "none" <=> r <= n
    BY ONLY <1>2, <1>3, <1>4, <1>5 DEF Reads
  <2>2. \A r \in Reads : rd'[r].pos = "post" <=> r = n
    BY <1>1, <1>3, <1>4, <1>5 DEF Inv, AOK, PostOK, IdlePost
  <2>3. n \in 0..MaxReads
    BY <1>2, <1>3 DEF Reads
  <2> QED
    BY <1>1, <1>3, <1>4, <1>5, <2>1, <2>2, <2>3 DEF PostOK
<1>10. SlotOK'
  BY <1>4, <1>5 DEF Inv, AOK, SlotOK
<1>11. SlotsExact' /\ slots' \in 0..Depth
  <2> PICK S : S = {r \in Reads : rd[r].pos \in {"post", "list"}}
    OBVIOUS
  <2>1. S \in SUBSET Reads /\ n \notin S /\ slots = Cardinality(S)
    BY <1>6 DEF Inv, AOK, SlotsExact
  <2>2. {r \in Reads : rd'[r].pos \in {"post", "list"}} = S \cup {n}
    BY <1>3, <1>4, <1>5
  <2>3. Cardinality(S \cup {n}) = Cardinality(S) + 1
    BY <1>3, <2>1, CountFacts
  <2>4. slots' = Cardinality(S \cup {n}) /\ slots' \in 0..Depth
    BY <1>1, <1>2, <2>1, <2>3
  <2> QED
    BY <2>2, <2>4 DEF SlotsExact
<1>12. Cardinality(Live') = Cardinality(Live) + 1 /\ Cardinality(Live) \in Nat
  <2>1. Live \in SUBSET Reads /\ n \notin Live
    BY <1>6 DEF Live
  <2>2. Live' = Live \cup {n}
    <3>1. \A r \in Reads : rd'[r].refs > 0 <=> rd[r].refs > 0 \/ r = n
      BY ONLY <1>3, <1>4, <1>5
    <3> QED
      BY <1>3, <3>1 DEF Live
  <2> QED
    BY <1>3, <2>1, <2>2, CountFacts
<1>13. qp' \in [Ends -> QpRec] /\ qp'["a"].refs = qp["a"].refs + 1 /\ qp'["a"].st = qp["a"].st
  BY <1>1, <1>2 DEF Ends, QpRec
<1>14. qp'["a"].refs = B(qp'["a"].st # "gone") + B(rx'.pc = "handle") + Cardinality(Live')
  <2>1. qp["a"].refs = B(qp["a"].st # "gone") + B(rx.pc = "handle") + Cardinality(Live)
    BY DEF Inv, AOK, ARefs
  <2>2. B(qp'["a"].st # "gone") = B(qp["a"].st # "gone") /\ B(rx'.pc = "handle") = B(rx.pc = "handle")
        /\ B(qp["a"].st # "gone") \in Nat /\ B(rx.pc = "handle") \in Nat
    BY <1>1, <1>13 DEF B
  <2> PICK a, b, d : a = B(qp["a"].st # "gone") /\ b = B(rx.pc = "handle") /\ d = Cardinality(Live)
    OBVIOUS
  <2>3. a + b + d + 1 = a + b + (d + 1)
    BY <1>12, <2>2
  <2> QED
    BY <1>12, <1>13, <2>1, <2>2, <2>3
<1>15. post' \in [pc : {"idle", "queue", "send"}, r : 0..MaxReads]
  BY <1>1, <1>2, <1>3 DEF Reads
<1> QED
  BY <1>1, <1>5, <1>8, <1>9, <1>10, <1>11, <1>13, <1>14, <1>15 DEF Inv, AOK, ATypes, ARefs, B

InHands == {"post", "list", "reap"}
\* Holders of a read beside its place and its transmission.
Others(r) == B(post.pc = "send" /\ post.r = r) + B(rx.pc = "handle" /\ rx.r = r)
\* A read goes on to d, giving back x references beside those of its place and
\* of its transmission.
Moves(c, d, x) ==
  /\ d \in ReadRec
  /\ d.pos = "none" <=> c.pos = "none"
  /\ d.pos = "post" => c.pos = "post"
  /\ d.pos = "list" => c.pos = "list"
  /\ d.pos = "reap" => c.pos = "reap" \/ (c.pos = "list" /\ c.armed = TRUE)
  /\ d.slot <=> d.pos \in {"post", "list"}
  /\ d.tx # "none" => c.tx # "none"
  /\ d.armed = TRUE => c.armed = TRUE \/ c.tx # "none"
  /\ d.refs = c.refs - x - (B(c.pos \in InHands) - B(d.pos \in InHands))
                         - (B(c.tx # "none") - B(d.tx # "none"))

\* A step in which reads go on and threads leave.
LEMMA ReadsLeft ==
  ASSUME Inv, NEW R \in [Reads -> ReadRec], rd' = R,
         slots' = slots - Cardinality({r \in Reads : rd[r].slot /\ ~R[r].slot}),
         post' \in {post, IdlePost}, rx' \in {rx, IdleRx},
         \A r \in Reads : rd[r].pos = "post" => (R[r].pos = "post" <=> post' = post),
         \A r \in Reads : Moves(rd[r], R[r], Others(r) - Others(r)'),
         qp'["a"].refs = qp["a"].refs - Cardinality(Freed(R)) - B(rx.pc = "handle") + B(rx'.pc = "handle"),
         qp'["a"].st = "gone" <=> qp["a"].st = "gone"
  PROVE  AOK' /\ qp'["a"].refs \in Nat
<1>1. \A r \in Reads : rd[r] \in ReadRec /\ rd[r].refs \in Nat /\ rd[r].refs = ReadHolders(r)
  BY ReadFacts
<1>2. /\ IdlePost.pc = "idle" /\ IdleRx.pc = "idle" /\ IdlePost \in [pc : {"idle", "queue", "send"}, r : 0..MaxReads]
  BY CountFacts DEF IdlePost, IdleRx
<1>3. \A r \in Reads : /\ Others(r) \in Nat /\ Others(r)' \in Nat /\ Others(r)' <= Others(r)
                       /\ ReadHolders(r) = Others(r) + B(rd[r].pos \in InHands) + B(rd[r].tx # "none")
                       /\ ReadHolders(r)' = Others(r)' + B(R[r].pos \in InHands) + B(R[r].tx # "none")
  BY <1>2 DEF Others, ReadHolders, InHands, B
<1>4. ASSUME NEW r \in Reads
      PROVE  R[r].refs = ReadHolders(r)' /\ (R[r].refs > 0 => rd[r].refs > 0)
  <2> PICK a, b, o, p, c, d : /\ a = B(rd[r].pos \in InHands) /\ b = B(R[r].pos \in InHands)
                              /\ c = B(rd[r].tx # "none") /\ d = B(R[r].tx # "none")
                              /\ o = Others(r) /\ p = Others(r)'
    OBVIOUS
  <2>1. /\ a \in {0, 1} /\ b \in {0, 1} /\ c \in {0, 1} /\ d \in {0, 1} /\ o \in Nat /\ p \in Nat /\ p <= o
        /\ b <= a /\ d <= c
    BY <1>3 DEF Moves, InHands, B
  <2>2. rd[r].refs = o + a + c /\ R[r].refs = rd[r].refs - (o - p) - (a - b) - (c - d)
    BY <1>1, <1>3 DEF Moves
  <2>3. ReadHolders(r)' = p + b + d
    BY <1>3
  <2>4. \A x, y : x = o + a + c /\ y = x - (o - p) - (a - b) - (c - d) =>
           y = p + b + d /\ (y > 0 => x > 0)
    BY ONLY <2>1
  <2> QED
    BY <2>2, <2>3, <2>4
<1>5. SlotOK'
  <2>1. \A r \in Reads : R[r].pos = "none" => R[r].refs = 0
    <3> SUFFICES ASSUME NEW r \in Reads, R[r].pos = "none" PROVE R[r].refs = 0
      OBVIOUS
    <3>1. rd[r].pos = "none"
      BY DEF Moves
    <3>2. rd[r].refs = 0
      BY <3>1 DEF Inv, AOK, SlotOK
    <3>3. R[r].refs \in Nat
      BY DEF ReadRec
    <3> QED
      BY <1>4, <3>2, <3>3
  <2> QED
    BY <2>1 DEF Moves, SlotOK
<1>6. \A r \in Reads : R[r].slot => rd[r].slot
  <2>1. \A r \in Reads : rd[r].slot <=> rd[r].pos \in {"post", "list"}
    BY DEF Inv, AOK, SlotOK
  <2> QED
    BY <2>1 DEF Moves
<1>7. PostOK'
  <2>1. \E n \in 0..MaxReads : \A r \in Reads : R[r].pos # "none" <=> r <= n
    BY DEF Inv, AOK, PostOK, Moves
  <2>2. CASE post' = IdlePost
    <3>1. \A r \in Reads : R[r].pos # "post"
      <4>1. \A r \in Reads : rd[r].pos = "post" => post.pc = "queue"
        BY DEF Inv, AOK, PostOK
      <4> QED
        BY <1>2, <2>2, <4>1 DEF Moves
    <3> QED
      BY <1>2, <2>1, <2>2, <3>1 DEF PostOK
  <2>3. CASE post' = post
    <3>1. \A r \in Reads : R[r].pos = "post" <=> post.pc = "queue" /\ post.r = r
      BY <2>3 DEF Inv, AOK, PostOK, Moves
    <3>2. post.pc # "idle" => /\ post.r \in Reads /\ R[post.r].tx = "none" /\ R[post.r].armed = FALSE
                              /\ \A r \in Reads : R[r].pos # "none" => r <= post.r
      <4> SUFFICES ASSUME post.pc # "idle"
                   PROVE  /\ post.r \in Reads /\ R[post.r].tx = "none" /\ R[post.r].armed = FALSE
                          /\ \A r \in Reads : R[r].pos # "none" => r <= post.r
        OBVIOUS
      <4>1. /\ post.r \in Reads /\ rd[post.r].tx = "none" /\ rd[post.r].armed = FALSE
            /\ \A r \in Reads : rd[r].pos # "none" => r <= post.r
        BY DEF Inv, AOK, PostOK
      <4> PICK w \in Reads : w = post.r
        BY <4>1
      <4>2. Moves(rd[w], R[w], Others(w) - Others(w)') /\ R[w].armed \in BOOLEAN
        BY DEF ReadRec
      <4>3. R[w].tx = "none" /\ R[w].armed = FALSE
        BY <4>1, <4>2 DEF Moves
      <4> QED
        BY <4>1, <4>3 DEF Moves
    <3>3. post.pc = "send" => R[post.r].pos \in {"list", "off"}
      <4> SUFFICES ASSUME post.pc = "send" PROVE R[post.r].pos \in {"list", "off"}
        OBVIOUS
      <4>1. post.r \in Reads /\ rd[post.r].pos \in {"list", "off"} /\ rd[post.r].armed = FALSE
        BY DEF Inv, AOK, PostOK
      <4> PICK w \in Reads : w = post.r
        BY <4>1
      <4>2. Moves(rd[w], R[w], Others(w) - Others(w)')
        OBVIOUS
      <4> QED
        BY <4>1, <4>2 DEF Moves, ReadRec
    <3> QED
      BY <2>1, <2>3, <3>1, <3>2, <3>3 DEF PostOK
  <2> QED
    BY <2>2, <2>3
<1>8. /\ post' \in [pc : {"idle", "queue", "send"}, r : 0..MaxReads]
      /\ rx'.pc \in {"idle", "handle"} /\ (rx'.pc = "idle" => rx' = IdleRx)
      /\ rx'.pc = "handle" => rx'.r \in Reads /\ rx'.f \in DataFrame \cup StatFrame /\ rx'.f.psn = rx'.r
  BY <1>2 DEF Inv, AOK, ATypes
<1> QED
  BY <1>4, <1>5, <1>6, <1>7, <1>8, ReadsMoved

\* A read that is left alone.
LEMMA SameMoves ==
  ASSUME Inv
  PROVE  \A r \in Reads : Moves(rd[r], rd[r], 0)
<1> SUFFICES ASSUME NEW r \in Reads PROVE Moves(rd[r], rd[r], 0)
  OBVIOUS
<1>1. rd[r] \in ReadRec /\ rd[r].refs \in Nat /\ (rd[r].slot <=> rd[r].pos \in {"post", "list"})
  BY ReadFacts DEF Inv, AOK, SlotOK
<1>2. B(rd[r].pos \in InHands) \in {0, 1} /\ B(rd[r].tx # "none") \in {0, 1}
  BY DEF B
<1>3. \A a, b, c : a \in Nat /\ b \in {0, 1} /\ c \in {0, 1} => a = a - 0 - (b - b) - (c - c)
  OBVIOUS
<1>4. rd[r].pos # "reap" \/ rd[r].pos = "reap"
  OBVIOUS
<1> QED
  BY <1>1, <1>2, <1>3 DEF Moves

\* One read goes on, its thread may leave.
LEMMA OneLeft ==
  ASSUME Inv, NEW r \in Reads, NEW d, Moves(rd[r], d, Others(r) - Others(r)'),
         NEW R, R = [rd EXCEPT ![r] = d], SetReads(R),
         post' = post \/ (post' = IdlePost /\ post.r = r), rx' \in {rx, IdleRx},
         rd[r].pos = "post" => (d.pos = "post" <=> post' = post),
         \A s \in Reads : s # r => Others(s)' = Others(s),
         qp'["a"].refs = qp["a"].refs - Cardinality(Freed(R)) - B(rx.pc = "handle") + B(rx'.pc = "handle"),
         qp'["a"].st = "gone" <=> qp["a"].st = "gone"
  PROVE  AOK' /\ qp'["a"].refs \in Nat
<1>1. rd \in [Reads -> ReadRec] /\ d \in ReadRec
  BY ReadFacts DEF Moves
<1>2. R \in [Reads -> ReadRec] /\ R[r] = d /\ \A s \in Reads : s # r => R[s] = rd[s]
  BY <1>1
<1>3. ASSUME NEW s \in Reads PROVE Moves(rd[s], R[s], Others(s) - Others(s)')
  <2>1. CASE s = r
    BY <1>2, <2>1
  <2>2. CASE s # r
    <3>1. Others(s) - Others(s)' = 0
      BY <2>2 DEF Others, B
    <3> QED
      BY <1>2, <2>2, <3>1, SameMoves
  <2> QED
    BY <2>1, <2>2
<1>4. ASSUME NEW s \in Reads, rd[s].pos = "post" PROVE R[s].pos = "post" <=> post' = post
  <2>1. post.pc = "queue" /\ post.r = s
    BY <1>4 DEF Inv, AOK, PostOK
  <2> QED
    BY <1>2, <1>4, <2>1
<1>5. rd' = R /\ slots' = slots - Cardinality({s \in Reads : rd[s].slot /\ ~R[s].slot})
  BY DEF SetReads
<1>6. post' \in {post, IdlePost}
  OBVIOUS
<1> QED
  BY <1>2, <1>3, <1>4, <1>5, <1>6, ReadsLeft

\* Who may hold a read, by its place.
LEMMA HolderFacts ==
  ASSUME Inv, NEW r \in Reads
  PROVE  /\ rd[r].refs \in Nat /\ rd[r] \in ReadRec /\ Others(r) \in Nat
         /\ rd[r].refs = Others(r) + B(rd[r].pos \in InHands) + B(rd[r].tx # "none")
         /\ rd[r].pos \in InHands => rd[r].refs > 0
         /\ rd[r].tx # "none" => rd[r].refs > 0
         /\ rd[r].pos \in InHands /\ rd[r].tx # "none" => rd[r].refs > 1
         /\ rd[r].pos = "none" => rd[r].tx = "none" /\ ~(rx.pc = "handle" /\ rx.r = r)
<1>1. rd[r].refs \in Nat /\ rd[r] \in ReadRec /\ rd[r].refs = ReadHolders(r)
      /\ (rd[r].pos = "none" => rd[r].refs = 0)
  BY ReadFacts DEF Inv, AOK, SlotOK
<1>2. Others(r) \in Nat /\ ReadHolders(r) = Others(r) + B(rd[r].pos \in InHands) + B(rd[r].tx # "none")
  BY DEF Others, ReadHolders, InHands, B
<1>3. rd[r].pos = "none" => rd[r].tx = "none" /\ ~(rx.pc = "handle" /\ rx.r = r)
  BY <1>1 DEF ReadHolders, B
<1>4. B(rd[r].pos \in InHands) = (IF rd[r].pos \in InHands THEN 1 ELSE 0)
      /\ B(rd[r].tx # "none") = (IF rd[r].tx # "none" THEN 1 ELSE 0)
  BY DEF B
<1> PICK a, b, o : /\ a = B(rd[r].pos \in InHands) /\ b = B(rd[r].tx # "none") /\ o = Others(r)
  OBVIOUS
<1>5. rd[r].refs = o + a + b /\ o \in Nat
      /\ a = (IF rd[r].pos \in InHands THEN 1 ELSE 0) /\ b = (IF rd[r].tx # "none" THEN 1 ELSE 0)
  BY <1>1, <1>2, <1>4
<1>6. /\ rd[r].pos \in InHands => rd[r].refs > 0
      /\ rd[r].tx # "none" => rd[r].refs > 0
      /\ rd[r].pos \in InHands /\ rd[r].tx # "none" => rd[r].refs > 1
  BY ONLY <1>5
<1> QED
  BY <1>1, <1>2, <1>3, <1>6

\* A read that ends gives back what it held.
LEMMA EndMoves ==
  ASSUME Inv, NEW r \in Reads, rd[r].pos \in {"list", "reap"},
         NEW res \in {"ok", "error", "timeout", "flush"}
  PROVE  Moves(rd[r], Ended(rd[r], res), 0) /\ Ended(rd[r], res) \in ReadRec
<1> PICK c : c = rd[r]
  OBVIOUS
<1> PICK d : d = Ended(c, res)
  OBVIOUS
<1>1. c \in ReadRec /\ c.refs \in Nat /\ c.refs > 0 /\ (c.tx = "queued" => c.refs > 1)
  BY HolderFacts DEF InHands
<1>2. /\ d \in ReadRec /\ d.refs = (IF c.tx = "queued" THEN c.refs - 2 ELSE c.refs - 1)
      /\ d.pos = "off" /\ d.slot = FALSE /\ d.tx = (IF c.tx = "queued" THEN "none" ELSE c.tx)
      /\ d.armed = c.armed
  BY <1>1, EndedFacts
<1>3. B(c.pos \in InHands) = 1 /\ B(d.pos \in InHands) = 0
  BY <1>2 DEF B, InHands
<1>4. B(c.tx # "none") - B(d.tx # "none") = IF c.tx = "queued" THEN 1 ELSE 0
  BY <1>2 DEF B
<1>5. d.refs = c.refs - 0 - (1 - 0) - (IF c.tx = "queued" THEN 1 ELSE 0)
  BY <1>1, <1>2
<1> QED
  BY <1>1, <1>2, <1>3, <1>4, <1>5 DEF Moves

\* The queue pair gives back what its reads held.
LEMMA QpAfterFacts ==
  ASSUME Inv, NEW R
  PROVE  /\ QpAfter(R)["a"].refs = qp["a"].refs - Cardinality(Freed(R))
         /\ QpAfter(R)["a"].st = qp["a"].st /\ QpAfter(R)["a"].closing = qp["a"].closing
         /\ QpAfter(R)["a"].tw = qp["a"].tw /\ QpAfter(R)["b"] = qp["b"]
         /\ DOMAIN QpAfter(R) = Ends
         /\ QpAfter(R)["a"].refs \in Nat => QpAfter(R) \in [Ends -> QpRec]
<1>1. qp \in [Ends -> QpRec]
  BY ReadFacts
<1> QED
  BY <1>1 DEF QpAfter, Ends, QpRec

\* A post that finds no path gives back its slot and its reference.
LEMMA PostNoPathA ==
  ASSUME Inv, PostNoPath
  PROVE  AOK' /\ qp' \in [Ends -> QpRec]
<1> PICK r : r = post.r
  OBVIOUS
<1> PICK d : d = PutRead([rd[r] EXCEPT !.pos = "off", !.slot = FALSE, !.res = "rejected"])
  OBVIOUS
<1> PICK R : R = [rd EXCEPT ![r] = d]
  OBVIOUS
<1>1. post.pc = "queue" /\ post' = IdlePost /\ SetReads(R) /\ qp' = QpAfter(R) /\ UNCHANGED rx
  BY DEF PostNoPath
<1>2. r \in Reads /\ rd[r].pos = "post" /\ rd[r].tx = "none" /\ rd[r].armed = FALSE
  BY <1>1 DEF Inv, AOK, PostOK
<1>3. rd[r] \in ReadRec /\ rd[r].refs \in Nat /\ rd[r].refs > 0
  BY <1>2, HolderFacts DEF InHands
<1>4. /\ d \in ReadRec /\ d.refs = rd[r].refs - 1 /\ d.pos = "off" /\ d.slot = FALSE /\ d.tx = "none"
      /\ d.armed = FALSE
  <2> PICK c : c = rd[r]
    OBVIOUS
  <2> PICK e : e = [c EXCEPT !.pos = "off", !.slot = FALSE, !.res = "rejected"]
    OBVIOUS
  <2>1. c \in ReadRec /\ c.refs > 0
    BY <1>3
  <2>2. e \in ReadRec /\ e.refs = c.refs /\ e.pos = "off" /\ e.slot = FALSE /\ e.tx = c.tx /\ e.armed = c.armed
    BY ONLY <2>1, e = [c EXCEPT !.pos = "off", !.slot = FALSE, !.res = "rejected"] DEF ReadRec
  <2>3. d = PutRead(e)
    OBVIOUS
  <2>4. e.refs > 0
    BY <2>1, <2>2
  <2>5. /\ PutRead(e) \in ReadRec /\ PutRead(e).refs = e.refs - 1 /\ PutRead(e).pos = e.pos
        /\ PutRead(e).slot = e.slot /\ PutRead(e).tx = e.tx /\ PutRead(e).armed = e.armed
    BY ONLY <2>2, <2>4, PutFacts
  <2>6. c.tx = "none" /\ c.armed = FALSE
    BY <1>2
  <2> QED
    BY ONLY <2>2, <2>3, <2>5, <2>6, c = rd[r]
<1>5. \A s \in Reads : Others(s)' = Others(s) /\ Others(s) - Others(s)' = 0
  BY <1>1 DEF Others, B, IdlePost
<1>6. Moves(rd[r], d, Others(r) - Others(r)')
  <2>1. /\ B(rd[r].pos \in InHands) = 1 /\ B(d.pos \in InHands) = 0
        /\ B(rd[r].tx # "none") = 0 /\ B(d.tx # "none") = 0
    BY <1>2, <1>4 DEF B, InHands
  <2>2. d.refs = rd[r].refs - 0 - (1 - 0) - (0 - 0)
    BY <1>3, <1>4
  <2> QED
    BY <1>2, <1>4, <1>5, <2>1, <2>2 DEF Moves
<1>7. /\ qp'["a"].refs = qp["a"].refs - Cardinality(Freed(R)) - B(rx.pc = "handle") + B(rx'.pc = "handle")
      /\ qp'["a"].st = qp["a"].st
  <2>1. Cardinality(Freed(R)) \in Nat
    BY CountFacts DEF Freed
  <2> QED
    BY <1>1, <2>1, QpAfterFacts, ReadFacts DEF B
<1>8. post' # post
  BY <1>1 DEF IdlePost
<1>9. AOK' /\ qp'["a"].refs \in Nat
  BY <1>1, <1>2, <1>4, <1>5, <1>6, <1>7, <1>8, OneLeft
<1> QED
  BY <1>1, <1>9, QpAfterFacts

\* The read goes to the list, its transmission gets a reference.
LEMMA PostQueueA ==
  ASSUME Inv, PostQueue
  PROVE  AOK' /\ qp' \in [Ends -> QpRec]
<1> PICK r : r = post.r
  OBVIOUS
<1> PICK d : d = [rd[r] EXCEPT !.pos = "list", !.refs = @ + 1]
  OBVIOUS
<1>0. rd \in [Reads -> ReadRec]
  BY ReadFacts
<1>1. post.pc = "queue" /\ post' = [post EXCEPT !.pc = "send"] /\ UNCHANGED <<qp, slots, rx>>
      /\ rd' = [rd EXCEPT ![r] = d]
  BY <1>0 DEF PostQueue
<1>2. /\ r \in Reads /\ rd[r].pos = "post" /\ rd[r].tx = "none" /\ rd[r].armed = FALSE
      /\ \A s \in Reads : rd[s].pos # "none" => s <= r
      /\ rd[r].slot = TRUE
  BY <1>1, ReadFacts DEF Inv, AOK, PostOK, SlotOK, ReadRec
<1>3. rd[r] \in ReadRec /\ rd[r].refs \in Nat /\ rd[r].refs > 0
  BY <1>2, HolderFacts DEF InHands
<1>4. /\ d \in ReadRec /\ d.refs = rd[r].refs + 1 /\ d.pos = "list" /\ d.slot = TRUE /\ d.tx = "none"
      /\ d.armed = FALSE
  <2> PICK c : c = rd[r]
    OBVIOUS
  <2>1. c \in ReadRec /\ c.refs \in Nat
    BY <1>3
  <2>2. /\ d \in ReadRec /\ d.refs = c.refs + 1 /\ d.pos = "list" /\ d.slot = c.slot /\ d.tx = c.tx
        /\ d.armed = c.armed
    <3> PICK n \in Nat : n = c.refs + 1
      BY <2>1
    <3>1. d = [c EXCEPT !.pos = "list", !.refs = n]
      OBVIOUS
    <3>2. /\ d \in ReadRec /\ d.refs = n /\ d.pos = "list" /\ d.slot = c.slot /\ d.tx = c.tx
          /\ d.armed = c.armed
      BY ONLY <2>1, <3>1, n \in Nat DEF ReadRec
    <3> QED
      BY ONLY <3>2, n = c.refs + 1
  <2> QED
    BY <1>2, <2>2
<1>5. rd' \in [Reads -> ReadRec] /\ rd'[r] = d /\ \A s \in Reads : s # r => rd'[s] = rd[s]
  BY <1>0, <1>1, <1>2, <1>4
<1>6. post \in [pc : {"idle", "queue", "send"}, r : 0..MaxReads]
  BY DEF Inv, AOK, ATypes
<1>7. /\ post'.pc = "send" /\ post'.r = r /\ post' \in [pc : {"idle", "queue", "send"}, r : 0..MaxReads]
  BY <1>1, <1>6
<1>8. \A s \in Reads : rd'[s].refs = ReadHolders(s)'
  <2> SUFFICES ASSUME NEW s \in Reads PROVE rd'[s].refs = ReadHolders(s)'
    OBVIOUS
  <2>1. rd[s].refs = ReadHolders(s)
    BY ReadFacts
  <2>2. CASE s = r
    BY <1>1, <1>2, <1>4, <1>5, <1>7, <2>1, <2>2 DEF ReadHolders, B
  <2>3. CASE s # r
    BY <1>1, <1>5, <1>7, <2>1, <2>3 DEF ReadHolders, B
  <2> QED
    BY <2>2, <2>3
<1>9. PostOK'
  <2>1. \A s \in Reads : rd'[s].pos = "none" <=> rd[s].pos = "none"
    BY <1>2, <1>4, <1>5
  <2>2. \A s \in Reads : rd'[s].pos # "post"
    BY <1>1, <1>4, <1>5 DEF Inv, AOK, PostOK
  <2>3. \E n \in 0..MaxReads : \A s \in Reads : rd'[s].pos # "none" <=> s <= n
    BY <2>1 DEF Inv, AOK, PostOK
  <2>4. \A s \in Reads : rd'[s].pos # "none" => s <= r
    BY <1>2, <2>1
  <2> QED
    BY <1>2, <1>4, <1>5, <1>7, <2>2, <2>3, <2>4 DEF PostOK
<1>10. SlotOK'
  BY <1>4, <1>5 DEF Inv, AOK, SlotOK
<1>11. \A s \in Reads : (rd'[s].slot => rd[s].slot) /\ (rd'[s].refs > 0 => rd[s].refs > 0)
       /\ ~(rd[s].slot /\ ~rd'[s].slot) /\ ~(rd[s].refs > 0 /\ rd'[s].refs = 0)
  <2> SUFFICES ASSUME NEW s \in Reads
               PROVE  (rd'[s].slot => rd[s].slot) /\ (rd'[s].refs > 0 => rd[s].refs > 0)
                      /\ ~(rd[s].slot /\ ~rd'[s].slot) /\ ~(rd[s].refs > 0 /\ rd'[s].refs = 0)
    OBVIOUS
  <2>1. CASE s = r
    BY ONLY <2>1, <1>2, <1>3, <1>4, <1>5
  <2>2. CASE s # r
    <3>1. rd'[s] = rd[s] /\ rd[s].refs \in Nat
      BY <1>5, <2>2, ReadFacts
    <3> QED
      BY ONLY <3>1
  <2> QED
    BY <2>1, <2>2
<1>12. Cardinality({s \in Reads : rd[s].slot /\ ~rd'[s].slot}) = 0 /\ Cardinality(Freed(rd')) = 0
  <2>1. {s \in Reads : rd[s].slot /\ ~rd'[s].slot} = {} /\ Freed(rd') = {}
    BY <1>11 DEF Freed
  <2> QED
    BY <2>1, NothingFreed
<1>13. slots' = slots - Cardinality({s \in Reads : rd[s].slot /\ ~rd'[s].slot})
  BY <1>1, <1>12, ReadFacts
<1>14. qp'["a"].refs = qp["a"].refs - Cardinality(Freed(rd')) - B(rx.pc = "handle") + B(rx'.pc = "handle")
  BY <1>1, <1>12, ReadFacts DEF B
<1>15. /\ rx'.pc \in {"idle", "handle"} /\ (rx'.pc = "idle" => rx' = IdleRx)
       /\ (rx'.pc = "handle" => rx'.r \in Reads /\ rx'.f \in DataFrame \cup StatFrame /\ rx'.f.psn = rx'.r)
  BY <1>1 DEF Inv, AOK, ATypes
<1>16. AOK'
  BY <1>1, <1>5, <1>7, <1>8, <1>9, <1>10, <1>11, <1>13, <1>14, <1>15, ReadsMoved
<1> QED
  BY <1>1, <1>16, ReadFacts

\* The path has the request: the transmission is the frame's now.
LEMMA PostSendA ==
  ASSUME Inv, PostSend
  PROVE  AOK' /\ qp' \in [Ends -> QpRec]
<1> PICK r : r = post.r
  OBVIOUS
<1> PICK d : d = [rd[r] EXCEPT !.tx = "queued"]
  OBVIOUS
<1>0. rd \in [Reads -> ReadRec]
  BY ReadFacts
<1>1. post.pc = "send" /\ post' = IdlePost /\ UNCHANGED <<qp, slots, rx>>
      /\ rd' = [rd EXCEPT ![r] = d]
  BY <1>0 DEF PostSend
<1>2. /\ r \in Reads /\ rd[r].pos \in {"list", "off"} /\ rd[r].tx = "none"
  BY <1>1 DEF Inv, AOK, PostOK
<1>3. rd[r] \in ReadRec /\ rd[r].refs \in Nat
  BY <1>2, HolderFacts
<1>4. /\ d \in ReadRec /\ d.refs = rd[r].refs /\ d.pos = rd[r].pos /\ d.slot = rd[r].slot
      /\ d.tx = "queued"
  BY <1>2, <1>3 DEF ReadRec
<1>5. rd' \in [Reads -> ReadRec] /\ rd'[r] = d /\ \A s \in Reads : s # r => rd'[s] = rd[s]
  BY <1>0, <1>1, <1>2, <1>4
<1>7. /\ post'.pc = "idle" /\ post' \in [pc : {"idle", "queue", "send"}, r : 0..MaxReads]
  BY <1>1, CountFacts DEF IdlePost
<1>8. \A s \in Reads : rd'[s].refs = ReadHolders(s)'
  <2> SUFFICES ASSUME NEW s \in Reads PROVE rd'[s].refs = ReadHolders(s)'
    OBVIOUS
  <2>1. rd[s].refs = ReadHolders(s)
    BY ReadFacts
  <2>2. CASE s = r
    BY <1>1, <1>2, <1>4, <1>5, <1>7, <2>1, <2>2 DEF ReadHolders, B
  <2>3. CASE s # r
    BY <1>1, <1>5, <1>7, <2>1, <2>3 DEF ReadHolders, B
  <2> QED
    BY <2>2, <2>3
<1>9. PostOK'
  <2>1. \A s \in Reads : rd'[s].pos = rd[s].pos
    BY <1>2, <1>4, <1>5
  <2>2. \A s \in Reads : rd[s].pos # "post"
    BY <1>1 DEF Inv, AOK, PostOK
  <2> QED
    BY <1>7, <2>1, <2>2 DEF Inv, AOK, PostOK
<1>11. \A s \in Reads : rd'[s].pos = rd[s].pos /\ rd'[s].slot = rd[s].slot /\ rd'[s].refs = rd[s].refs
  BY <1>4, <1>5
<1>10. SlotOK'
  BY <1>11 DEF Inv, AOK, SlotOK
<1>12. Cardinality({s \in Reads : rd[s].slot /\ ~rd'[s].slot}) = 0 /\ Cardinality(Freed(rd')) = 0
  <2>1. {s \in Reads : rd[s].slot /\ ~rd'[s].slot} = {} /\ Freed(rd') = {}
    BY <1>11 DEF Freed
  <2> QED
    BY <2>1, NothingFreed
<1>13. slots' = slots - Cardinality({s \in Reads : rd[s].slot /\ ~rd'[s].slot})
  BY <1>1, <1>12, ReadFacts
<1>14. qp'["a"].refs = qp["a"].refs - Cardinality(Freed(rd')) - B(rx.pc = "handle") + B(rx'.pc = "handle")
  BY <1>1, <1>12, ReadFacts DEF B
<1>15. /\ rx'.pc \in {"idle", "handle"} /\ (rx'.pc = "idle" => rx' = IdleRx)
       /\ (rx'.pc = "handle" => rx'.r \in Reads /\ rx'.f \in DataFrame \cup StatFrame /\ rx'.f.psn = rx'.r)
  BY <1>1 DEF Inv, AOK, ATypes
<1>16. AOK'
  BY <1>1, <1>5, <1>7, <1>8, <1>9, <1>10, <1>11, <1>13, <1>14, <1>15, ReadsMoved
<1> QED
  BY <1>1, <1>16, ReadFacts

\* The path refuses a read that is still on the list.
LEMMA PostRefusedA ==
  ASSUME Inv, PostRefused, rd[post.r].pos = "list"
  PROVE  AOK' /\ qp' \in [Ends -> QpRec]
<1> PICK r : r = post.r
  OBVIOUS
<1> PICK c : c = rd[r]
  OBVIOUS
<1> PICK e : e = [c EXCEPT !.pos = "off", !.slot = FALSE, !.refs = @ - 2]
  OBVIOUS
<1> PICK d : d = Complete(e, "rejected")
  OBVIOUS
<1> PICK R : R = [rd EXCEPT ![r] = d]
  OBVIOUS
<1>1. post.pc = "send" /\ post' = IdlePost /\ SetReads(R) /\ qp' = QpAfter(R) /\ UNCHANGED rx
  BY DEF PostRefused
<1>2. r \in Reads /\ c.pos = "list" /\ c.tx = "none" /\ c.armed = FALSE
  BY <1>1 DEF Inv, AOK, PostOK
<1>3. c \in ReadRec /\ c.refs \in Nat /\ c.refs = Others(r) + 1 + 0
  BY <1>2, HolderFacts DEF InHands, B
<1>a. Others(r) \in Nat /\ Others(r) > 0 /\ Others(r)' = Others(r) - 1 /\ \A s \in Reads : s # r => Others(s)' = Others(s)
  BY <1>1 DEF Others, B, IdlePost
<1>4. /\ d \in ReadRec /\ d.refs = c.refs - 2 /\ d.pos = "off" /\ d.slot = FALSE /\ d.tx = "none"
      /\ d.armed = FALSE
  <2> PICK n \in Nat : n = c.refs - 2
    BY <1>3, <1>a
  <2>1. e = [c EXCEPT !.pos = "off", !.slot = FALSE, !.refs = n]
    OBVIOUS
  <2>2. e \in ReadRec /\ e.refs = n /\ e.pos = "off" /\ e.slot = FALSE /\ e.tx = c.tx /\ e.armed = c.armed
    BY ONLY <1>3, <2>1, n \in Nat DEF ReadRec
  <2>3. d \in ReadRec /\ d.refs = e.refs /\ d.pos = e.pos /\ d.slot = e.slot /\ d.tx = e.tx /\ d.armed = e.armed
    BY ONLY <2>2, d = Complete(e, "rejected"), CompleteFacts
  <2> QED
    BY ONLY <1>2, <2>2, <2>3, n = c.refs - 2
<1>6. Moves(rd[r], d, Others(r) - Others(r)')
  <2>1. /\ B(c.pos \in InHands) = 1 /\ B(d.pos \in InHands) = 0
        /\ B(c.tx # "none") = 0 /\ B(d.tx # "none") = 0
    BY <1>2, <1>4 DEF B, InHands
  <2>2. d.refs = c.refs - (Others(r) - Others(r)') - (1 - 0) - (0 - 0)
    <3> PICK o : o = Others(r)
      OBVIOUS
    <3>1. Others(r) - Others(r)' = 1
      BY <1>a
    <3> QED
      BY <1>3, <1>4, <3>1
  <2> QED
    BY <1>2, <1>4, <2>1, <2>2 DEF Moves
<1>7. /\ qp'["a"].refs = qp["a"].refs - Cardinality(Freed(R)) - B(rx.pc = "handle") + B(rx'.pc = "handle")
      /\ qp'["a"].st = qp["a"].st
  <2>1. Cardinality(Freed(R)) \in Nat
    BY CountFacts DEF Freed
  <2> QED
    BY <1>1, <2>1, QpAfterFacts, ReadFacts DEF B
<1>8. post' # post
  BY <1>1 DEF IdlePost
<1>9. AOK' /\ qp'["a"].refs \in Nat
  <2>1. /\ post' = post \/ (post' = IdlePost /\ post.r = r)
        /\ rx' \in {rx, IdleRx}
        /\ (rd[r].pos = "post" => (d.pos = "post" <=> post' = post))
        /\ (qp'["a"].st = "gone" <=> qp["a"].st = "gone") /\ SetReads(R)
    BY <1>1, <1>2, <1>4, <1>7, <1>8
  <2> QED
    BY ONLY Inv, <1>2, <1>a, <1>6, <1>7, <2>1, R = [rd EXCEPT ![r] = d], OneLeft
<1> QED
  BY <1>1, <1>9, QpAfterFacts

\* A step of the transmission of r.
LEMMA TxStep ==
  ASSUME Inv, NEW r \in Reads, NEW d, Moves(rd[r], d, 0), rd[r].pos = "post" => d.pos = "post",
         NEW R, R = [rd EXCEPT ![r] = d], SetReads(R), UNCHANGED <<post, rx>>,
         qp'["a"].refs = qp["a"].refs - Cardinality(Freed(R)), qp'["a"].st = qp["a"].st
  PROVE  AOK' /\ qp'["a"].refs \in Nat
<1>1. \A s \in Reads : Others(s)' = Others(s) /\ Others(s) - Others(s)' = 0
  BY DEF Others, B
<1>2. qp'["a"].refs = qp["a"].refs - Cardinality(Freed(R)) - B(rx.pc = "handle") + B(rx'.pc = "handle")
  <2>1. Cardinality(Freed(R)) \in Nat
    BY CountFacts DEF Freed
  <2> QED
    BY <2>1, ReadFacts DEF B
<1>3. Moves(rd[r], d, Others(r) - Others(r)')
  BY <1>1
<1> QED
  BY <1>1, <1>2, <1>3, OneLeft

\* The request goes out; the transmission keeps its reference.
LEMMA TransmitA ==
  ASSUME Inv, NEW r \in Reads, Transmit(r)
  PROVE  AOK' /\ qp' \in [Ends -> QpRec]
<1> PICK c : c = rd[r]
  OBVIOUS
<1> PICK d : d = [c EXCEPT !.tx = "sent"]
  OBVIOUS
<1> PICK R : R = [rd EXCEPT ![r] = d]
  OBVIOUS
<1>0. rd \in [Reads -> ReadRec] /\ c \in ReadRec /\ c.refs \in Nat
  BY ReadFacts
<1>1. /\ c.tx = "queued" /\ rd' = R /\ UNCHANGED <<qp, slots, post, rx>>
  BY <1>0 DEF Transmit
<1>2. d \in ReadRec /\ d.refs = c.refs /\ d.pos = c.pos /\ d.slot = c.slot /\ d.tx = "sent" /\ d.armed = c.armed
  BY ONLY <1>0, d = [c EXCEPT !.tx = "sent"] DEF ReadRec
<1>3. Moves(rd[r], d, 0)
  <2>1. Moves(c, c, 0)
    BY SameMoves
  <2>2. B(d.pos \in InHands) = B(c.pos \in InHands) /\ B(d.tx # "none") = B(c.tx # "none")
    BY <1>1, <1>2 DEF B
  <2> QED
    BY <1>1, <1>2, <2>1, <2>2 DEF Moves
<1>4. R[r] = d /\ \A s \in Reads : s # r => R[s] = rd[s]
  BY <1>0
<1>5. {s \in Reads : rd[s].slot /\ ~R[s].slot} = {} /\ Freed(R) = {}
  BY <1>2, <1>4 DEF Freed
<1>6. SetReads(R) /\ qp'["a"].refs = qp["a"].refs - Cardinality(Freed(R))
  <2>1. Cardinality({s \in Reads : rd[s].slot /\ ~R[s].slot}) = 0 /\ Cardinality(Freed(R)) = 0
    BY <1>5, NothingFreed
  <2>2. slots - 0 = slots /\ qp["a"].refs - 0 = qp["a"].refs
    BY ReadFacts
  <2> QED
    BY <1>1, <2>1, <2>2 DEF SetReads
<1> QED
  BY <1>1, <1>2, <1>3, <1>6, TxStep, ReadFacts

\* A work that is queued or not leaves the rest of the queue pair.
LEMMA ScheduledQp ==
  ASSUME NEW q \in [Ends -> QpRec], NEW e \in Ends, NEW t \in BOOLEAN
  PROVE  [q EXCEPT ![e].tw = t] \in [Ends -> QpRec]
BY DEF QpRec

\* tbv_read_tx_done() puts the transmission's reference.
LEMMA TxDoneA ==
  ASSUME Inv, NEW r \in Reads, TxDone(r)
  PROVE  AOK' /\ qp' \in [Ends -> QpRec]
<1> PICK c : c = rd[r]
  OBVIOUS
<1> PICK e : e = [c EXCEPT !.tx = "none", !.armed = @ \/ c.pos = "list"]
  OBVIOUS
<1> PICK d : d = PutRead(e)
  OBVIOUS
<1> PICK R : R = [rd EXCEPT ![r] = d]
  OBVIOUS
<1>0. rd \in [Reads -> ReadRec] /\ c \in ReadRec /\ c.refs \in Nat
  BY ReadFacts
<1>1. /\ c.tx = "sent" /\ SetReads(R) /\ UNCHANGED <<post, rx>>
      /\ qp' = [QpAfter(R) EXCEPT !["a"].tw = IF rd[r].pos = "list" THEN Schedule("a") ELSE @]
  BY DEF TxDone
<1>2. c.refs > 0
  BY <1>1, HolderFacts
<1>3. e \in ReadRec /\ e.refs = c.refs /\ e.pos = c.pos /\ e.slot = c.slot /\ e.tx = "none"
  <2> PICK a : a = (c.armed \/ c.pos = "list")
    OBVIOUS
  <2>1. e = [c EXCEPT !.tx = "none", !.armed = a] /\ a \in BOOLEAN
    BY <1>0 DEF ReadRec
  <2> QED
    BY ONLY <1>0, <2>1 DEF ReadRec
<1>4. d \in ReadRec /\ d.refs = c.refs - 1 /\ d.pos = c.pos /\ d.slot = c.slot /\ d.tx = "none"
  BY ONLY <1>2, <1>3, d = PutRead(e), PutFacts
<1>5. Moves(rd[r], d, 0)
  <2>1. Moves(c, c, 0)
    BY SameMoves
  <2>2. /\ B(d.pos \in InHands) = B(c.pos \in InHands) /\ B(c.pos \in InHands) \in {0, 1}
        /\ B(d.tx # "none") = 0 /\ B(c.tx # "none") = 1
    BY <1>1, <1>4 DEF B
  <2>3. \A b : b \in {0, 1} => c.refs - 1 = c.refs - 0 - (b - b) - (1 - 0)
    BY <1>0
  <2> QED
    BY <1>1, <1>4, <2>1, <2>2, <2>3 DEF Moves
<1>6. /\ qp'["a"].refs = qp["a"].refs - Cardinality(Freed(R)) /\ qp'["a"].st = qp["a"].st
      /\ qp["a"].tw \in BOOLEAN /\ qp["a"].closing \in BOOLEAN
  BY <1>1, QpAfterFacts, ReadFacts DEF Ends, QpRec
<1>7. AOK' /\ qp'["a"].refs \in Nat
  <2>1. rd[r].pos = "post" => d.pos = "post"
    BY <1>4
  <2> QED
    BY ONLY Inv, r \in Reads, <1>1, <1>5, <1>6, <2>1, R = [rd EXCEPT ![r] = d], TxStep
<1>8. QpAfter(R)["a"].refs \in Nat
  BY <1>6, <1>7, QpAfterFacts
<1>9. QpAfter(R) \in [Ends -> QpRec]
  BY <1>8, QpAfterFacts
<1>10. (IF rd[r].pos = "list" THEN Schedule("a") ELSE QpAfter(R)["a"].tw) \in BOOLEAN
  BY <1>6, QpAfterFacts DEF Schedule
<1> PICK t \in BOOLEAN : t = IF rd[r].pos = "list" THEN Schedule("a") ELSE QpAfter(R)["a"].tw
  BY <1>10
<1>11. qp' = [QpAfter(R) EXCEPT !["a"].tw = t] /\ "a" \in Ends
  BY <1>1 DEF Ends
<1> QED
  BY ONLY <1>7, <1>9, <1>11, t \in BOOLEAN, ScheduledQp

\* A read that leaves its list without cancelling its transmission.
Done(c, res) == PutRead(Complete([c EXCEPT !.pos = "off", !.slot = FALSE], res))

\* A read that completes off the list.
LEMMA DoneFacts ==
  ASSUME NEW c \in ReadRec, c.refs > 0,
         NEW res \in {"ok", "error", "timeout", "flush", "rejected", "none"}
  PROVE  /\ Done(c, res) \in ReadRec /\ Done(c, res).refs = c.refs - 1
         /\ Done(c, res).pos = "off" /\ Done(c, res).slot = FALSE /\ Done(c, res).tx = c.tx
         /\ Done(c, res).armed = c.armed /\ Done(c, res).ready = c.ready
         /\ Done(c, res).status = c.status
         /\ Done(c, res).res = (IF c.res = "none" THEN res ELSE c.res)
         /\ Done(c, res).got = c.got /\ Done(c, res).buf = c.buf
         /\ Done(c, res).data = c.data /\ Done(c, res).since = c.since
<1> PICK d : d = [c EXCEPT !.pos = "off", !.slot = FALSE]
  OBVIOUS
<1> PICK f : f = Complete(d, res)
  OBVIOUS
<1>1. /\ d \in ReadRec /\ d.refs = c.refs /\ d.pos = "off" /\ d.slot = FALSE /\ d.tx = c.tx
      /\ d.armed = c.armed /\ d.ready = c.ready /\ d.status = c.status /\ d.res = c.res
      /\ d.got = c.got /\ d.buf = c.buf /\ d.data = c.data /\ d.since = c.since
  BY OffFacts
<1>2. /\ f \in ReadRec /\ f.refs = d.refs /\ f.pos = d.pos /\ f.slot = d.slot /\ f.tx = d.tx
      /\ f.armed = d.armed /\ f.ready = d.ready /\ f.status = d.status
      /\ f.res = (IF d.res = "none" THEN res ELSE d.res)
      /\ f.got = d.got /\ f.buf = d.buf /\ f.data = d.data /\ f.since = d.since
  BY ONLY <1>1, f = Complete(d, res),
          res \in {"ok", "error", "timeout", "flush", "rejected", "none"}, CompleteFacts
<1>3. f.refs > 0
  BY <1>1, <1>2
<1>4. Done(c, res) = PutRead(f)
  BY DEF Done
<1>5. /\ PutRead(f) \in ReadRec /\ PutRead(f).refs = f.refs - 1
      /\ PutRead(f).pos = f.pos /\ PutRead(f).slot = f.slot /\ PutRead(f).tx = f.tx
      /\ PutRead(f).armed = f.armed /\ PutRead(f).ready = f.ready /\ PutRead(f).status = f.status
      /\ PutRead(f).res = f.res /\ PutRead(f).got = f.got /\ PutRead(f).buf = f.buf
      /\ PutRead(f).data = f.data /\ PutRead(f).since = f.since
  BY <1>2, <1>3, PutFacts
<1> QED
  BY ONLY <1>1, <1>2, <1>4, <1>5

\* A failed transmission completes a read that waits.
LEMMA TxFailsA ==
  ASSUME Inv, NEW r \in Reads, TxFails(r)
  PROVE  AOK' /\ qp' \in [Ends -> QpRec]
<1> PICK c : c = rd[r]
  OBVIOUS
<1> PICK e : e = [c EXCEPT !.tx = "none"]
  OBVIOUS
<1> PICK p : p = PutRead(e)
  OBVIOUS
<1> PICK d : d = IF p.pos = "list" THEN Done(p, "error") ELSE p
  OBVIOUS
<1> PICK R : R = [rd EXCEPT ![r] = d]
  OBVIOUS
<1>0. rd \in [Reads -> ReadRec] /\ c \in ReadRec /\ c.refs \in Nat
  BY ReadFacts
<1>1. /\ c.tx = "queued" /\ SetReads(R) /\ UNCHANGED <<post, rx>> /\ qp' = QpAfter(R)
  BY DEF TxFails, Done
<1>2. c.refs > 0 /\ (c.pos = "list" => c.refs > 1)
  BY <1>1, HolderFacts DEF InHands
<1>3. e \in ReadRec /\ e.refs = c.refs /\ e.pos = c.pos /\ e.slot = c.slot /\ e.tx = "none" /\ e.armed = c.armed
  BY ONLY <1>0, e = [c EXCEPT !.tx = "none"] DEF ReadRec
<1>4. p \in ReadRec /\ p.refs = c.refs - 1 /\ p.pos = c.pos /\ p.slot = c.slot /\ p.tx = "none" /\ p.armed = c.armed
  BY ONLY <1>2, <1>3, p = PutRead(e), PutFacts
<1>s. Moves(c, c, 0)
  BY SameMoves
<1>5. Moves(rd[r], d, 0) /\ (rd[r].pos = "post" => d.pos = "post")
  <2>1. CASE c.pos = "list"
    <3>1. d = Done(p, "error") /\ p.refs > 0
      BY <1>0, <1>2, <1>4, <2>1
    <3>2. d \in ReadRec /\ d.refs = p.refs - 1 /\ d.pos = "off" /\ d.slot = FALSE /\ d.tx = p.tx /\ d.armed = p.armed
      BY ONLY <1>4, <3>1, DoneFacts
    <3>3. /\ B(d.pos \in InHands) = 0 /\ B(c.pos \in InHands) = 1
          /\ B(d.tx # "none") = 0 /\ B(c.tx # "none") = 1
      BY <1>1, <1>4, <3>2, <2>1 DEF B, InHands
    <3>4. d.refs = c.refs - 0 - (1 - 0) - (1 - 0)
      BY <1>0, <1>4, <3>2
    <3> QED
      BY <1>4, <2>1, <3>2, <3>3, <3>4 DEF Moves
  <2>2. CASE c.pos # "list"
    <3>1. d = p
      BY <1>4, <2>2
    <3>2. /\ B(d.pos \in InHands) = B(c.pos \in InHands) /\ B(c.pos \in InHands) \in {0, 1}
          /\ B(d.tx # "none") = 0 /\ B(c.tx # "none") = 1
      BY <1>1, <1>4, <3>1 DEF B
    <3>3. \A b : b \in {0, 1} => c.refs - 1 = c.refs - 0 - (b - b) - (1 - 0)
      BY <1>0
    <3> QED
      BY <1>1, <1>4, <1>s, <3>1, <3>2, <3>3 DEF Moves
  <2> QED
    BY <2>1, <2>2
<1>6. qp'["a"].refs = qp["a"].refs - Cardinality(Freed(R)) /\ qp'["a"].st = qp["a"].st
  BY <1>1, QpAfterFacts
<1>7. AOK' /\ qp'["a"].refs \in Nat
  BY ONLY Inv, r \in Reads, <1>1, <1>5, <1>6, R = [rd EXCEPT ![r] = d], TxStep
<1> QED
  BY <1>1, <1>7, QpAfterFacts

\* A step that leaves the reads and the receive handler of the requester alone
\* but for the frame it takes up, and the reference that needs.
LEMMA HandleA ==
  ASSUME Inv, NEW r \in Reads, rd[r].pos = "list", rx.pc = "idle",
         rx' = [pc |-> "handle", r |-> r, f |-> rx'.f], rx'.f \in DataFrame \cup StatFrame,
         rx'.f.psn = r, rd' = [rd EXCEPT ![r].refs = @ + 1], UNCHANGED <<slots, post>>,
         qp' = [qp EXCEPT !["a"].refs = @ + 1]
  PROVE  AOK' /\ qp' \in [Ends -> QpRec]
<1> PICK c : c = rd[r]
  OBVIOUS
<1> PICK d : d = [c EXCEPT !.refs = @ + 1]
  OBVIOUS
<1>0. /\ rd \in [Reads -> ReadRec] /\ c \in ReadRec /\ c.refs \in Nat /\ c.refs > 0 /\ slots \in Nat
      /\ qp \in [Ends -> QpRec] /\ qp["a"].refs \in Nat
  BY ReadFacts, HolderFacts DEF InHands
<1>1. rd' = [rd EXCEPT ![r] = d]
  BY <1>0
<1>2. /\ d \in ReadRec /\ d.refs = c.refs + 1 /\ d.pos = c.pos /\ d.slot = c.slot /\ d.tx = c.tx
      /\ d.armed = c.armed
  <2> PICK n \in Nat : n = c.refs + 1
    BY <1>0
  <2>1. d = [c EXCEPT !.refs = n]
    OBVIOUS
  <2> QED
    BY ONLY <1>0, <2>1, n \in Nat, n = c.refs + 1 DEF ReadRec
<1>3. rd' \in [Reads -> ReadRec] /\ rd'[r] = d /\ \A s \in Reads : s # r => rd'[s] = rd[s]
  BY <1>0, <1>1, <1>2
<1>4. rx'.pc = "handle" /\ rx'.r = r
  OBVIOUS
<1>5. ASSUME NEW s \in Reads
      PROVE  /\ rd'[s].refs = ReadHolders(s)' /\ rd'[s].pos = rd[s].pos /\ rd'[s].slot = rd[s].slot
             /\ rd'[s].tx = rd[s].tx /\ rd'[s].armed = rd[s].armed
             /\ (rd[s].refs > 0 <=> rd'[s].refs > 0) /\ ~(rd[s].refs > 0 /\ rd'[s].refs = 0)
  <2>1. rd[s].refs = ReadHolders(s) /\ rd[s].refs \in Nat
    BY ReadFacts
  <2>2. CASE s = r
    <3>1. rd'[s].refs = ReadHolders(s)'
      BY <1>2, <1>3, <1>4, <2>1, <2>2 DEF ReadHolders, B
    <3> QED
      BY <1>0, <1>2, <1>3, <2>2, <3>1
  <2>3. CASE s # r
    <3>1. rd'[s].refs = ReadHolders(s)'
      BY <1>3, <1>4, <2>1, <2>3 DEF ReadHolders, B
    <3> QED
      BY <1>3, <2>1, <2>3, <3>1
  <2> QED
    BY <2>2, <2>3
<1>6. PostOK'
  <2>1. /\ \A s \in Reads : rd'[s].pos = rd[s].pos /\ rd'[s].tx = rd[s].tx /\ rd'[s].armed = rd[s].armed
    BY <1>5
  <2> QED
    BY <2>1 DEF Inv, AOK, PostOK
<1>7. SlotOK'
  <2>1. \A s \in Reads : rd'[s].pos = "none" => rd'[s].refs = 0
    BY <1>2, <1>3, <1>5 DEF Inv, AOK, SlotOK
  <2> QED
    BY <1>5, <2>1 DEF Inv, AOK, SlotOK
<1>8. {s \in Reads : rd[s].slot /\ ~rd'[s].slot} = {} /\ Freed(rd') = {}
  BY <1>5 DEF Freed
<1>9. /\ slots' = slots - Cardinality({s \in Reads : rd[s].slot /\ ~rd'[s].slot})
  <2>1. Cardinality({s \in Reads : rd[s].slot /\ ~rd'[s].slot}) = 0
    BY <1>8, NothingFreed
  <2>2. slots - 0 = slots
    BY <1>0
  <2> QED
    BY <2>1, <2>2
<1>10. qp' \in [Ends -> QpRec] /\ qp'["a"].refs = qp["a"].refs + 1 /\ qp'["a"].st = qp["a"].st
  BY <1>0 DEF Ends, QpRec
<1>11. qp'["a"].refs = qp["a"].refs - Cardinality(Freed(rd')) - B(rx.pc = "handle") + B(rx'.pc = "handle")
  <2>1. Cardinality(Freed(rd')) = 0 /\ B(rx.pc = "handle") = 0 /\ B(rx'.pc = "handle") = 1
    BY <1>4, <1>8, NothingFreed DEF B
  <2> QED
    BY <1>0, <1>10, <2>1
<1>12. post' \in [pc : {"idle", "queue", "send"}, r : 0..MaxReads]
  BY DEF Inv, AOK, ATypes
<1>13. \A s \in Reads : rd'[s].refs > 0 => rd[s].refs > 0
  BY <1>5
<1>14. \A s \in Reads : rd'[s].slot => rd[s].slot
  BY <1>5
<1>15. \A s \in Reads : rd'[s].refs = ReadHolders(s)'
  BY <1>5
<1>16. /\ rx'.pc \in {"idle", "handle"} /\ (rx'.pc = "idle" => rx' = IdleRx)
       /\ (rx'.pc = "handle" => rx'.r \in Reads /\ rx'.f \in DataFrame \cup StatFrame /\ rx'.f.psn = rx'.r)
  BY <1>4
<1>17. rd' \in [Reads -> ReadRec] /\ (qp'["a"].st = "gone" <=> qp["a"].st = "gone")
  BY <1>3, <1>10
<1>18. AOK'
  BY ONLY Inv, <1>17, <1>16, <1>6, <1>7, <1>9, <1>11, <1>12, <1>13, <1>14, <1>15, ReadsMoved
<1> QED
  BY <1>10, <1>18

\* The frames under way, and the one that arrives.
LEMMA HeadFacts ==
  ASSUME Inv
  PROVE  /\ wire.req # <<>> => Head(wire.req) \in ReqFrame /\ Tail(wire.req) \in Seq(ReqFrame)
         /\ wire.ack # <<>> => Head(wire.ack) \in AckFrame /\ Tail(wire.ack) \in Seq(AckFrame)
         /\ wire.data # <<>> => Head(wire.data) \in DataFrame /\ Tail(wire.data) \in Seq(DataFrame)
         /\ wire.stat # <<>> => Head(wire.stat) \in StatFrame /\ Tail(wire.stat) \in Seq(StatFrame)
<1>1. wire \in [req : Seq(ReqFrame), ack : Seq(AckFrame), data : Seq(DataFrame), stat : Seq(StatFrame)]
  BY DEF Inv, EnvOK, EnvTypes, WireSet
<1>2. /\ wire.req \in Seq(ReqFrame) /\ wire.ack \in Seq(AckFrame) /\ wire.data \in Seq(DataFrame)
      /\ wire.stat \in Seq(StatFrame)
  BY <1>1
<1> QED
  BY <1>2

\* A response is looked up.
LEMMA RespArriveA ==
  ASSUME Inv, NEW w, RespArrive(w)
  PROVE  AOK' /\ qp' \in [Ends -> QpRec]
<1> PICK f : f = Head(wire[w])
  OBVIOUS
<1>1. f \in DataFrame \cup StatFrame /\ f.psn \in Reads
  <2>1. w \in {"data", "stat"} /\ wire[w] # <<>>
    BY DEF RespArrive
  <2>2. wire["data"] = wire.data /\ wire["stat"] = wire.stat
    OBVIOUS
  <2>3. f \in DataFrame \cup StatFrame
    BY <2>1, <2>2, HeadFacts
  <2> QED
    BY <2>3 DEF DataFrame, StatFrame
<1>2. rx = IdleRx /\ UNCHANGED <<slots, post>>
  BY DEF RespArrive
<1>3. \/ UNCHANGED <<rx, rd, qp>>
      \/ /\ rd[f.psn].pos = "list" /\ rx' = [pc |-> "handle", r |-> f.psn, f |-> f]
         /\ rd' = [rd EXCEPT ![f.psn].refs = @ + 1] /\ qp' = [qp EXCEPT !["a"].refs = @ + 1]
  BY DEF RespArrive
<1>4. CASE UNCHANGED <<rx, rd, qp>>
  BY <1>2, <1>4, AKept, ReadFacts
<1>5. CASE /\ rd[f.psn].pos = "list" /\ rx' = [pc |-> "handle", r |-> f.psn, f |-> f]
           /\ rd' = [rd EXCEPT ![f.psn].refs = @ + 1] /\ qp' = [qp EXCEPT !["a"].refs = @ + 1]
  <2> PICK r \in Reads : r = f.psn
    BY <1>1
  <2>1. rx'.f = f /\ rx.pc = "idle"
    BY <1>2, <1>5 DEF IdleRx
  <2>2. /\ rx' = [pc |-> "handle", r |-> r, f |-> rx'.f] /\ rx'.f \in DataFrame \cup StatFrame /\ rx'.f.psn = r
        /\ rd' = [rd EXCEPT ![r].refs = @ + 1] /\ rd[r].pos = "list" /\ qp' = [qp EXCEPT !["a"].refs = @ + 1]
    BY <1>1, <1>5, <2>1
  <2> QED
    BY <1>2, <2>1, <2>2, HandleA
<1> QED
  BY <1>3, <1>4, <1>5

\* A non-empty set of naturals has a least element.
LEMMA Least ==
  ASSUME NEW T, T \subseteq Nat, T # {}
  PROVE  \E x \in T : \A y \in T : x <= y
<1>1. \E x \in T : \A y \in T : ~(<<y, x>> \in OpToRel(<, Nat))
  BY NatLessThanWellFounded, WFMin
<1> PICK x \in T : \A y \in T : ~(<<y, x>> \in OpToRel(<, Nat))
  BY <1>1
<1>2. ASSUME NEW y \in T PROVE x <= y
  <2>1. ~(y < x)
    BY DEF OpToRel
  <2>2. x \in Nat /\ y \in Nat
    OBVIOUS
  <2> QED
    BY ONLY <2>1, <2>2
<1> QED
  BY <1>2

\* The fragments in front.
LEMMA ContiguousFacts ==
  ASSUME NEW c \in ReadRec
  PROVE  /\ Contiguous(c) \in c.got..MaxFrags
         /\ \A k \in c.got..(Contiguous(c) - 1) : k \in c.buf
         /\ Contiguous(c) \notin c.buf
<1>1. c.got \in 0..MaxFrags /\ c.buf \in SUBSET (0..(MaxFrags - 1)) /\ MaxFrags \in Nat
  BY CountFacts DEF ReadRec, Ks
<1> PICK T : T = {n \in c.got..MaxFrags : n \notin c.buf}
  OBVIOUS
<1>2. T \subseteq Nat /\ MaxFrags \in T
  BY <1>1
<1> PICK n \in T : \A m \in T : n <= m
  BY <1>2, Least
<1>3. n \in c.got..MaxFrags /\ n \notin c.buf /\ \A k \in c.got..(n - 1) : k \in c.buf
  <2>1. ASSUME NEW k \in c.got..(n - 1), k \notin c.buf PROVE FALSE
    BY <1>1, <2>1
  <2> QED
    BY <2>1
<1>4. \E m \in c.got..MaxFrags : (\A k \in c.got..(m - 1) : k \in c.buf) /\ m \notin c.buf
  BY <1>3
<1> QED
  BY <1>4 DEF Contiguous

\* The handler's copy changes the data only.
SameButData(c, d) ==
  /\ d \in ReadRec /\ d.pos = c.pos /\ d.slot = c.slot /\ d.tx = c.tx /\ d.armed = c.armed
  /\ d.refs = c.refs /\ d.ready = c.ready /\ d.status = c.status /\ d.res = c.res
  /\ d.since = c.since

\* A fragment is kept, out of order.
Kept(c, f) == [c EXCEPT !.buf = @ \cup {f.k}, !.data[f.k] = f.ver]

\* A fragment that is kept or copied touches only the data of its read.
LEMMA CopyFacts ==
  ASSUME NEW c \in ReadRec, NEW f \in DataFrame
  PROVE  /\ SameButData(c, Kept(c, f)) /\ Kept(c, f).got = c.got
         /\ Kept(c, f).buf = c.buf \cup {f.k} /\ Kept(c, f).data = [c.data EXCEPT ![f.k] = f.ver]
         /\ f.k = c.got => /\ SameButData(c, Copied(c, f)) /\ Copied(c, f).got > c.got
                           /\ \A k \in (c.got + 1)..(Copied(c, f).got - 1) : k \in c.buf
                           /\ Copied(c, f).buf \subseteq c.buf
                           /\ Copied(c, f).data = [c.data EXCEPT ![f.k] = f.ver]
<1>1. f.k \in Ks /\ f.ver \in Nat /\ c.data \in [Ks -> Nat] /\ c.buf \in SUBSET Ks /\ c.got \in 0..MaxFrags
  BY DEF DataFrame, ReadRec
<1> PICK D \in [Ks -> Nat] : D = [c.data EXCEPT ![f.k] = f.ver]
  BY <1>1
<1>2. /\ SameButData(c, Kept(c, f)) /\ Kept(c, f).got = c.got
      /\ Kept(c, f).buf = c.buf \cup {f.k} /\ Kept(c, f).data = D
  <2> PICK E \in SUBSET Ks : E = c.buf \cup {f.k}
    BY <1>1
  <2>1. Kept(c, f) = [c EXCEPT !.buf = E, !.data = D]
    BY DEF Kept
  <2> QED
    BY ONLY c \in ReadRec, <2>1, D \in [Ks -> Nat], E \in SUBSET Ks, E = c.buf \cup {f.k} DEF ReadRec, SameButData
<1>3. ASSUME f.k = c.got
      PROVE  /\ SameButData(c, Copied(c, f)) /\ Copied(c, f).got > c.got
             /\ \A k \in (c.got + 1)..(Copied(c, f).got - 1) : k \in c.buf
             /\ Copied(c, f).buf \subseteq c.buf /\ Copied(c, f).data = D
  <2>1. MaxFrags \in Nat
    BY CountFacts
  <2> PICK n \in 0..MaxFrags : n = c.got + 1
    BY <1>1, <1>3, <2>1 DEF Ks
  <2> PICK d : d = [c EXCEPT !.got = n, !.data = D]
    OBVIOUS
  <2>2. SameButData(c, d) /\ d.got = n /\ d.buf = c.buf /\ d.data = D
    BY ONLY c \in ReadRec, d = [c EXCEPT !.got = n, !.data = D], D \in [Ks -> Nat], n \in 0..MaxFrags DEF ReadRec, SameButData
  <2> PICK m : m = Contiguous(d)
    OBVIOUS
  <2>3. m \in d.got..MaxFrags /\ \A k \in d.got..(m - 1) : k \in d.buf
    BY <2>2, ContiguousFacts DEF SameButData
  <2>4. m \in 0..MaxFrags /\ m > c.got
    BY <1>1, <2>1, <2>2, <2>3
  <2> PICK E \in SUBSET Ks : E = d.buf \ (0..(m - 1))
    BY <1>1, <2>2
  <2>5. Copied(c, f) = [d EXCEPT !.got = m, !.buf = E]
    <3>1. d = [c EXCEPT !.got = @ + 1, !.data[f.k] = f.ver]
      BY <1>1
    <3> QED
      BY <3>1 DEF Copied
  <2>6. /\ SameButData(d, Copied(c, f)) /\ Copied(c, f).got = m /\ Copied(c, f).buf = E
        /\ Copied(c, f).data = d.data
    <3>1. d \in ReadRec
      BY <2>2 DEF SameButData
    <3> QED
      BY ONLY <3>1, <2>4, <2>5, E \in SUBSET Ks DEF ReadRec, SameButData
  <2>7. SameButData(c, Copied(c, f))
    BY <2>2, <2>6 DEF SameButData
  <2> QED
    BY <2>2, <2>3, <2>4, <2>6, <2>7
<1> QED
  BY <1>2, <1>3

\* A read whose place, transmission, timer and references are those of c.
Alike(c, d) ==
  /\ d \in ReadRec /\ d.pos = c.pos /\ d.slot = c.slot /\ d.tx = c.tx /\ d.armed = c.armed
  /\ d.refs = c.refs

\* One read in the handler's hands, some that complete.
Handled(M, H, r) ==
  [q \in Reads |-> LET d == IF q \in H THEN Done(M[q], M[q].status) ELSE M[q]
                   IN IF q = r THEN PutRead(d) ELSE d]

\* The handler puts its reference; the reads it completes put the list's.
LEMMA HandledA ==
  ASSUME Inv, NEW r \in Reads, rx.pc = "handle", rx.r = r, rx' = IdleRx, UNCHANGED post,
         NEW M \in [Reads -> ReadRec], \A q \in Reads : Alike(rd[q], M[q]),
         NEW H, \A q \in H \cap Reads : M[q].pos = "list",
         NEW P, P = Handled(M, H, r), SetReads(P),
         qp' = [QpAfter(P) EXCEPT !["a"].refs = @ - 1]
  PROVE  /\ AOK' /\ qp' \in [Ends -> QpRec]
         /\ qp'["b"] = qp["b"] /\ qp'["a"].st = qp["a"].st
         /\ \A q \in Reads : rd'[q].pos # "none" => rd[q].pos # "none"
<1>1. \A q \in Reads : Others(q) - Others(q)' = IF q = r THEN 1 ELSE 0
  BY DEF Others, B, IdleRx
<1>2. ASSUME NEW q \in Reads
      PROVE  Moves(rd[q], P[q], Others(q) - Others(q)') /\ (rd[q].pos = "post" => P[q].pos = "post")
  <2> PICK c : c = rd[q]
    OBVIOUS
  <2> PICK m : m = M[q]
    OBVIOUS
  <2> PICK d : d = IF q \in H THEN Done(m, m.status) ELSE m
    OBVIOUS
  <2>1. /\ c \in ReadRec /\ c.refs \in Nat /\ Moves(c, c, 0) /\ Others(q) \in Nat
        /\ c.refs = Others(q) + B(c.pos \in InHands) + B(c.tx # "none")
    BY SameMoves, HolderFacts
  <2>2. /\ m \in ReadRec /\ m.pos = c.pos /\ m.slot = c.slot /\ m.tx = c.tx /\ m.armed = c.armed
        /\ m.refs = c.refs
    BY DEF Alike
  <2>3. c.refs > (IF q = r THEN 1 ELSE 0) + B(c.pos \in InHands) - 1 /\ c.refs >= (IF q = r THEN 1 ELSE 0) + B(c.pos \in InHands)
    <3>1. Others(q) >= IF q = r THEN 1 ELSE 0
      BY DEF Others, B
    <3>2. B(c.pos \in InHands) \in {0, 1} /\ B(c.tx # "none") \in {0, 1}
      BY DEF B
    <3> PICK a, b, o : a = B(c.pos \in InHands) /\ b = B(c.tx # "none") /\ o = Others(q)
      OBVIOUS
    <3>3. a \in {0, 1} /\ b \in {0, 1} /\ o \in Nat /\ c.refs = o + a + b /\ o >= IF q = r THEN 1 ELSE 0
      BY <2>1, <3>1, <3>2
    <3>4. c.refs > (IF q = r THEN 1 ELSE 0) + a - 1 /\ c.refs >= (IF q = r THEN 1 ELSE 0) + a
      BY ONLY <3>3
    <3> QED
      BY ONLY <3>4, a = B(c.pos \in InHands)
  <2>4. /\ d \in ReadRec /\ d.tx = c.tx /\ d.armed = c.armed
        /\ d.refs = c.refs - (B(c.pos \in InHands) - B(d.pos \in InHands))
        /\ d.pos = (IF q \in H THEN "off" ELSE c.pos)
        /\ d.slot = (IF q \in H THEN FALSE ELSE c.slot)
        /\ d.refs >= IF q = r THEN 1 ELSE 0
    <3>1. CASE q \in H
      <4>1. d = Done(m, m.status) /\ m.pos = "list"
        BY <3>1
      <4>2. m.status \in {"ok", "error", "timeout", "flush", "rejected", "none"}
        BY <2>2 DEF ReadRec
      <4>3. B(c.pos \in InHands) = 1
        BY <2>2, <4>1 DEF B, InHands
      <4>4. m.refs > 0
        BY <2>1, <2>2, <2>3, <4>3
      <4>5. d \in ReadRec /\ d.tx = m.tx /\ d.armed = m.armed /\ d.refs = m.refs - 1 /\ d.pos = "off" /\ d.slot = FALSE
        BY ONLY <2>2, <4>1, <4>2, <4>4, DoneFacts
      <4>6. B(d.pos \in InHands) = 0
        BY <4>5 DEF B, InHands
      <4>7. d.refs = c.refs - (1 - 0) /\ d.refs >= IF q = r THEN 1 ELSE 0
        BY <2>1, <2>2, <2>3, <4>3, <4>5
      <4> QED
        BY <2>2, <3>1, <4>3, <4>5, <4>6, <4>7
    <3>2. CASE q \notin H
      <4>1. d = m
        BY <3>2
      <4>2. B(d.pos \in InHands) = B(c.pos \in InHands) /\ B(c.pos \in InHands) \in {0, 1}
        BY <2>2, <4>1 DEF B
      <4>3. \A b : b \in {0, 1} => c.refs = c.refs - (b - b)
        BY <2>1
      <4>4. d.refs >= IF q = r THEN 1 ELSE 0
        BY <2>1, <2>2, <2>3, <4>1, <4>2
      <4> QED
        BY <2>2, <3>2, <4>1, <4>2, <4>3, <4>4
    <3> QED
      BY <3>1, <3>2
  <2>5. P[q] = IF q = r THEN PutRead(d) ELSE d
    BY DEF Handled
  <2>6. /\ P[q] \in ReadRec /\ P[q].tx = c.tx /\ P[q].armed = c.armed /\ P[q].pos = d.pos /\ P[q].slot = d.slot
        /\ P[q].refs = d.refs - IF q = r THEN 1 ELSE 0
    <3>1. CASE q = r
      <4>1. d.refs > 0
        <5>1. d.refs >= 1 /\ d.refs \in Nat
          BY <2>4, <3>1 DEF ReadRec
        <5> QED
          BY ONLY <5>1
      <4>2. /\ PutRead(d) \in ReadRec /\ PutRead(d).refs = d.refs - 1 /\ PutRead(d).pos = d.pos
            /\ PutRead(d).slot = d.slot /\ PutRead(d).tx = d.tx /\ PutRead(d).armed = d.armed
        BY ONLY <2>4, <4>1, PutFacts
      <4> QED
        BY <2>4, <2>5, <3>1, <4>2
    <3>2. CASE q # r
      <4>1. d.refs - 0 = d.refs
        BY <2>4 DEF ReadRec
      <4> QED
        BY <2>4, <2>5, <3>2, <4>1
    <3> QED
      BY <3>1, <3>2
  <2>7. q \in H => c.pos = "list"
    BY <2>2
  <2>8. /\ P[q].refs = c.refs - (Others(q) - Others(q)') - (B(c.pos \in InHands) - B(P[q].pos \in InHands))
                              - (B(c.tx # "none") - B(P[q].tx # "none"))
    <3> PICK a, b, t, x : a = B(c.pos \in InHands) /\ b = B(d.pos \in InHands) /\ t = B(c.tx # "none")
                          /\ x = IF q = r THEN 1 ELSE 0
      OBVIOUS
    <3>1. a \in {0, 1} /\ b \in {0, 1} /\ t \in {0, 1} /\ x \in {0, 1}
      BY DEF B
    <3>2. c.refs - (a - b) - x = c.refs - x - (a - b) - (t - t)
      BY <2>1, <3>1
    <3>3. P[q].refs = c.refs - (a - b) - x
      BY <2>4, <2>6
    <3>4. B(P[q].pos \in InHands) = b /\ B(P[q].tx # "none") = t /\ Others(q) - Others(q)' = x
      BY <1>1, <2>6
    <3> QED
      BY <3>2, <3>3, <3>4
  <2> QED
    BY <2>1, <2>4, <2>6, <2>7, <2>8 DEF Moves
<1>3. P \in [Reads -> ReadRec]
  <2>1. \A q \in Reads : P[q] \in ReadRec
    BY <1>2 DEF Moves
  <2> QED
    BY <2>1 DEF Handled
<1>4. /\ qp'["a"].refs = qp["a"].refs - Cardinality(Freed(P)) - 1 /\ qp'["a"].st = qp["a"].st
      /\ QpAfter(P)["a"].refs = qp["a"].refs - Cardinality(Freed(P))
  BY QpAfterFacts DEF Ends
<1>5. qp'["a"].refs = qp["a"].refs - Cardinality(Freed(P)) - B(rx.pc = "handle") + B(rx'.pc = "handle")
  <2>1. B(rx.pc = "handle") = 1 /\ B(rx'.pc = "handle") = 0
    BY DEF B, IdleRx
  <2>2. Cardinality(Freed(P)) \in Nat
    BY CountFacts DEF Freed
  <2> QED
    BY <1>4, <2>1, <2>2, ReadFacts
<1>6. AOK' /\ qp'["a"].refs \in Nat
  <2>1. rd' = P /\ slots' = slots - Cardinality({s \in Reads : rd[s].slot /\ ~P[s].slot})
    BY DEF SetReads
  <2>2. \A q \in Reads : rd[q].pos = "post" => (P[q].pos = "post" <=> post' = post)
    BY <1>2
  <2>3. post' \in {post, IdlePost} /\ rx' \in {rx, IdleRx} /\ (qp'["a"].st = "gone" <=> qp["a"].st = "gone")
    BY <1>4
  <2>4. \A q \in Reads : Moves(rd[q], P[q], Others(q) - Others(q)')
    BY <1>2
  <2> QED
    BY ONLY Inv, <1>3, <1>5, <2>1, <2>2, <2>3, <2>4, ReadsLeft
<1>7. qp' \in [Ends -> QpRec]
  <2> PICK n \in Nat : n = qp'["a"].refs
    BY <1>6
  <2>1. QpAfter(P)["a"].refs \in Nat
    BY <1>4, <1>6, ReadFacts, CountFacts DEF Freed
  <2>2. QpAfter(P) \in [Ends -> QpRec]
    BY <2>1, QpAfterFacts
  <2>3. qp' = [QpAfter(P) EXCEPT !["a"].refs = n]
    BY <2>2, <1>4 DEF Ends
  <2> QED
    BY ONLY <2>2, <2>3, n \in Nat DEF QpRec
<1>8. qp'["b"] = qp["b"] /\ qp'["a"].st = qp["a"].st
  BY <1>4, QpAfterFacts DEF Ends
<1>9. \A q \in Reads : rd'[q].pos # "none" => rd[q].pos # "none"
  BY <1>2 DEF Moves, SetReads
<1> QED
  BY <1>6, <1>7, <1>8, <1>9

\* The frame's effect on its read.
NextOf(c, f) ==
  IF "ok" \in DOMAIN f THEN c
  ELSE IF f.k < c.got THEN c ELSE IF f.k > c.got THEN Kept(c, f) ELSE Copied(c, f)
\* The handler under read->data_lock takes its frame in, marks the read with
\* status st when that was the last one, and completes the reads H.
Handles(M, H, n, d, st) ==
  /\ \A q \in Reads : Alike(rd[q], M[q]) /\ (q # rx.r => M[q] = rd[q])
  /\ \A q \in H : M[q].pos = "list" /\ M[q].ready = TRUE
  /\ \A q \in H : \A p \in Reads : p < q /\ M[p].pos = "list" => p \in H
  /\ SameButData(rd[rx.r], n) /\ n = NextOf(rd[rx.r], rx.f)
  /\ d = TRUE => IF "ok" \in DOMAIN rx.f THEN st = "ok" => rx.f.ok = TRUE
                 ELSE st = "ok" /\ n.got = conf.len[rx.r]
  /\ \/ M[rx.r] = n
     \/ d = TRUE /\ n.ready = FALSE /\ M[rx.r] = [n EXCEPT !.ready = TRUE, !.status = st]

\* The handler is one of those.
LEMMA RespHandleShape ==
  ASSUME Inv, RespHandle
  PROVE  \E M \in [Reads -> ReadRec], H \in SUBSET Reads, n \in ReadRec, d \in BOOLEAN, st \in {"ok", "error"} :
           \E P :
           /\ Handles(M, H, n, d, st) /\ P = Handled(M, H, rx.r) /\ SetReads(P)
           /\ qp' = [QpAfter(P) EXCEPT !["a"].refs = @ - 1]
<1> DEFINE f == rx.f
           c == rd[rx.r]
           status == "ok" \in DOMAIN f
           late == ~status /\ f.k < c.got
           gap == ~status /\ f.k > c.got
           next == IF status THEN c
                   ELSE IF late THEN c
                   ELSE IF gap THEN [c EXCEPT !.buf = @ \cup {f.k}, !.data[f.k] = f.ver]
                   ELSE Copied(c, f)
           done == IF status THEN TRUE ELSE ~late /\ ~gap /\ next.got = conf.len[rx.r]
           bad == status /\ ~f.ok
           N == [rd EXCEPT ![rx.r] = next]
           R == IF done THEN CompleteOrdered(N, rx.r, IF bad THEN "error" ELSE "ok") ELSE N
           Q == [R EXCEPT ![rx.r] = PutRead(@)]
<1>1. /\ rx.pc = "handle" /\ rx' = IdleRx /\ SetReads(Q) /\ UNCHANGED post
      /\ qp' = [QpAfter(Q) EXCEPT !["a"].refs = @ - 1]
  BY DEF RespHandle
<1> PICK r : r = rx.r
  OBVIOUS
<1>2. r \in Reads /\ f \in DataFrame \cup StatFrame
  BY <1>1 DEF Inv, AOK, ATypes
<1>3. rd \in [Reads -> ReadRec] /\ rd[r] \in ReadRec
  BY <1>2, ReadFacts
<1>4. SameButData(rd[r], next)
  <2>0. SameButData(c, c)
    BY <1>3 DEF SameButData
  <2>1. CASE f \in StatFrame
    <3>1. "ok" \in DOMAIN f
      BY <2>1 DEF StatFrame
    <3> QED
      BY <2>0, <3>1
  <2>2. CASE f \in DataFrame
    <3>1. "ok" \notin DOMAIN f /\ f.k \in Int
      BY <2>2, CountFacts DEF DataFrame, Ks
    <3>2. c.got \in Int
      BY <1>3, CountFacts DEF ReadRec
    <3>3. SameButData(c, Kept(c, f)) /\ (f.k = c.got => SameButData(c, Copied(c, f)))
      BY <1>3, <2>2, CopyFacts
    <3>4. CASE f.k < c.got
      <4>1. next = c
        BY <3>1, <3>4
      <4> QED
        BY <2>0, <4>1
    <3>5. CASE f.k > c.got
      <4>1. next = Kept(c, f)
        BY <3>1, <3>2, <3>5 DEF Kept
      <4> QED
        BY <3>3, <4>1
    <3>6. CASE f.k = c.got
      <4>1. next = Copied(c, f)
        BY <3>1, <3>2, <3>6
      <4> QED
        BY <3>3, <3>6, <4>1
    <3> QED
      BY <3>1, <3>2, <3>4, <3>5, <3>6
  <2> QED
    BY <1>2, <2>1, <2>2
<1> PICK n : n = next
  OBVIOUS
<1> PICK st \in {"ok", "error"} : st = IF bad THEN "error" ELSE "ok"
  OBVIOUS
<1> PICK d \in BOOLEAN : d = done
  OBVIOUS
<1>5. Q = [(IF d THEN CompleteOrdered([rd EXCEPT ![r] = n], r, st) ELSE [rd EXCEPT ![r] = n]) EXCEPT ![r] = PutRead(@)]
  OBVIOUS
<1>6. SameButData(rd[r], n)
  BY <1>4
<1>n. n = NextOf(rd[r], rx.f)
  BY DEF NextOf, Kept
<1>d. d = TRUE => IF "ok" \in DOMAIN rx.f THEN st = "ok" => rx.f.ok = TRUE
                  ELSE st = "ok" /\ n.got = conf.len[r]
  <2>1. CASE "ok" \in DOMAIN rx.f
    <3>1. rx.f \in StatFrame
      BY <1>2, <2>1 DEF StatFrame, DataFrame
    <3>2. rx.f.ok \in BOOLEAN
      BY <3>1 DEF StatFrame
    <3> QED
      BY <2>1, <3>2
  <2>2. CASE "ok" \notin DOMAIN rx.f
    BY <2>2
  <2> QED
    BY <2>1, <2>2
<1> HIDE DEF Q, R, N, bad, done, next, gap, late, status
<1> PICK K : K = [rd EXCEPT ![r] = n]
  OBVIOUS
<1>7. K \in [Reads -> ReadRec] /\ K[r] = n /\ \A q \in Reads : q # r => K[q] = rd[q]
  BY <1>2, <1>3, <1>6 DEF SameButData
<1>8. \A q \in Reads : Alike(rd[q], K[q])
  <2>1. \A q \in Reads : rd[q] \in ReadRec
    BY <1>3
  <2> QED
    BY <1>6, <1>7, <2>1 DEF SameButData, Alike
<1>9. \E M \in [Reads -> ReadRec], H \in SUBSET Reads :
        /\ \A q \in Reads : Alike(rd[q], M[q]) /\ (q # r => M[q] = rd[q])
        /\ \A q \in H : M[q].pos = "list" /\ M[q].ready = TRUE
        /\ \A q \in H : \A p \in Reads : p < q /\ M[p].pos = "list" => p \in H
        /\ M[r] = n \/ (d = TRUE /\ n.ready = FALSE /\ M[r] = [n EXCEPT !.ready = TRUE, !.status = st])
        /\ Q = Handled(M, H, r)
  <2>1. CASE d = FALSE \/ K[r].pos # "list"
    <3>1. Q = [K EXCEPT ![r] = PutRead(@)]
      BY <1>5, <2>1 DEF CompleteOrdered
    <3>2. Q = Handled(K, {}, r)
      BY <1>7, <3>1 DEF Handled
    <3> QED
      BY <1>7, <1>8, <3>2
  <2>2. CASE d = TRUE /\ K[r].pos = "list"
    <3> DEFINE M0 == IF K[r].ready THEN K ELSE [K EXCEPT ![r].ready = TRUE, ![r].status = st]
               H0 == {q \in Reads : M0[q].pos = "list" /\ \A p \in 1..q : M0[p].pos = "list" => M0[p].ready}
    <3> PICK C : C = CompleteOrdered(K, r, st)
      OBVIOUS
    <3>0. C = [q \in Reads |-> IF q \in H0 THEN Done(M0[q], M0[q].status) ELSE M0[q]]
      BY <2>2, Zenon DEF CompleteOrdered, Done
    <3> PICK M : M = M0
      OBVIOUS
    <3> PICK H : H = H0
      OBVIOUS
    <3>a. /\ M = IF K[r].ready THEN K ELSE [K EXCEPT ![r].ready = TRUE, ![r].status = st]
          /\ H \in SUBSET Reads /\ \A q \in H : M[q].pos = "list"
          /\ H = {q \in Reads : M[q].pos = "list" /\ \A p \in 1..q : M[p].pos = "list" => M[p].ready}
      OBVIOUS
    <3> HIDE DEF M0, H0
    <3>1. C = [q \in Reads |-> IF q \in H THEN Done(M[q], M[q].status) ELSE M[q]]
      BY <3>0
    <3>2. Q = [C EXCEPT ![r] = PutRead(@)]
      BY <1>5, <2>2
    <3>b. Handled(M, H, r) = [q \in Reads |-> IF q = r THEN PutRead(C[q]) ELSE C[q]]
      BY <3>1 DEF Handled
    <3>3. Q = Handled(M, H, r)
      <4>1. C = [q \in Reads |-> C[q]]
        BY <3>1
      <4> QED
        BY ONLY <1>2, <3>2, <3>b, <4>1
    <3>4. M \in [Reads -> ReadRec] /\ \A q \in Reads : Alike(K[q], M[q])
      <4>0. \A q \in Reads : K[q] \in ReadRec
        BY <1>7
      <4>1. CASE K[r].ready
        BY <1>7, <3>a, <4>0, <4>1 DEF Alike
      <4>2. CASE ~K[r].ready
        <5> PICK k : k = [n EXCEPT !.ready = TRUE, !.status = st]
          OBVIOUS
        <5>1. n \in ReadRec
          BY <1>6 DEF SameButData
        <5>2. Alike(n, k)
          BY ONLY <5>1, k = [n EXCEPT !.ready = TRUE, !.status = st], st \in {"ok", "error"} DEF ReadRec, Alike
        <5>3. M = [K EXCEPT ![r] = k]
          BY <1>2, <1>7, <3>a, <4>2
        <5>4. k \in ReadRec
          BY <5>2 DEF Alike
        <5>5. M \in [Reads -> ReadRec] /\ M[r] = k /\ \A q \in Reads : q # r => M[q] = K[q]
          BY <1>2, <1>7, <5>3, <5>4
        <5> QED
          BY <1>7, <4>0, <5>2, <5>5 DEF Alike
      <4> QED
        BY <4>1, <4>2
    <3>5. \A q \in Reads : Alike(rd[q], M[q])
      BY <1>8, <3>4 DEF Alike
    <3>6. /\ H \in SUBSET Reads /\ \A q \in H : M[q].pos = "list" /\ M[q].ready = TRUE
          /\ \A q \in H : \A p \in Reads : p < q /\ M[p].pos = "list" => p \in H
      <4>1. MaxReads \in Nat /\ \A q \in Reads : M[q].ready \in BOOLEAN
        BY <3>4, CountFacts DEF ReadRec
      <4>2. \A q \in Reads : q \in 1..q /\ \A p \in Reads : p < q => 1..p \subseteq 1..q
        BY <4>1 DEF Reads
      <4> QED
        BY <3>a, <4>1, <4>2
    <3>7. /\ \A q \in Reads : q # r => M[q] = rd[q]
          /\ M[r] = n \/ (d = TRUE /\ n.ready = FALSE /\ M[r] = [n EXCEPT !.ready = TRUE, !.status = st])
      <4>1. CASE K[r].ready
        BY <1>7, <3>a, <4>1
      <4>2. CASE ~K[r].ready
        <5>1. n.ready = FALSE
          BY <1>6, <1>7, <4>2 DEF SameButData, ReadRec
        <5> PICK k : k = [n EXCEPT !.ready = TRUE, !.status = st]
          OBVIOUS
        <5>2. M = [K EXCEPT ![r] = k]
          BY <1>2, <1>7, <3>a, <4>2
        <5>3. M[r] = k /\ \A q \in Reads : q # r => M[q] = K[q]
          BY <1>2, <1>7, <5>2
        <5> QED
          BY <1>7, <2>2, <5>1, <5>3
      <4> QED
        BY <4>1, <4>2
    <3> QED
      BY <3>3, <3>4, <3>5, <3>6, <3>7
  <2> QED
    BY <2>1, <2>2
<1> PICK M \in [Reads -> ReadRec], H \in SUBSET Reads :
        /\ \A q \in Reads : Alike(rd[q], M[q]) /\ (q # r => M[q] = rd[q])
        /\ \A q \in H : M[q].pos = "list" /\ M[q].ready = TRUE
        /\ \A q \in H : \A p \in Reads : p < q /\ M[p].pos = "list" => p \in H
        /\ M[r] = n \/ (d = TRUE /\ n.ready = FALSE /\ M[r] = [n EXCEPT !.ready = TRUE, !.status = st])
        /\ Q = Handled(M, H, r)
  BY <1>9
<1>10. Handles(M, H, n, d, st)
  BY <1>6, <1>n, <1>d DEF Handles
<1> PICK P : P = Q
  OBVIOUS
<1>11. P = Handled(M, H, rx.r) /\ SetReads(P) /\ qp' = [QpAfter(P) EXCEPT !["a"].refs = @ - 1]
  BY <1>1
<1>12. n \in ReadRec
  BY <1>6 DEF SameButData
<1> QED
  BY <1>10, <1>11, <1>12

\* The handler keeps the accounts.
LEMMA RespHandleA ==
  ASSUME Inv, RespHandle
  PROVE  /\ AOK' /\ qp' \in [Ends -> QpRec]
         /\ qp'["b"] = qp["b"] /\ qp'["a"].st = qp["a"].st
         /\ \A q \in Reads : rd'[q].pos # "none" => rd[q].pos # "none"
<1> PICK M \in [Reads -> ReadRec], H \in SUBSET Reads, n \in ReadRec, d \in BOOLEAN, st \in {"ok", "error"} :
           \E P :
           /\ Handles(M, H, n, d, st) /\ P = Handled(M, H, rx.r) /\ SetReads(P)
           /\ qp' = [QpAfter(P) EXCEPT !["a"].refs = @ - 1]
  BY RespHandleShape
<1> PICK P :
           /\ Handles(M, H, n, d, st) /\ P = Handled(M, H, rx.r) /\ SetReads(P)
           /\ qp' = [QpAfter(P) EXCEPT !["a"].refs = @ - 1]
  OBVIOUS
<1>1. rx.pc = "handle" /\ rx' = IdleRx /\ UNCHANGED post
  BY DEF RespHandle
<1> PICK r : r = rx.r
  OBVIOUS
<1>2. r \in Reads
  BY <1>1 DEF Inv, AOK, ATypes
<1>3. /\ P = Handled(M, H, r) /\ SetReads(P) /\ qp' = [QpAfter(P) EXCEPT !["a"].refs = @ - 1]
      /\ rx.pc = "handle" /\ rx.r = r /\ rx' = IdleRx /\ UNCHANGED post
      /\ M \in [Reads -> ReadRec] /\ \A q \in Reads : Alike(rd[q], M[q])
      /\ \A q \in H \cap Reads : M[q].pos = "list"
  BY <1>1 DEF Handles
<1> QED
  BY ONLY Inv, <1>2, <1>3, HandledA

\* Reads go on, the threads stay.
LEMMA AllMoveA ==
  ASSUME Inv, NEW R, SetReads(R), R = [r \in Reads |-> R[r]],
         \A r \in Reads : Moves(rd[r], R[r], 0) /\ (rd[r].pos = "post" => R[r].pos = "post"),
         UNCHANGED <<post, rx>>, qp'["a"].refs = qp["a"].refs - Cardinality(Freed(R)),
         qp'["a"].st = "gone" <=> qp["a"].st = "gone"
  PROVE  AOK' /\ qp'["a"].refs \in Nat
<1>1. \A s \in Reads : Others(s) - Others(s)' = 0
  BY DEF Others, B
<1>2. qp'["a"].refs = qp["a"].refs - Cardinality(Freed(R)) - B(rx.pc = "handle") + B(rx'.pc = "handle")
  <2>1. Cardinality(Freed(R)) \in Nat
    BY CountFacts DEF Freed
  <2> QED
    BY <2>1, ReadFacts DEF B
<1>3. \A s \in Reads : Moves(rd[s], R[s], Others(s) - Others(s)')
  BY <1>1
<1>4. R \in [Reads -> ReadRec]
  BY DEF Moves
<1>5. rd' = R /\ slots' = slots - Cardinality({s \in Reads : rd[s].slot /\ ~R[s].slot})
  BY DEF SetReads
<1>6. /\ post' \in {post, IdlePost} /\ rx' \in {rx, IdleRx}
      /\ \A r \in Reads : rd[r].pos = "post" => (R[r].pos = "post" <=> post' = post)
  OBVIOUS
<1> QED
  BY <1>2, <1>3, <1>4, <1>5, <1>6, ReadsLeft

\* A flush ends every read on the list.
LEMMA FlushMoves ==
  ASSUME Inv
  PROVE  /\ FlushReads(rd) = [r \in Reads |-> FlushReads(rd)[r]]
         /\ \A r \in Reads : /\ Moves(rd[r], FlushReads(rd)[r], 0)
                             /\ rd[r].pos = "post" => FlushReads(rd)[r].pos = "post"
<1> PICK R : R = FlushReads(rd)
  OBVIOUS
<1>1. R = [r \in Reads |-> IF rd[r].pos = "list" THEN Ended(rd[r], "flush") ELSE rd[r]]
  BY DEF FlushReads, Ended
<1>2. ASSUME NEW r \in Reads PROVE Moves(rd[r], R[r], 0) /\ (rd[r].pos = "post" => R[r].pos = "post")
  <2>1. CASE rd[r].pos = "list"
    <3>1. Moves(rd[r], Ended(rd[r], "flush"), 0)
      BY <2>1, EndMoves
    <3> QED
      BY <1>1, <2>1, <3>1
  <2>2. CASE rd[r].pos # "list"
    BY <1>1, <2>2, SameMoves
  <2> QED
    BY <2>1, <2>2
<1>3. R = [r \in Reads |-> R[r]]
  BY <1>1
<1> QED
  BY <1>2, <1>3

\* tbv_qp_timeout_reap_tx()
LEMMA TimeoutReapA ==
  ASSUME Inv, TimeoutReap
  PROVE  AOK' /\ qp' \in [Ends -> QpRec]
<1> PICK S \in SUBSET Waiting : SetReads(Reap(S))
  BY DEF TimeoutReap
<1>1. qp' = [qp EXCEPT !["a"].tw = FALSE] /\ UNCHANGED <<post, rx>>
  BY DEF TimeoutReap
<1> PICK R : R = Reap(S)
  OBVIOUS
<1>2. R = [r \in Reads |-> IF r \in S THEN [rd[r] EXCEPT !.pos = "reap", !.slot = FALSE] ELSE rd[r]]
  BY DEF Reap
<1>3. \A r \in S : r \in Reads /\ rd[r].pos = "list" /\ rd[r].armed
  BY DEF Waiting
<1>4. ASSUME NEW r \in Reads
      PROVE  /\ Moves(rd[r], R[r], 0) /\ (rd[r].pos = "post" => R[r].pos = "post")
             /\ R[r].refs = rd[r].refs /\ rd[r].refs \in Nat
  <2> PICK c : c = rd[r]
    OBVIOUS
  <2>0. c \in ReadRec /\ c.refs \in Nat /\ Moves(c, c, 0)
    BY ReadFacts, SameMoves
  <2>1. CASE r \in S
    <3> PICK d : d = [c EXCEPT !.pos = "reap", !.slot = FALSE]
      OBVIOUS
    <3>1. /\ d \in ReadRec /\ d.pos = "reap" /\ d.slot = FALSE /\ d.tx = c.tx /\ d.armed = c.armed
          /\ d.refs = c.refs
      BY ONLY <2>0, d = [c EXCEPT !.pos = "reap", !.slot = FALSE] DEF ReadRec
    <3>2. R[r] = d /\ c.pos = "list" /\ c.armed = TRUE
      BY <1>2, <1>3, <2>0, <2>1 DEF ReadRec
    <3>3. B(d.pos \in InHands) = 1 /\ B(c.pos \in InHands) = 1 /\ B(d.tx # "none") = B(c.tx # "none")
          /\ B(c.tx # "none") \in {0, 1}
      BY <3>1, <3>2 DEF B, InHands
    <3>4. \A b : b \in {0, 1} => d.refs = c.refs - 0 - (1 - 1) - (b - b)
      BY <2>0, <3>1
    <3>5. Moves(c, d, 0)
      BY <3>1, <3>2, <3>3, <3>4 DEF Moves
    <3> QED
      BY <2>0, <3>1, <3>2, <3>5
  <2>2. CASE r \notin S
    BY <1>2, <2>0, <2>2
  <2> QED
    BY <2>1, <2>2
<1>5. Freed(R) = {}
  <2>1. \A r \in Reads : ~(rd[r].refs > 0 /\ R[r].refs = 0)
    BY <1>4
  <2> QED
    BY <2>1 DEF Freed
<1>6. /\ qp'["a"].refs = qp["a"].refs - Cardinality(Freed(R)) /\ qp'["a"].st = qp["a"].st
      /\ qp' \in [Ends -> QpRec]
  <2>1. qp'["a"].refs = qp["a"].refs /\ qp'["a"].st = qp["a"].st /\ qp' \in [Ends -> QpRec]
    BY <1>1, ReadFacts DEF Ends, QpRec
  <2>2. Cardinality(Freed(R)) = 0 /\ qp["a"].refs \in Nat
    BY <1>5, NothingFreed, ReadFacts
  <2> QED
    BY <2>1, <2>2
<1>7. R = [r \in Reads |-> R[r]] /\ SetReads(R)
  BY <1>2
<1>8. \A r \in Reads : Moves(rd[r], R[r], 0) /\ (rd[r].pos = "post" => R[r].pos = "post")
  BY <1>4
<1> QED
  BY <1>1, <1>6, <1>7, <1>8, AllMoveA

\* tbv_qp_mark_error()
LEMMA TimeoutErrorA ==
  ASSUME Inv, TimeoutError
  PROVE  AOK' /\ qp' \in [Ends -> QpRec]
<1> PICK R : R = FlushReads(rd)
  OBVIOUS
<1>1. UNCHANGED <<post, rx>>
  BY DEF TimeoutError
<1>2. CASE Receives("a")
  <2>1. SetReads(R) /\ qp' = [QpAfter(R) EXCEPT !["a"].st = "err"] /\ qp["a"].st = "rts"
    BY <1>2 DEF TimeoutError, Receives
  <2>2. /\ qp'["a"].refs = qp["a"].refs - Cardinality(Freed(R)) /\ qp'["a"].st = "err"
        /\ QpAfter(R)["a"].refs = qp'["a"].refs
    BY <2>1, QpAfterFacts DEF Ends
  <2>3. qp'["a"].st = "gone" <=> qp["a"].st = "gone"
    BY <2>1, <2>2
  <2>4. AOK' /\ qp'["a"].refs \in Nat
    BY <1>1, <2>1, <2>2, <2>3, FlushMoves, AllMoveA
  <2>5. QpAfter(R) \in [Ends -> QpRec]
    BY <2>2, <2>4, QpAfterFacts
  <2>6. qp' \in [Ends -> QpRec]
    BY ONLY <2>1, <2>5 DEF QpRec
  <2> QED
    BY ONLY <2>4, <2>6
<1>3. CASE ~Receives("a")
  <2>1. UNCHANGED <<rd, slots, qp>>
    BY <1>3 DEF TimeoutError
  <2> QED
    BY <1>1, <2>1, AKept, ReadFacts
<1> QED
  BY <1>2, <1>3

\* The reaped reads put the list's reference.
LEMMA TimeoutCompleteA ==
  ASSUME Inv, TimeoutComplete
  PROVE  AOK' /\ qp' \in [Ends -> QpRec]
<1> PICK R : R = [r \in Reads |-> IF rd[r].pos = "reap"
                 THEN PutRead(Complete(CancelTx([rd[r] EXCEPT !.pos = "off"]), "timeout")) ELSE rd[r]]
  OBVIOUS
<1>1. SetReads(R) /\ qp' = QpAfter(R) /\ UNCHANGED <<post, rx>>
  BY DEF TimeoutComplete
<1>2. ASSUME NEW r \in Reads PROVE Moves(rd[r], R[r], 0) /\ (rd[r].pos = "post" => R[r].pos = "post")
  <2>1. CASE rd[r].pos = "reap"
    <3> PICK c : c = rd[r]
      OBVIOUS
    <3>1. c \in ReadRec /\ c.slot = FALSE
      BY <2>1, ReadFacts DEF Inv, AOK, SlotOK, ReadRec
    <3>2. [c EXCEPT !.pos = "off"] = [c EXCEPT !.pos = "off", !.slot = FALSE]
      BY ONLY <3>1 DEF ReadRec
    <3>3. R[r] = Ended(rd[r], "timeout")
      BY <2>1, <3>2 DEF Ended
    <3>4. Moves(rd[r], Ended(rd[r], "timeout"), 0)
      BY <2>1, EndMoves
    <3> QED
      BY <2>1, <3>3, <3>4
  <2>2. CASE rd[r].pos # "reap"
    BY <2>2, SameMoves
  <2> QED
    BY <2>1, <2>2
<1>3. R = [r \in Reads |-> R[r]]
  OBVIOUS
<1>4. qp'["a"].refs = qp["a"].refs - Cardinality(Freed(R)) /\ qp'["a"].st = qp["a"].st
  BY <1>1, QpAfterFacts
<1>5. AOK' /\ qp'["a"].refs \in Nat
  BY ONLY Inv, <1>1, <1>2, <1>3, <1>4, AllMoveA
<1> QED
  BY <1>1, <1>5, QpAfterFacts

\* tbv_qp_stop_producers() of the requester
LEMMA DestroyFlushA ==
  ASSUME Inv, DestroyFlush("a")
  PROVE  AOK' /\ qp' \in [Ends -> QpRec]
<1> PICK R : R = FlushReads(rd)
  OBVIOUS
<1>1. SetReads(R) /\ qp' = QpAfter(R) /\ UNCHANGED <<post, rx>>
  BY DEF DestroyFlush
<1>2. qp'["a"].refs = qp["a"].refs - Cardinality(Freed(R)) /\ qp'["a"].st = qp["a"].st
  BY <1>1, QpAfterFacts
<1>3. AOK' /\ qp'["a"].refs \in Nat
  BY <1>1, <1>2, FlushMoves, AllMoveA
<1> QED
  BY <1>1, <1>3, QpAfterFacts

\* The requester's queue pair goes when nothing holds it.
LEMMA DestroyDoneA ==
  ASSUME Inv, DestroyDone("a")
  PROVE  AOK' /\ qp' \in [Ends -> QpRec]
<1>1. /\ qp["a"].refs = 1 /\ user["a"] = "wait" /\ qp' = [qp EXCEPT !["a"].st = "gone", !["a"].refs = 0]
      /\ UNCHANGED <<rd, slots, post, rx>>
  BY DEF DestroyDone
<1>2. qp["a"].st # "gone"
  BY <1>1 DEF Inv, EnvOK, GoneOK, Ends
<1>3. qp["a"].refs = B(qp["a"].st # "gone") + B(rx.pc = "handle") + Cardinality(Live)
  BY DEF Inv, AOK, ARefs
<1>4. Cardinality(Live) \in Nat
  BY CountFacts DEF Live
<1>5. B(qp["a"].st # "gone") = 1 /\ B(rx.pc = "handle") \in {0, 1}
  BY <1>2 DEF B
<1>6. B(rx.pc = "handle") = 0 /\ Cardinality(Live) = 0
  BY <1>1, <1>3, <1>4, <1>5
<1>7. qp' \in [Ends -> QpRec] /\ qp'["a"].st = "gone" /\ qp'["a"].refs = 0
  BY <1>1, ReadFacts DEF Ends, QpRec
<1>8. B(qp'["a"].st # "gone") = 0 /\ B(rx'.pc = "handle") = 0 /\ Live' = Live
  BY <1>1, <1>6, <1>7 DEF B, Live
<1>9. \A r \in Reads : ReadHolders(r)' = ReadHolders(r)
  BY <1>1 DEF ReadHolders
<1>10. ARefs'
  <2>1. qp'["a"].refs = B(qp'["a"].st # "gone") + B(rx'.pc = "handle") + Cardinality(Live')
    BY <1>6, <1>7, <1>8
  <2> QED
    BY <1>1, <1>9, <2>1 DEF Inv, AOK, ARefs, B
<1> QED
  BY <1>1, <1>7, <1>10 DEF Inv, AOK, ATypes, PostOK, SlotOK, SlotsExact
-----------------------------------------------------------------------------
(* The responder.                                                          *)

\* What the responder's invariant says of a response.
LEMMA CtxFacts ==
  ASSUME Inv
  PROVE  /\ ctx \in [Reads -> CtxRec] /\ work \in [Reads -> WorkStates]
         /\ \A p \in Reads : /\ ctx[p] \in CtxRec /\ ctx[p].refs \in Nat /\ ctx[p].on \in BOOLEAN
                             /\ ctx[p].refs = CtxHolders(p)
                             /\ ctx[p].on => ctx[p].refs > 0
                             /\ work[p] \in {"queue", "send", "ok", "busy", "fail"} => ctx[p].refs > 0
                             /\ p \in tb.drop \/ p \in tb.todo \/ (tb.pc = "note" /\ tb.cur = p) =>
                                  ctx[p].refs > 0
                             /\ ctx[p].on /\ work[p] \in {"queue", "send", "ok", "busy", "fail"} =>
                                  ctx[p].refs > 1
                             /\ ctx[p].on /\ p \in tb.drop => ctx[p].refs > 1
         /\ qp["b"].refs = B(qp["b"].st # "gone") + Cardinality(Answering) + Cardinality(Working)
         /\ Cardinality(Answering) \in Nat /\ Cardinality(Working) \in Nat
<1>1. /\ ctx \in [Reads -> CtxRec] /\ work \in [Reads -> WorkStates]
      /\ qp["b"].refs = B(qp["b"].st # "gone") + Cardinality(Answering) + Cardinality(Working)
  BY DEF Inv, BOK, BTypes, BRefs
<1>2. Cardinality(Answering) \in Nat /\ Cardinality(Working) \in Nat
  BY CountFacts DEF Answering, Working
<1>3. ASSUME NEW p \in Reads
      PROVE  /\ ctx[p] \in CtxRec /\ ctx[p].refs \in Nat /\ ctx[p].on \in BOOLEAN
             /\ ctx[p].refs = CtxHolders(p)
  BY <1>1 DEF Inv, BOK, BRefs, CtxRec
<1>4. ASSUME NEW p \in Reads
      PROVE  /\ ctx[p].on => ctx[p].refs > 0
             /\ work[p] \in {"queue", "send", "ok", "busy", "fail"} => ctx[p].refs > 0
             /\ p \in tb.drop \/ p \in tb.todo \/ (tb.pc = "note" /\ tb.cur = p) => ctx[p].refs > 0
             /\ ctx[p].on /\ work[p] \in {"queue", "send", "ok", "busy", "fail"} => ctx[p].refs > 1
             /\ ctx[p].on /\ p \in tb.drop => ctx[p].refs > 1
  <2>1. ctx[p].refs = CtxHolders(p)
    BY <1>3
  <2> QED
    BY ONLY <2>1 DEF CtxHolders, B
<1> QED
  BY <1>1, <1>2, <1>3, <1>4

\* A step of the requester or of the environment.
LEMMA BKept ==
  ASSUME Inv, UNCHANGED <<exp, work, ctx, tb>>, qp'["b"].refs = qp["b"].refs,
         qp'["b"].st = "gone" <=> qp["b"].st = "gone"
  PROVE  BOK'
<1>1. B(qp'["b"].st # "gone") = B(qp["b"].st # "gone")
  BY DEF B
<1>2. \A p \in Reads : CtxHolders(p)' = CtxHolders(p)
  BY DEF CtxHolders
<1>3. Answering' = Answering /\ Working' = Working
  BY DEF Answering, Working
<1> QED
  BY <1>1, <1>2, <1>3 DEF Inv, BOK, BTypes, TimerOK, TurnOK, BRefs

\* Putting a reference, taking a response off the list.
LEMMA PutCtxFacts ==
  ASSUME NEW c \in CtxRec, c.refs > 0
  PROVE  /\ PutCtx(c) \in CtxRec /\ PutCtx(c).refs = c.refs - 1 /\ PutCtx(c).on = c.on
         /\ PutCtx(c).retries = c.retries /\ PutCtx(c).ver = c.ver /\ PutCtx(c).armed = c.armed
         /\ PutCtx(c).closing = c.closing
BY DEF PutCtx, CtxRec

\* A response is taken off the list once.
LEMMA TakeFacts ==
  ASSUME NEW c \in CtxRec, c.on => c.refs > 0
  PROVE  /\ Take(c) \in CtxRec /\ Take(c).refs = (IF c.on THEN c.refs - 1 ELSE c.refs)
         /\ Take(c).on = FALSE /\ Take(c).retries = c.retries /\ Take(c).ver = c.ver
<1>1. CASE c.on
  <2> PICK d : d = [c EXCEPT !.on = FALSE, !.closing = TRUE]
    OBVIOUS
  <2>1. d \in CtxRec /\ d.refs = c.refs /\ d.on = FALSE /\ d.retries = c.retries /\ d.ver = c.ver
    BY DEF CtxRec
  <2>2. Take(c) = PutCtx(d) /\ d.refs > 0
    BY <1>1, <2>1 DEF Take
  <2>3. /\ PutCtx(d) \in CtxRec /\ PutCtx(d).refs = d.refs - 1 /\ PutCtx(d).on = d.on
        /\ PutCtx(d).retries = d.retries /\ PutCtx(d).ver = d.ver
    BY ONLY <2>1, <2>2, PutCtxFacts
  <2> QED
    BY ONLY <1>1, <2>1, <2>2, <2>3
<1>2. CASE ~c.on
  <2>1. Take(c) = c /\ c.on = FALSE
    BY <1>2 DEF Take, CtxRec
  <2> QED
    BY <1>2, <2>1
<1> QED
  BY <1>1, <1>2

\* The queue pair gives back what its responses held.
Released(C) == {p \in Reads : ctx[p].refs > 0 /\ C[p].refs = 0}
\* The queue pair loses the references of the responses that end.
LEMMA QpOfFacts ==
  ASSUME Inv, NEW C
  PROVE  /\ QpOf(C)["b"].refs = qp["b"].refs - Cardinality(Released(C))
         /\ QpOf(C)["b"].st = qp["b"].st /\ QpOf(C)["b"].closing = qp["b"].closing
         /\ QpOf(C)["b"].tw = qp["b"].tw /\ QpOf(C)["a"] = qp["a"]
         /\ DOMAIN QpOf(C) = Ends /\ Cardinality(Released(C)) \in Nat
         /\ QpOf(C)["b"].refs \in Nat => QpOf(C) \in [Ends -> QpRec]
<1>1. qp \in [Ends -> QpRec]
  BY ReadFacts
<1>2. Cardinality(Released(C)) \in Nat
  BY CountFacts DEF Released
<1> QED
  BY <1>1, <1>2 DEF QpOf, Ends, QpRec, Released

\* A step that begins no response and queues no work: the references follow
\* when each response has its holders.
LEMMA CtxMoved ==
  ASSUME Inv, NEW C, C \in [Reads -> CtxRec], ctx' = C, BTypes', TimerOK', TurnOK',
         \A p \in Reads : C[p].refs > 0 => ctx[p].refs > 0,
         \A p \in Reads : C[p].refs = CtxHolders(p)',
         NEW W, W \subseteq Working, Working' = Working \ W,
         qp'["b"].refs = qp["b"].refs - Cardinality(Released(C)) - Cardinality(W),
         qp'["b"].st = "gone" <=> qp["b"].st = "gone"
  PROVE  BOK' /\ qp'["b"].refs \in Nat
<1>1. /\ Answering' \subseteq Answering /\ Answering \ Answering' = Released(C)
      /\ Answering \in SUBSET Reads /\ Answering' \in SUBSET Reads
  <2>1. \A p \in Reads : C[p].refs \in Nat
    BY DEF CtxRec
  <2>2. Answering' = {p \in Reads : C[p].refs > 0}
    BY DEF Answering
  <2> QED
    BY <2>1, <2>2 DEF Answering, Released
<1>2. /\ Cardinality(Answering') = Cardinality(Answering) - Cardinality(Released(C))
      /\ Cardinality(Answering) \in Nat /\ Cardinality(Answering') \in Nat
      /\ Cardinality(Released(C)) \in Nat
  <2>1. Released(C) \in SUBSET Reads
    BY DEF Released
  <2> QED
    BY <1>1, <2>1, CountFacts
<1>3. /\ Cardinality(Working') = Cardinality(Working) - Cardinality(W) /\ Cardinality(Working) \in Nat
      /\ Cardinality(Working') \in Nat /\ Cardinality(W) \in Nat
  <2>1. Working \in SUBSET Reads /\ W \in SUBSET Reads /\ Working' \in SUBSET Reads
    BY DEF Working
  <2>2. Working \ Working' = W /\ Working' \subseteq Working
    OBVIOUS
  <2> QED
    BY <2>1, <2>2, CountFacts
<1>4. B(qp'["b"].st # "gone") = B(qp["b"].st # "gone") /\ B(qp["b"].st # "gone") \in {0, 1}
  BY DEF B
<1>5. qp["b"].refs = B(qp["b"].st # "gone") + Cardinality(Answering) + Cardinality(Working)
  BY DEF Inv, BOK, BRefs
<1>6. qp'["b"].refs = B(qp'["b"].st # "gone") + Cardinality(Answering') + Cardinality(Working')
      /\ qp'["b"].refs \in Nat
  <2> PICK a, b, d, e, f : /\ a = qp["b"].refs /\ b = B(qp["b"].st # "gone") /\ d = Cardinality(Answering)
                           /\ e = Cardinality(Released(C)) /\ f = Cardinality(W)
    OBVIOUS
  <2> PICK w : w = Cardinality(Working)
    OBVIOUS
  <2>1. /\ a = b + d + w /\ b \in {0, 1} /\ d \in Nat /\ w \in Nat /\ e \in Nat /\ f \in Nat
        /\ d - e \in Nat /\ w - f \in Nat
    BY <1>2, <1>3, <1>4, <1>5
  <2>2. qp'["b"].refs = a - e - f
    OBVIOUS
  <2>3. a - e - f = b + (d - e) + (w - f) /\ a - e - f \in Nat
    BY ONLY <2>1
  <2> QED
    BY <1>2, <1>3, <1>4, <2>2, <2>3
<1>7. \A p \in Reads : ctx'[p].refs = CtxHolders(p)'
  OBVIOUS
<1> QED
  BY <1>6, <1>7 DEF BOK, BRefs

\* What tbv_qp_note_read_resp_sent() and its siblings leave alone.
LEMMA NoteFacts ==
  ASSUME NEW c \in CtxRec, c.on => c.refs > 0, NEW ret \in {"ok", "busy", "fail"}
  PROVE  /\ Note(c, ret) \in CtxRec /\ Note(c, ret).retries = c.retries /\ Note(c, ret).ver = c.ver
         /\ ret # "fail" => Note(c, ret).refs = c.refs /\ Note(c, ret).on = c.on
         /\ ret = "fail" => Note(c, ret).on = FALSE
                            /\ Note(c, ret).refs = (IF c.on THEN c.refs - 1 ELSE c.refs)
<1>1. CASE ret = "fail"
  <2>1. Note(c, ret) = Take(c)
    BY <1>1 DEF Note
  <2> QED
    BY <1>1, <2>1, TakeFacts
<1>2. CASE ret = "ok"
  <2> PICK d : d = [c EXCEPT !.sent = TRUE, !.armed = TRUE]
    OBVIOUS
  <2>1. d \in CtxRec /\ d.retries = c.retries /\ d.ver = c.ver /\ d.refs = c.refs /\ d.on = c.on
    BY DEF CtxRec
  <2>2. Note(c, ret) \in {c, d}
    BY <1>2 DEF Note
  <2> QED
    BY <1>2, <2>1, <2>2
<1>3. CASE ret = "busy"
  <2> PICK d : d = [c EXCEPT !.armed = TRUE]
    OBVIOUS
  <2>1. d \in CtxRec /\ d.retries = c.retries /\ d.ver = c.ver /\ d.refs = c.refs /\ d.on = c.on
    BY DEF CtxRec
  <2>2. Note(c, ret) \in {c, d}
    BY <1>3 DEF Note
  <2> QED
    BY <1>3, <2>1, <2>2
<1> QED
  BY <1>1, <1>2, <1>3

\* A work is one reference.
LEMMA OneWork == \A p \in Reads : Cardinality({p}) = 1
BY FS_Singleton

\* tbv_read_req_workfn() answers with a status frame.
LEMMA WorkStatusB ==
  ASSUME Inv, NEW p \in Reads, WorkStatus(p)
  PROVE  BOK' /\ qp' \in [Ends -> QpRec] /\ qp'["a"] = qp["a"]
<1>1. /\ work[p] = "queued" /\ work' = [work EXCEPT ![p] = "done"] /\ qp' = [qp EXCEPT !["b"].refs = @ - 1]
      /\ UNCHANGED <<exp, ctx, tb>>
  BY DEF WorkStatus
<1>2. /\ ctx \in [Reads -> CtxRec] /\ work \in [Reads -> WorkStates]
      /\ \A q \in Reads : ctx[q].refs \in Nat /\ ctx[q].refs = CtxHolders(q)
  BY CtxFacts
<1>3. work' \in [Reads -> WorkStates] /\ work'[p] = "done" /\ \A q \in Reads : q # p => work'[q] = work[q]
  BY <1>1, <1>2 DEF WorkStates
<1>4. \A q \in Reads : CtxHolders(q)' = CtxHolders(q)
  BY <1>1, <1>3 DEF CtxHolders
<1>5. Working' = Working \ {p} /\ p \in Working
  BY <1>1, <1>3 DEF Working
<1>6. BTypes' /\ TimerOK' /\ TurnOK'
  <2>1. BTypes'
    BY <1>1, <1>3 DEF Inv, BOK, BTypes
  <2>2. TimerOK'
    BY <1>1, <1>3 DEF Inv, BOK, TimerOK
  <2>3. TurnOK'
    BY <1>1, <1>3 DEF Inv, BOK, TurnOK
  <2> QED
    BY <2>1, <2>2, <2>3
<1>7. Released(ctx) = {} /\ Cardinality(Released(ctx)) = 0
  <2>1. Released(ctx) = {}
    BY DEF Released
  <2> QED
    BY <2>1, NothingFreed
<1>8. qp'["b"].refs = qp["b"].refs - 1 /\ qp'["b"].st = qp["b"].st /\ qp'["a"] = qp["a"]
  BY <1>1, ReadFacts DEF Ends
<1>9. qp'["b"].refs = qp["b"].refs - Cardinality(Released(ctx)) - Cardinality({p})
  BY <1>7, <1>8, OneWork, ReadFacts
<1>10. BOK' /\ qp'["b"].refs \in Nat
  <2>1. \A q \in Reads : ctx[q].refs = CtxHolders(q)'
    BY <1>2, <1>4
  <2>2. ctx' = ctx /\ {p} \subseteq Working /\ (qp'["b"].st = "gone" <=> qp["b"].st = "gone")
    BY <1>1, <1>5, <1>8
  <2> QED
    BY ONLY Inv, <1>2, <1>5, <1>6, <1>9, <2>1, <2>2, CtxMoved
<1>11. qp' \in [Ends -> QpRec]
  BY <1>1, <1>8, <1>10, ReadFacts DEF Ends, QpRec
<1> QED
  BY <1>8, <1>10, <1>11

\* tbv_read_resp_ctx_alloc()
LEMMA WorkSnapshotB ==
  ASSUME Inv, NEW p \in Reads, WorkSnapshot(p)
  PROVE  BOK' /\ qp' \in [Ends -> QpRec] /\ qp'["a"] = qp["a"]
<1> PICK d : d = [NoCtx EXCEPT !.refs = 1, !.ver = mem]
  OBVIOUS
<1>1. /\ work[p] = "queued" /\ work' = [work EXCEPT ![p] = "queue"] /\ qp' = [qp EXCEPT !["b"].refs = @ + 1]
      /\ ctx' = [ctx EXCEPT ![p] = d] /\ UNCHANGED <<exp, tb>>
  BY DEF WorkSnapshot
<1>2. /\ ctx \in [Reads -> CtxRec] /\ work \in [Reads -> WorkStates] /\ mem \in Nat /\ MaxRetries \in Nat
      /\ \A q \in Reads : ctx[q].refs \in Nat /\ ctx[q].refs = CtxHolders(q)
  BY CtxFacts, CountFacts DEF Inv, EnvOK, EnvTypes
<1>3. d \in CtxRec /\ d.refs = 1 /\ d.on = FALSE /\ d.retries = 0
  <2>1. d = [on |-> FALSE, closing |-> FALSE, armed |-> FALSE, forced |-> FALSE, sent |-> FALSE,
             retries |-> 0, refs |-> 1, ver |-> mem]
    BY DEF NoCtx
  <2> QED
    BY ONLY <1>2, <2>1 DEF CtxRec
<1>4. work' \in [Reads -> WorkStates] /\ work'[p] = "queue" /\ \A q \in Reads : q # p => work'[q] = work[q]
  BY <1>1, <1>2 DEF WorkStates
<1>5. ctx' \in [Reads -> CtxRec] /\ ctx'[p] = d /\ \A q \in Reads : q # p => ctx'[q] = ctx[q]
  BY <1>1, <1>2, <1>3
<1>6. ctx[p].refs = 0 /\ CtxHolders(p) = 0
  BY <1>1, <1>2 DEF Inv, BOK, TimerOK
<1>7. p \notin tb.drop /\ p \notin tb.todo /\ ~(tb.pc = "note" /\ tb.cur = p)
  BY <1>6 DEF CtxHolders, B
<1>8. \A q \in Reads : ctx'[q].refs = CtxHolders(q)'
  <2> SUFFICES ASSUME NEW q \in Reads PROVE ctx'[q].refs = CtxHolders(q)'
    OBVIOUS
  <2>1. CASE q = p
    BY <1>1, <1>3, <1>4, <1>5, <1>7, <2>1 DEF CtxHolders, B
  <2>2. CASE q # p
    BY <1>1, <1>2, <1>4, <1>5, <2>2 DEF CtxHolders
  <2> QED
    BY <2>1, <2>2
<1>9. Working' = Working
  BY <1>1, <1>4 DEF Working
<1>10. Cardinality(Answering') = Cardinality(Answering) + 1 /\ Cardinality(Answering) \in Nat
       /\ Cardinality(Working) \in Nat
  <2>1. Answering \in SUBSET Reads /\ p \notin Answering
    BY <1>6 DEF Answering
  <2>2. Answering' = Answering \cup {p}
    <3>1. \A q \in Reads : ctx'[q].refs > 0 <=> ctx[q].refs > 0 \/ q = p
      BY ONLY <1>3, <1>5, p \in Reads
    <3> QED
      BY <3>1 DEF Answering
  <2> QED
    BY <2>1, <2>2, CountFacts, CtxFacts
<1>11. /\ qp'["b"].refs = qp["b"].refs + 1 /\ qp'["b"].st = qp["b"].st /\ qp'["a"] = qp["a"]
       /\ qp' \in [Ends -> QpRec]
  BY <1>1, ReadFacts DEF Ends, QpRec
<1>12. qp'["b"].refs = B(qp'["b"].st # "gone") + Cardinality(Answering') + Cardinality(Working')
  <2>1. qp["b"].refs = B(qp["b"].st # "gone") + Cardinality(Answering) + Cardinality(Working)
    BY CtxFacts
  <2>2. B(qp'["b"].st # "gone") = B(qp["b"].st # "gone") /\ B(qp["b"].st # "gone") \in {0, 1}
    BY <1>11 DEF B
  <2> PICK a, b, c : a = B(qp["b"].st # "gone") /\ b = Cardinality(Answering) /\ c = Cardinality(Working)
    OBVIOUS
  <2>3. a + b + c + 1 = a + (b + 1) + c
    BY <1>10, <2>2
  <2> QED
    BY <1>9, <1>10, <1>11, <2>1, <2>2, <2>3
<1>13. BTypes' /\ TimerOK' /\ TurnOK'
  <2>1. BTypes'
    BY <1>1, <1>4, <1>5 DEF Inv, BOK, BTypes
  <2>2. TimerOK'
    <3>1. \A q \in Reads : q \in tb.todo \/ (tb.pc = "note" /\ tb.cur = q) => ctx'[q].retries < MaxRetries
      BY <1>5, <1>7 DEF Inv, BOK, TimerOK
    <3> QED
      BY <1>1, <1>3, <1>4, <1>5, <3>1 DEF Inv, BOK, TimerOK
  <2>3. TurnOK'
    BY <1>1, <1>4 DEF Inv, BOK, TurnOK
  <2> QED
    BY <2>1, <2>2, <2>3
<1> QED
  BY <1>8, <1>11, <1>12, <1>13 DEF BOK, BRefs

\* tbv_qp_queue_read_resp()
LEMMA WorkQueueB ==
  ASSUME Inv, NEW p \in Reads, WorkQueue(p)
  PROVE  BOK' /\ qp' \in [Ends -> QpRec] /\ qp'["a"] = qp["a"]
<1> PICK c : c = ctx[p]
  OBVIOUS
<1> PICK d : d = [c EXCEPT !.on = TRUE, !.refs = @ + 1]
  OBVIOUS
<1>0. /\ ctx \in [Reads -> CtxRec] /\ work \in [Reads -> WorkStates] /\ c \in CtxRec /\ c.refs \in Nat
      /\ \A q \in Reads : ctx[q].refs \in Nat /\ ctx[q].refs = CtxHolders(q)
  BY CtxFacts
<1>1. /\ work[p] = "queue" /\ work' = [work EXCEPT ![p] = "send"] /\ UNCHANGED <<qp, exp, tb>>
      /\ ctx' = [ctx EXCEPT ![p] = d]
  BY <1>0 DEF WorkQueue
<1>2. c.refs > 0 /\ c.on = FALSE
  BY <1>1, CtxFacts DEF Inv, BOK, TimerOK
<1>3. d \in CtxRec /\ d.refs = c.refs + 1 /\ d.on = TRUE /\ d.retries = c.retries
  <2> PICK n \in Nat : n = c.refs + 1
    BY <1>0
  <2>1. d = [c EXCEPT !.on = TRUE, !.refs = n]
    OBVIOUS
  <2> QED
    BY ONLY <1>0, <2>1, n \in Nat, n = c.refs + 1 DEF CtxRec
<1>4. work' \in [Reads -> WorkStates] /\ work'[p] = "send" /\ \A q \in Reads : q # p => work'[q] = work[q]
  BY <1>0, <1>1 DEF WorkStates
<1>5. ctx' \in [Reads -> CtxRec] /\ ctx'[p] = d /\ \A q \in Reads : q # p => ctx'[q] = ctx[q]
  BY <1>0, <1>1, <1>3
<1>6. \A q \in Reads : ctx'[q].refs = CtxHolders(q)'
  <2> SUFFICES ASSUME NEW q \in Reads PROVE ctx'[q].refs = CtxHolders(q)'
    OBVIOUS
  <2>0. ctx[q].refs = CtxHolders(q)
    BY <1>0
  <2>1. CASE q = p
    BY <1>1, <1>2, <1>3, <1>4, <1>5, <2>0, <2>1 DEF CtxHolders, B
  <2>2. CASE q # p
    BY <1>1, <1>4, <1>5, <2>0, <2>2 DEF CtxHolders
  <2> QED
    BY <2>1, <2>2
<1>7. Working' = Working \ {}
  BY <1>1, <1>4 DEF Working
<1>8. \A q \in Reads : ctx'[q].refs > 0 <=> ctx[q].refs > 0
  <2>1. ctx'[p].refs > 0 /\ ctx[p].refs > 0
    BY <1>0, <1>2, <1>3, <1>5
  <2> QED
    BY <1>5, <2>1
<1>9. Released(ctx') = {} /\ Cardinality(Released(ctx')) = 0 /\ Cardinality({}) = 0
  <2>1. \A q \in Reads : ~(ctx[q].refs > 0 /\ ctx'[q].refs = 0)
    BY <1>8
  <2>2. Released(ctx') = {}
    BY <2>1 DEF Released
  <2> QED
    BY <2>2, NothingFreed
<1>10. qp'["b"].refs = qp["b"].refs - Cardinality(Released(ctx')) - Cardinality({})
  BY <1>1, <1>9, ReadFacts
<1>11. BTypes' /\ TimerOK' /\ TurnOK'
  <2>1. BTypes'
    BY <1>1, <1>4, <1>5 DEF Inv, BOK, BTypes
  <2>2. TimerOK'
    <3>1. \A q \in Reads : ctx'[q].retries = ctx[q].retries
      BY <1>3, <1>5
    <3> QED
      BY <1>1, <1>4, <1>5, <3>1 DEF Inv, BOK, TimerOK
  <2>3. TurnOK'
    BY <1>1, <1>4 DEF Inv, BOK, TurnOK
  <2> QED
    BY <2>1, <2>2, <2>3
<1>12. BOK'
  <2>1. \A q \in Reads : ctx'[q].refs > 0 => ctx[q].refs > 0
    BY <1>8
  <2>2. {} \subseteq Working /\ (qp'["b"].st = "gone" <=> qp["b"].st = "gone") /\ ctx' \in [Reads -> CtxRec]
    BY <1>1, <1>5
  <2> QED
    BY ONLY Inv, <1>6, <1>7, <1>10, <1>11, <2>1, <2>2, CtxMoved
<1> QED
  BY <1>1, <1>12, ReadFacts

\* A response is sent: the work notes the outcome next.
LEMMA WorkSendB ==
  ASSUME Inv, NEW p \in Reads, WorkSend(p)
  PROVE  BOK' /\ qp' \in [Ends -> QpRec] /\ qp'["a"] = qp["a"]
<1> PICK ret \in {"ok", "busy", "fail"} : work' = [work EXCEPT ![p] = ret]
  BY DEF WorkSend
<1>1. work[p] = "send" /\ UNCHANGED <<qp, exp, ctx, tb>>
  BY DEF WorkSend
<1>2. work \in [Reads -> WorkStates]
  BY CtxFacts
<1>3. work' \in [Reads -> WorkStates] /\ work'[p] = ret /\ \A q \in Reads : q # p => work'[q] = work[q]
  BY <1>2 DEF WorkStates
<1>4. \A q \in Reads : CtxHolders(q)' = CtxHolders(q)
  BY <1>1, <1>3 DEF CtxHolders
<1>5. Working' = Working /\ Answering' = Answering
  BY <1>1, <1>3 DEF Working, Answering
<1>6. BTypes' /\ TimerOK' /\ TurnOK'
  <2>1. BTypes'
    BY <1>1, <1>3 DEF Inv, BOK, BTypes
  <2>2. TimerOK'
    BY <1>1, <1>3 DEF Inv, BOK, TimerOK
  <2>3. TurnOK'
    BY <1>1, <1>3 DEF Inv, BOK, TurnOK
  <2> QED
    BY <2>1, <2>2, <2>3
<1> QED
  BY <1>1, <1>4, <1>5, <1>6, ReadFacts DEF Inv, BOK, BRefs

\* One response goes on to d, the work of W ends.
LEMMA OneCtx ==
  ASSUME Inv, NEW p \in Reads, NEW d \in CtxRec, NEW C, C = [ctx EXCEPT ![p] = d], ctx' = C,
         d.refs > 0 => ctx[p].refs > 0, d.retries = ctx[p].retries, d.on => ctx[p].on,
         work[p] \in {"none", "queued"} => d.refs = 0,
         NEW W, W \subseteq {p} \cap Working, UNCHANGED <<exp, tb>>,
         work' = [q \in Reads |-> IF q \in W THEN "done" ELSE work[q]],
         d.refs = CtxHolders(p)',
         qp'["b"].refs = qp["b"].refs - Cardinality(Released(C)) - Cardinality(W),
         qp'["b"].st = "gone" <=> qp["b"].st = "gone"
  PROVE  BOK' /\ qp'["b"].refs \in Nat
<1>1. /\ ctx \in [Reads -> CtxRec] /\ work \in [Reads -> WorkStates]
      /\ \A q \in Reads : ctx[q].refs \in Nat /\ ctx[q].refs = CtxHolders(q)
  BY CtxFacts
<1>2. C \in [Reads -> CtxRec] /\ C[p] = d /\ \A q \in Reads : q # p => C[q] = ctx[q]
  BY <1>1
<1>3. work' \in [Reads -> WorkStates] /\ \A q \in Reads : work'[q] = IF q \in W THEN "done" ELSE work[q]
  BY <1>1 DEF WorkStates
<1>4. \A q \in Reads : C[q].refs = CtxHolders(q)'
  <2> SUFFICES ASSUME NEW q \in Reads PROVE C[q].refs = CtxHolders(q)'
    OBVIOUS
  <2>1. CASE q = p
    BY <1>2, <2>1
  <2>2. CASE q # p
    <3>1. C[q] = ctx[q] /\ work'[q] = work[q]
      BY <1>2, <1>3, <2>2
    <3> QED
      BY <1>1, <3>1 DEF CtxHolders
  <2> QED
    BY <2>1, <2>2
<1>5. Working' = Working \ W
  BY <1>3 DEF Working
<1>6. BTypes'
  BY <1>2, <1>3 DEF Inv, BOK, BTypes
<1>7. TurnOK'
  BY <1>3 DEF Inv, BOK, TurnOK, Working
<1>8. TimerOK'
  <2>1. \A q \in Reads : C[q].retries = ctx[q].retries
    BY <1>2
  <2>2. \A q \in Reads : work'[q] \in {"none", "queued", "queue"} => C[q].on = FALSE
    <3>1. \A q \in Reads : C[q].on \in BOOLEAN /\ (C[q].on => ctx[q].on)
      BY <1>2 DEF CtxRec
    <3>2. \A q \in Reads : work[q] \in {"none", "queued", "queue"} => ctx[q].on = FALSE
      BY DEF Inv, BOK, TimerOK
    <3> QED
      BY <1>3, <3>1, <3>2
  <2>3. \A q \in Reads : work'[q] \in {"none", "queued"} => C[q].refs = 0
    <3>1. \A q \in Reads : work[q] \in {"none", "queued"} => ctx[q].refs = 0
      BY DEF Inv, BOK, TimerOK
    <3> QED
      BY <1>2, <1>3, <3>1
  <2> QED
    BY <2>1, <2>2, <2>3 DEF Inv, BOK, TimerOK
<1>9. \A q \in Reads : C[q].refs > 0 => ctx[q].refs > 0
  BY <1>2
<1> QED
  BY <1>2, <1>4, <1>5, <1>6, <1>7, <1>8, <1>9, CtxMoved

\* The work ends.
LEMMA WorkNoteB ==
  ASSUME Inv, NEW p \in Reads, WorkNote(p)
  PROVE  BOK' /\ qp' \in [Ends -> QpRec] /\ qp'["a"] = qp["a"]
<1> PICK c : c = ctx[p]
  OBVIOUS
<1> PICK n : n = Note(c, work[p])
  OBVIOUS
<1> PICK d : d = PutCtx(n)
  OBVIOUS
<1> PICK C : C = [ctx EXCEPT ![p] = d]
  OBVIOUS
<1> PICK t : t = IF n.on /\ n.armed THEN Schedule("b") ELSE QpOf(C)["b"].tw
  OBVIOUS
<1>0. /\ ctx \in [Reads -> CtxRec] /\ c \in CtxRec /\ c.refs \in Nat /\ c.on \in BOOLEAN /\ c.refs = CtxHolders(p)
      /\ work \in [Reads -> WorkStates]
  BY CtxFacts
<1>1. /\ work[p] \in {"ok", "busy", "fail"} /\ work' = [work EXCEPT ![p] = "done"] /\ ctx' = C
      /\ qp' = [QpOf(C) EXCEPT !["b"].refs = @ - 1, !["b"].tw = t] /\ UNCHANGED <<exp, tb>>
  BY DEF WorkNote
<1>2. c.refs > 0 /\ (c.on => c.refs > 1)
  BY <1>1, CtxFacts
<1>3. /\ n \in CtxRec /\ n.retries = c.retries
      /\ (work[p] # "fail" => n.refs = c.refs /\ n.on = c.on)
      /\ (work[p] = "fail" => n.on = FALSE /\ n.refs = (IF c.on THEN c.refs - 1 ELSE c.refs))
  BY ONLY <1>0, <1>1, <1>2, n = Note(c, work[p]), NoteFacts
<1>4. n.refs > 0 /\ n.on \in BOOLEAN /\ n.armed \in BOOLEAN
  <2>1. n.refs > 0
    BY <1>0, <1>2, <1>3
  <2> QED
    BY <1>3, <2>1 DEF CtxRec
<1>5. d \in CtxRec /\ d.refs = n.refs - 1 /\ d.on = n.on /\ d.retries = c.retries
  BY ONLY <1>3, <1>4, d = PutCtx(n), PutCtxFacts
<1>6. work'[p] = "done" /\ ctx'[p] = d
  BY <1>0, <1>1
<1>7. d.refs = CtxHolders(p)'
  <2> PICK o : o = B(p \in tb.drop) + B(p \in tb.todo) + B(tb.pc = "note" /\ tb.cur = p)
    OBVIOUS
  <2>1. o \in Nat /\ CtxHolders(p) = 1 + B(c.on) + o
    BY <1>1 DEF CtxHolders, B
  <2>2. CtxHolders(p)' = 0 + B(d.on) + o
    BY <1>1, <1>6 DEF CtxHolders, B
  <2>3. B(c.on) = (IF c.on THEN 1 ELSE 0) /\ B(d.on) = (IF d.on THEN 1 ELSE 0)
    BY DEF B
  <2>4. d.refs = (IF d.on THEN 1 ELSE 0) + o
    BY <1>0, <1>3, <1>5, <2>1, <2>3
  <2> QED
    BY <2>1, <2>2, <2>3, <2>4
<1>8. d.refs > 0 => ctx[p].refs > 0
  BY <1>2
<1>9. d.on => c.on
  BY <1>0, <1>3, <1>5
<1>10. /\ qp'["b"].refs = QpOf(C)["b"].refs - 1 /\ qp'["b"].st = qp["b"].st /\ qp'["a"] = qp["a"]
       /\ QpOf(C)["b"].refs = qp["b"].refs - Cardinality(Released(C)) /\ t \in BOOLEAN
  <2>1. t \in BOOLEAN
    BY <1>4, QpOfFacts, ReadFacts DEF Schedule, QpRec
  <2> QED
    BY <1>1, <2>1, QpOfFacts DEF Ends
<1>11. {p} \subseteq {p} \cap Working /\ work' = [q \in Reads |-> IF q \in {p} THEN "done" ELSE work[q]]
  <2>1. p \in Working
    BY <1>1 DEF Working
  <2>2. work' = [q \in Reads |-> IF q \in {p} THEN "done" ELSE work[q]]
    BY <1>0, <1>1
  <2> QED
    BY <2>1, <2>2
<1>12. qp'["b"].refs = qp["b"].refs - Cardinality(Released(C)) - Cardinality({p})
  BY <1>10, OneWork
<1>13. BOK' /\ qp'["b"].refs \in Nat
  <2>1. /\ (work[p] \in {"none", "queued"} => d.refs = 0) /\ (qp'["b"].st = "gone" <=> qp["b"].st = "gone")
        /\ d.retries = ctx[p].retries /\ (d.on => ctx[p].on) /\ d \in CtxRec
    BY <1>1, <1>5, <1>9, <1>10
  <2> PICK W : W = {p}
    OBVIOUS
  <2>2. /\ W \subseteq {p} \cap Working /\ work' = [q \in Reads |-> IF q \in W THEN "done" ELSE work[q]]
        /\ qp'["b"].refs = qp["b"].refs - Cardinality(Released(C)) - Cardinality(W)
        /\ ctx' = C /\ UNCHANGED <<exp, tb>> /\ C = [ctx EXCEPT ![p] = d]
    BY <1>1, <1>11, <1>12
  <2> QED
    BY ONLY Inv, p \in Reads, <1>7, <1>8, <2>1, <2>2, OneCtx
<1>14. qp' \in [Ends -> QpRec]
  <2>1. QpOf(C)["b"].refs \in Nat
    BY <1>10, <1>13, QpOfFacts, ReadFacts
  <2>2. QpOf(C) \in [Ends -> QpRec]
    BY <2>1, QpOfFacts
  <2> PICK m \in Nat : m = qp'["b"].refs
    BY <1>13
  <2>3. qp' = [QpOf(C) EXCEPT !["b"].refs = m, !["b"].tw = t]
    BY <1>1, <1>10
  <2> QED
    BY ONLY <1>10, <2>2, <2>3, m \in Nat DEF QpRec
<1> QED
  BY <1>10, <1>13, <1>14

\* A READ_ACK ends a response or expires its timer.
LEMMA AckArriveB ==
  ASSUME Inv, AckArrive
  PROVE  BOK' /\ qp' \in [Ends -> QpRec] /\ qp'["a"] = qp["a"]
<1> PICK a : a = Head(wire.ack)
  OBVIOUS
<1>1. a \in AckFrame /\ UNCHANGED <<exp, work, tb>>
  <2>1. wire.ack # <<>> /\ UNCHANGED <<exp, work, tb>>
    BY DEF AckArrive
  <2> QED
    BY <2>1, HeadFacts
<1> PICK p \in Reads : p = a.psn
  BY <1>1 DEF AckFrame
<1> PICK c : c = ctx[p]
  OBVIOUS
<1> PICK again \in BOOLEAN : again = (a.code = "retry")
  OBVIOUS
<1> PICK d : d = IF again THEN RetryResp(c) ELSE Take(c)
  OBVIOUS
<1> PICK C : C = [ctx EXCEPT ![p] = d]
  OBVIOUS
<1>2. \/ UNCHANGED <<ctx, qp>>
      \/ c.on /\ ctx' = C /\ qp' = [QpOf(C) EXCEPT !["b"].tw = @ \/ again]
  BY DEF AckArrive
<1>3. CASE UNCHANGED <<ctx, qp>>
  BY <1>1, <1>3, BKept, ReadFacts
<1>4. CASE c.on /\ ctx' = C /\ qp' = [QpOf(C) EXCEPT !["b"].tw = @ \/ again]
  <2>0. /\ ctx \in [Reads -> CtxRec] /\ c \in CtxRec /\ c.refs \in Nat /\ c.on = TRUE /\ c.refs = CtxHolders(p)
        /\ work \in [Reads -> WorkStates] /\ c.refs > 0
    BY <1>4, CtxFacts
  <2>1. d \in CtxRec /\ d.retries = c.retries /\ d.refs = c.refs - B(~again) /\ d.on = again
    <3>1. CASE again = TRUE
      <4> PICK e : e = [c EXCEPT !.armed = TRUE, !.forced = TRUE]
        OBVIOUS
      <4>1. e \in CtxRec /\ e.retries = c.retries /\ e.refs = c.refs /\ e.on = c.on
        BY ONLY <2>0, e = [c EXCEPT !.armed = TRUE, !.forced = TRUE] DEF CtxRec
      <4>2. d = e /\ B(~again) = 0 /\ c.refs - 0 = c.refs
        BY <2>0, <3>1 DEF RetryResp, B
      <4> QED
        BY <2>0, <3>1, <4>1, <4>2
    <3>2. CASE again = FALSE
      <4>1. d = Take(c) /\ B(~again) = 1
        BY <3>2 DEF B
      <4> QED
        BY <2>0, <3>2, <4>1, TakeFacts
    <3> QED
      BY <3>1, <3>2
  <2>2. ctx'[p] = d
    BY ONLY <1>4, <2>0, C = [ctx EXCEPT ![p] = d], p \in Reads
  <2>3. d.refs = CtxHolders(p)'
    <3> PICK o : o = B(work[p] \in {"queue", "send", "ok", "busy", "fail"}) + B(p \in tb.drop)
                     + B(p \in tb.todo) + B(tb.pc = "note" /\ tb.cur = p)
      OBVIOUS
    <3>1. o \in Nat /\ CtxHolders(p) = 1 + o
      BY <2>0 DEF CtxHolders, B
    <3>2. CtxHolders(p)' = B(again) + o /\ B(again) = 1 - B(~again) /\ B(~again) \in {0, 1}
      BY <1>1, <2>1, <2>2 DEF CtxHolders, B
    <3> QED
      BY <2>0, <2>1, <3>1, <3>2
  <2>4. /\ qp'["b"].refs = QpOf(C)["b"].refs /\ qp'["b"].st = qp["b"].st /\ qp'["a"] = qp["a"]
        /\ QpOf(C)["b"].refs = qp["b"].refs - Cardinality(Released(C)) /\ Cardinality(Released(C)) \in Nat
    BY <1>4, QpOfFacts DEF Ends
  <2>5. Cardinality({}) = 0 /\ qp["b"].refs \in Nat
    BY NothingFreed, ReadFacts
  <2>6. qp'["b"].refs = qp["b"].refs - Cardinality(Released(C)) - Cardinality({})
    BY <2>4, <2>5
  <2>7. BOK' /\ qp'["b"].refs \in Nat
    <3>1. /\ (d.refs > 0 => ctx[p].refs > 0) /\ d.retries = ctx[p].retries /\ (d.on => ctx[p].on)
          /\ (work[p] \in {"none", "queued"} => d.refs = 0) /\ ctx' = C /\ d \in CtxRec
          /\ {} \subseteq {p} \cap Working /\ UNCHANGED <<exp, tb>>
          /\ work' = [q \in Reads |-> IF q \in {} THEN "done" ELSE work[q]]
          /\ (qp'["b"].st = "gone" <=> qp["b"].st = "gone")
      <4>1. work[p] \notin {"none", "queued"}
        BY <2>0 DEF Inv, BOK, TimerOK
      <4>2. work' = [q \in Reads |-> IF q \in {} THEN "done" ELSE work[q]]
        BY <1>1, <2>0
      <4> QED
        BY <1>1, <1>4, <2>0, <2>1, <2>4, <4>1, <4>2
    <3> PICK W : W = {}
      OBVIOUS
    <3>2. /\ W \subseteq {p} \cap Working /\ work' = [q \in Reads |-> IF q \in W THEN "done" ELSE work[q]]
          /\ qp'["b"].refs = qp["b"].refs - Cardinality(Released(C)) - Cardinality(W)
          /\ C = [ctx EXCEPT ![p] = d]
      BY <2>6, <3>1
    <3> QED
      BY ONLY Inv, p \in Reads, <2>3, <3>1, <3>2, OneCtx
  <2>8. QpOf(C) \in [Ends -> QpRec] /\ QpOf(C)["b"].tw \in BOOLEAN
    BY <2>4, <2>7, QpOfFacts, ReadFacts DEF QpRec
  <2> PICK t \in BOOLEAN : t = (QpOf(C)["b"].tw \/ again)
    BY <2>8
  <2>9. qp' = [QpOf(C) EXCEPT !["b"].tw = t] /\ "b" \in Ends
    BY <1>4 DEF Ends
  <2> QED
    BY ONLY <2>4, <2>7, <2>8, <2>9, t \in BOOLEAN, ScheduledQp
<1> QED
  BY <1>2, <1>3, <1>4

TbRec == [pc : {"idle", "send", "note"}, todo : SUBSET Reads, drop : SUBSET Reads,
          cur : 0..MaxReads, was : BOOLEAN, ret : {"none", "ok", "busy", "fail"}, need : BOOLEAN]

\* A step of the timer: responses leave the list, the works are left alone.
LEMMA TimerStep ==
  ASSUME Inv, NEW C, C \in [Reads -> CtxRec], ctx' = C, UNCHANGED work, exp'.psn = exp.psn,
         exp' \in [psn : 1..(MaxReads + 1), held : SUBSET Reads], tb' \in TbRec,
         tb'.pc = "idle" => tb' = IdleTb,
         tb'.pc = "note" => tb'.cur \in Reads /\ tb'.cur \notin tb'.todo,
         \A p \in Reads : p \in tb'.todo \/ (tb'.pc = "note" /\ tb'.cur = p) => C[p].retries < MaxRetries,
         \A p \in Reads : C[p].on => ctx[p].on,
         \A p \in Reads : C[p].refs > 0 => ctx[p].refs > 0,
         \A p \in Reads : C[p].refs = CtxHolders(p)',
         qp'["b"].refs = qp["b"].refs - Cardinality(Released(C)),
         qp'["b"].st = "gone" <=> qp["b"].st = "gone"
  PROVE  BOK' /\ qp'["b"].refs \in Nat
<1>1. BTypes'
  BY DEF Inv, BOK, BTypes, TbRec
<1>2. TurnOK'
  BY DEF Inv, BOK, TurnOK
<1>3. TimerOK'
  <2>1. \A q \in Reads : work[q] \in {"none", "queued", "queue"} => C[q].on = FALSE
    <3>1. \A q \in Reads : C[q].on \in BOOLEAN
      BY DEF CtxRec
    <3> QED
      BY <3>1 DEF Inv, BOK, TimerOK
  <2>2. \A q \in Reads : work[q] \in {"none", "queued"} => C[q].refs = 0
    <3>1. \A q \in Reads : C[q].refs \in Nat
      BY DEF CtxRec
    <3>2. \A q \in Reads : work[q] \in {"none", "queued"} => ctx[q].refs = 0
      BY DEF Inv, BOK, TimerOK
    <3> QED
      BY <3>1, <3>2
  <2> QED
    BY <2>1, <2>2 DEF TimerOK
<1> PICK W : W = {}
  OBVIOUS
<1>4. W \subseteq Working /\ Working' = Working \ W
  BY DEF Working
<1>5. qp'["b"].refs = qp["b"].refs - Cardinality(Released(C)) - Cardinality(W)
  <2>1. Cardinality(W) = 0 /\ Cardinality(Released(C)) \in Nat /\ qp["b"].refs \in Nat
    BY NothingFreed, QpOfFacts, ReadFacts
  <2> QED
    BY <2>1
<1> QED
  BY <1>1, <1>2, <1>3, <1>4, <1>5, CtxMoved

\* What the timer's and the receiver's records say.
LEMMA TbFacts ==
  ASSUME Inv
  PROVE  /\ tb \in TbRec /\ exp \in [psn : 1..(MaxReads + 1), held : SUBSET Reads]
         /\ tb.pc = "idle" => tb = IdleTb
         /\ tb.pc = "note" => tb.cur \in Reads /\ tb.cur \notin tb.todo
         /\ \A p \in Reads : p \in tb.todo \/ (tb.pc = "note" /\ tb.cur = p) => ctx[p].retries < MaxRetries
         /\ tb.todo \subseteq Reads /\ tb.drop \subseteq Reads
BY DEF Inv, BOK, BTypes, TimerOK, TbRec

\* tbv_qp_timeout_reap_read_resps()
LEMMA BTimerReapB ==
  ASSUME Inv, NEW S \in SUBSET Reads, BTimerReap(S)
  PROVE  BOK' /\ qp' \in [Ends -> QpRec] /\ qp'["a"] = qp["a"]
<1> PICK drop : drop = {p \in S : Doomed(p)}
  OBVIOUS
<1> PICK C : C = ctx'
  OBVIOUS
<1> PICK need \in BOOLEAN : need = \E p \in Reads \ drop : ctx[p].on
  OBVIOUS
<1>1. /\ tb.pc = "idle" /\ ctx' = C /\ qp' = [qp EXCEPT !["b"].tw = FALSE] /\ UNCHANGED <<exp, work>>
      /\ \A p \in S : ctx[p].on
      /\ tb' = [IdleTb EXCEPT !.pc = "send", !.todo = S \ drop, !.drop = drop, !.need = need]
  BY DEF BTimerReap
<1>c. /\ C = [p \in Reads |-> C[p]]
      /\ \A p \in Reads : p \in drop => C[p] = [ctx[p] EXCEPT !.on = FALSE, !.closing = TRUE]
      /\ \A p \in Reads : p \in S /\ p \notin drop => C[p] = [ctx[p] EXCEPT !.forced = FALSE, !.refs = @ + 1]
      /\ \A p \in Reads : p \notin S => C[p] = ctx[p]
  BY DEF BTimerReap
<1>2. /\ tb' = [pc |-> "send", todo |-> S \ drop, drop |-> drop, cur |-> 0, was |-> FALSE, ret |-> "none",
                need |-> need]
      /\ tb = IdleTb /\ tb' \in TbRec
  <2>1. tb' = [pc |-> "send", todo |-> S \ drop, drop |-> drop, cur |-> 0, was |-> FALSE, ret |-> "none",
               need |-> need]
    BY <1>1 DEF IdleTb
  <2>2. S \ drop \in SUBSET Reads /\ drop \in SUBSET Reads /\ 0 \in 0..MaxReads
    BY CountFacts
  <2>3. tb' \in TbRec
    BY ONLY <2>1, <2>2, need \in BOOLEAN DEF TbRec
  <2> QED
    BY <1>1, <2>1, <2>3, TbFacts
<1>3. ASSUME NEW p \in Reads
      PROVE  /\ C[p] \in CtxRec /\ C[p].refs = CtxHolders(p)' /\ (C[p].on => ctx[p].on)
             /\ (C[p].refs > 0 <=> ctx[p].refs > 0)
             /\ (p \in S \ drop => C[p].retries < MaxRetries)
  <2> PICK c : c = ctx[p]
    OBVIOUS
  <2>0. c \in CtxRec /\ c.refs \in Nat /\ c.on \in BOOLEAN /\ c.refs = CtxHolders(p) /\ (c.on => c.refs > 0)
    BY CtxFacts
  <2> PICK o : o = B(work[p] \in {"queue", "send", "ok", "busy", "fail"})
    OBVIOUS
  <2>o. o \in {0, 1} /\ c.refs = o + B(c.on)
    BY <1>2, <2>0 DEF CtxHolders, B, IdleTb
  <2>h. CtxHolders(p)' = o + B(ctx'[p].on) + B(p \in drop) + B(p \in S \ drop) + 0
    <3>1. work' = work /\ tb'.pc = "send" /\ tb'.todo = S \ drop /\ tb'.drop = drop
      BY <1>1, <1>2
    <3>2. B(FALSE) = 0
      BY DEF B
    <3> QED
      BY <3>1, <3>2 DEF CtxHolders
  <2>1. CASE p \in drop
    <3> PICK d : d = [c EXCEPT !.on = FALSE, !.closing = TRUE]
      OBVIOUS
    <3>1. d \in CtxRec /\ d.on = FALSE /\ d.refs = c.refs
      BY ONLY <2>0, d = [c EXCEPT !.on = FALSE, !.closing = TRUE] DEF CtxRec
    <3>2. C[p] = d /\ ctx'[p] = d /\ c.on = TRUE
      BY <1>1, <1>c, <2>0, <2>1
    <3>3. CtxHolders(p)' = o + 1 /\ c.refs = o + 1
      <4>1. B(c.on) = 1 /\ B(ctx'[p].on) = 0 /\ B(p \in drop) = 1 /\ B(p \in S \ drop) = 0
        BY <2>1, <3>1, <3>2 DEF B
      <4> QED
        BY ONLY <2>h, <2>o, <4>1
    <3> QED
      BY <2>0, <2>1, <3>1, <3>2, <3>3
  <2>2. CASE p \in S /\ p \notin drop
    <3> PICK n \in Nat : n = c.refs + 1
      BY <2>0
    <3> PICK d : d = [c EXCEPT !.forced = FALSE, !.refs = n]
      OBVIOUS
    <3>1. d \in CtxRec /\ d.on = c.on /\ d.refs = n /\ d.retries = c.retries
      BY ONLY <2>0, n \in Nat, d = [c EXCEPT !.forced = FALSE, !.refs = n] DEF CtxRec
    <3>2. C[p] = d /\ ctx'[p] = d /\ c.on = TRUE
      BY <1>1, <1>c, <2>0, <2>2
    <3>3. CtxHolders(p)' = o + 2 /\ c.refs = o + 1
      <4>1. B(c.on) = 1 /\ B(ctx'[p].on) = 1 /\ B(p \in drop) = 0 /\ B(p \in S \ drop) = 1
        BY <2>2, <3>1, <3>2 DEF B
      <4> QED
        BY ONLY <2>h, <2>o, <4>1
    <3>4. c.retries < MaxRetries
      <4>1. ~(c.retries >= MaxRetries)
        BY <2>2 DEF Doomed
      <4>2. c.retries \in Nat /\ MaxRetries \in Nat
        BY <2>0, CountFacts DEF CtxRec
      <4> QED
        BY <4>1, <4>2
    <3>5. d.refs = o + 2 /\ d.refs > 0 /\ c.refs > 0
      BY <2>o, <3>1, <3>3, n = c.refs + 1
    <3> QED
      BY <2>2, <3>1, <3>2, <3>3, <3>4, <3>5
  <2>3. CASE p \notin S
    <3>1. C[p] = c /\ ctx'[p] = c /\ p \notin drop
      BY <1>1, <1>c, <2>3
    <3>2. CtxHolders(p)' = o + B(c.on)
      <4>1. B(ctx'[p].on) = B(c.on) /\ B(p \in drop) = 0 /\ B(p \in S \ drop) = 0 /\ B(c.on) \in {0, 1}
        BY <2>3, <3>1 DEF B
      <4> QED
        BY ONLY <2>h, <2>o, <4>1
    <3> QED
      BY <2>0, <2>3, <2>o, <3>1, <3>2
  <2> QED
    BY <2>1, <2>2, <2>3
<1>4. C \in [Reads -> CtxRec]
  BY <1>c, <1>3
<1>5. Released(C) = {} /\ Cardinality(Released(C)) = 0
  <2>1. \A p \in Reads : ~(ctx[p].refs > 0 /\ C[p].refs = 0)
    BY <1>3
  <2>2. Released(C) = {}
    BY <2>1 DEF Released
  <2> QED
    BY <2>2, NothingFreed
<1>6. /\ qp'["b"].refs = qp["b"].refs /\ qp'["b"].st = qp["b"].st /\ qp'["a"] = qp["a"]
      /\ qp' \in [Ends -> QpRec] /\ qp["b"].refs - 0 = qp["b"].refs
  <2>1. qp \in [Ends -> QpRec] /\ qp["b"].refs \in Nat
    BY ReadFacts
  <2>2. qp' = [qp EXCEPT !["b"].tw = FALSE]
    BY <1>1
  <2>3. qp' \in [Ends -> QpRec]
    BY ONLY <2>1, <2>2, ScheduledQp DEF Ends
  <2>4. qp'["b"].refs = qp["b"].refs /\ qp'["b"].st = qp["b"].st /\ qp'["a"] = qp["a"]
    BY ONLY <2>1, <2>2 DEF Ends
  <2> QED
    BY ONLY <2>1, <2>3, <2>4
<1>7. BOK'
  <2>1. /\ exp'.psn = exp.psn /\ exp' \in [psn : 1..(MaxReads + 1), held : SUBSET Reads] /\ tb' \in TbRec
        /\ (tb'.pc = "idle" => tb' = IdleTb)
        /\ (tb'.pc = "note" => tb'.cur \in Reads /\ tb'.cur \notin tb'.todo)
        /\ UNCHANGED work /\ ctx' = C
    BY <1>1, <1>2, TbFacts
  <2>2. \A p \in Reads : p \in tb'.todo \/ (tb'.pc = "note" /\ tb'.cur = p) => C[p].retries < MaxRetries
    BY <1>2, <1>3
  <2>3. qp'["b"].refs = qp["b"].refs - Cardinality(Released(C)) /\ (qp'["b"].st = "gone" <=> qp["b"].st = "gone")
    BY <1>5, <1>6
  <2>4. /\ \A p \in Reads : C[p].on => ctx[p].on
        /\ \A p \in Reads : C[p].refs > 0 => ctx[p].refs > 0
        /\ \A p \in Reads : C[p].refs = CtxHolders(p)'
    BY <1>3
  <2> QED
    BY ONLY Inv, <1>4, <2>1, <2>2, <2>3, <2>4, TimerStep
<1> QED
  BY <1>6, <1>7

\* The timer sends a response again.
LEMMA BTimerSendB ==
  ASSUME Inv, NEW p \in Reads, BTimerSend(p)
  PROVE  BOK' /\ qp' \in [Ends -> QpRec] /\ qp'["a"] = qp["a"]
<1> PICK ret \in {"ok", "busy", "fail"} :
      tb' = [tb EXCEPT !.pc = "note", !.todo = @ \ {p}, !.cur = p, !.was = ctx[p].sent, !.ret = ret]
  BY DEF BTimerSend
<1>1. tb.pc = "send" /\ p \in tb.todo /\ UNCHANGED <<qp, exp, work, ctx>>
  BY DEF BTimerSend
<1>2. tb \in TbRec /\ ctx[p] \in CtxRec /\ tb.todo \subseteq Reads
  BY TbFacts, CtxFacts
<1> PICK T \in SUBSET Reads : T = tb.todo \ {p}
  BY <1>2
<1> PICK s \in BOOLEAN : s = ctx[p].sent
  BY <1>2 DEF CtxRec
<1>3. /\ tb' \in TbRec /\ tb'.pc = "note" /\ tb'.todo = T /\ tb'.cur = p /\ tb'.drop = tb.drop
  <2>1. p \in 0..MaxReads
    BY CountFacts DEF Reads
  <2>2. tb' = [tb EXCEPT !.pc = "note", !.todo = T, !.cur = p, !.was = s, !.ret = ret]
    OBVIOUS
  <2> QED
    BY ONLY <1>2, <2>1, <2>2, T \in SUBSET Reads, s \in BOOLEAN, ret \in {"ok", "busy", "fail"} DEF TbRec
<1>4. ASSUME NEW q \in Reads PROVE ctx[q].refs = CtxHolders(q)'
  <2>1. ctx[q].refs = CtxHolders(q)
    BY CtxFacts
  <2>2. CASE q = p
    BY <1>1, <1>3, <2>1, <2>2 DEF CtxHolders, B
  <2>3. CASE q # p
    BY <1>1, <1>3, <2>1, <2>3 DEF CtxHolders, B
  <2> QED
    BY <2>2, <2>3
<1>5. Cardinality(Released(ctx)) = 0
  <2>1. Released(ctx) = {}
    BY DEF Released
  <2> QED
    BY <2>1, NothingFreed
<1>6. BOK'
  <2>1. /\ exp'.psn = exp.psn /\ exp' \in [psn : 1..(MaxReads + 1), held : SUBSET Reads] /\ tb' \in TbRec
        /\ (tb'.pc = "idle" => tb' = IdleTb)
        /\ (tb'.pc = "note" => tb'.cur \in Reads /\ tb'.cur \notin tb'.todo)
        /\ UNCHANGED work /\ ctx' = ctx /\ ctx \in [Reads -> CtxRec]
    BY <1>1, <1>3, TbFacts, CtxFacts
  <2>2. \A q \in Reads : q \in tb'.todo \/ (tb'.pc = "note" /\ tb'.cur = q) => ctx[q].retries < MaxRetries
    BY <1>1, <1>3, TbFacts
  <2>3. qp'["b"].refs = qp["b"].refs - Cardinality(Released(ctx)) /\ (qp'["b"].st = "gone" <=> qp["b"].st = "gone")
    BY <1>1, <1>5, ReadFacts
  <2>4. /\ \A q \in Reads : ctx[q].on => ctx[q].on
        /\ \A q \in Reads : ctx[q].refs > 0 => ctx[q].refs > 0
        /\ \A q \in Reads : ctx[q].refs = CtxHolders(q)'
    BY <1>4
  <2> QED
    BY ONLY Inv, <2>1, <2>2, <2>3, <2>4, TimerStep
<1> QED
  BY <1>1, <1>6, ReadFacts

\* The outcome of a retransmission.
Renoted(c) ==
  IF c.closing THEN c
  ELSE [c EXCEPT !.armed = TRUE, !.forced = FALSE, !.sent = @ \/ tb.ret = "ok",
                 !.retries = IF (tb.ret = "ok" /\ tb.was) \/ tb.ret = "fail" THEN @ + 1 ELSE @]

\* The timer's note leaves place and references.
LEMMA RenotedFacts ==
  ASSUME Inv, NEW c \in CtxRec, c.retries < MaxRetries
  PROVE  Renoted(c) \in CtxRec /\ Renoted(c).refs = c.refs /\ Renoted(c).on = c.on /\ Renoted(c).ver = c.ver
<1>1. CASE c.closing
  BY <1>1 DEF Renoted
<1>2. CASE ~c.closing
  <2>1. c.retries \in 0..MaxRetries /\ MaxRetries \in Nat /\ c.sent \in BOOLEAN
    BY CountFacts DEF CtxRec
  <2> PICK n \in 0..MaxRetries : n = IF (tb.ret = "ok" /\ tb.was) \/ tb.ret = "fail" THEN c.retries + 1 ELSE c.retries
    BY <2>1
  <2> PICK s \in BOOLEAN : s = (c.sent \/ tb.ret = "ok")
    BY <2>1
  <2>2. Renoted(c) = [c EXCEPT !.armed = TRUE, !.forced = FALSE, !.sent = s, !.retries = n]
    BY <1>2 DEF Renoted
  <2> QED
    BY ONLY c \in CtxRec, <2>2, n \in 0..MaxRetries, s \in BOOLEAN DEF CtxRec
<1> QED
  BY <1>1, <1>2

\* The timer puts its reference on a response it has sent again.
LEMMA BTimerNoteB ==
  ASSUME Inv, BTimerNote
  PROVE  BOK' /\ qp' \in [Ends -> QpRec] /\ qp'["a"] = qp["a"]
<1> PICK p : p = tb.cur
  OBVIOUS
<1> PICK c : c = ctx[p]
  OBVIOUS
<1> PICK n : n = Renoted(c)
  OBVIOUS
<1> PICK d : d = PutCtx(n)
  OBVIOUS
<1> PICK C : C = [ctx EXCEPT ![p] = d]
  OBVIOUS
<1> PICK need : need = (tb.need \/ ~c.closing)
  OBVIOUS
<1>1. /\ tb.pc = "note" /\ ctx' = C /\ qp' = QpOf(C) /\ UNCHANGED <<exp, work>>
      /\ tb' = [tb EXCEPT !.pc = "send", !.cur = 0, !.ret = "none", !.was = FALSE, !.need = need]
  BY DEF BTimerNote, Renoted
<1>2. p \in Reads /\ p \notin tb.todo
  BY <1>1, TbFacts
<1>3. /\ ctx \in [Reads -> CtxRec] /\ c \in CtxRec /\ c.refs \in Nat /\ c.refs > 0 /\ c.retries < MaxRetries
      /\ c.closing \in BOOLEAN /\ c.on \in BOOLEAN
  BY <1>1, <1>2, CtxFacts, TbFacts DEF CtxRec
<1>4. n \in CtxRec /\ n.refs = c.refs /\ n.on = c.on
  BY <1>3, RenotedFacts
<1>5. d \in CtxRec /\ d.refs = c.refs - 1 /\ d.on = c.on
  BY ONLY <1>3, <1>4, d = PutCtx(n), PutCtxFacts
<1>6. C \in [Reads -> CtxRec] /\ C[p] = d /\ \A q \in Reads : q # p => C[q] = ctx[q]
  BY <1>2, <1>3, <1>5
<1>7. tb' \in TbRec /\ tb'.pc = "send" /\ tb'.todo = tb.todo /\ tb'.drop = tb.drop
  <2>1. tb \in TbRec
    BY TbFacts
  <2>2. need \in BOOLEAN /\ 0 \in 0..MaxReads
    BY <1>3, <2>1, CountFacts DEF TbRec
  <2>3. tb' = [tb EXCEPT !.pc = "send", !.cur = 0, !.ret = "none", !.was = FALSE, !.need = need]
    BY <1>1
  <2> QED
    BY ONLY <2>1, <2>2, <2>3 DEF TbRec
<1>8. ASSUME NEW q \in Reads PROVE C[q].refs = CtxHolders(q)'
  <2>1. ctx[q].refs = CtxHolders(q)
    BY CtxFacts
  <2>2. work' = work /\ ctx'[q] = C[q]
    BY <1>1
  <2>3. CASE q = p
    BY <1>1, <1>5, <1>6, <1>7, <2>1, <2>2, <2>3 DEF CtxHolders, B
  <2>4. CASE q # p
    BY <1>1, <1>6, <1>7, <2>1, <2>2, <2>4 DEF CtxHolders, B
  <2> QED
    BY <2>3, <2>4
<1>9. /\ qp'["b"].refs = qp["b"].refs - Cardinality(Released(C)) /\ qp'["b"].st = qp["b"].st
      /\ qp'["a"] = qp["a"]
  BY <1>1, QpOfFacts
<1>10. BOK' /\ qp'["b"].refs \in Nat
  <2>1. /\ exp'.psn = exp.psn /\ exp' \in [psn : 1..(MaxReads + 1), held : SUBSET Reads] /\ tb' \in TbRec
        /\ (tb'.pc = "idle" => tb' = IdleTb)
        /\ (tb'.pc = "note" => tb'.cur \in Reads /\ tb'.cur \notin tb'.todo)
        /\ UNCHANGED work /\ ctx' = C
    BY <1>1, <1>7, TbFacts
  <2>2. \A q \in Reads : q \in tb'.todo \/ (tb'.pc = "note" /\ tb'.cur = q) => C[q].retries < MaxRetries
    BY <1>2, <1>6, <1>7, TbFacts
  <2>3. qp'["b"].st = "gone" <=> qp["b"].st = "gone"
    BY <1>9
  <2>4. /\ \A q \in Reads : C[q].on => ctx[q].on
        /\ \A q \in Reads : C[q].refs > 0 => ctx[q].refs > 0
        /\ \A q \in Reads : C[q].refs = CtxHolders(q)'
    BY <1>3, <1>5, <1>6, <1>8
  <2> QED
    BY ONLY Inv, <1>6, <1>9, <2>1, <2>2, <2>3, <2>4, TimerStep
<1> QED
  BY <1>1, <1>9, <1>10, QpOfFacts

\* All responses leave the list.
LEMMA TakeAllFacts ==
  ASSUME NEW D \in [Reads -> CtxRec], \A p \in Reads : D[p].on => D[p].refs > 0
  PROVE  /\ TakeAll(D) \in [Reads -> CtxRec]
         /\ \A p \in Reads : /\ TakeAll(D)[p].on = FALSE /\ TakeAll(D)[p].refs = D[p].refs - B(D[p].on)
                             /\ TakeAll(D)[p].retries = D[p].retries /\ TakeAll(D)[p].ver = D[p].ver
<1>1. ASSUME NEW p \in Reads
      PROVE  /\ TakeAll(D)[p] \in CtxRec /\ TakeAll(D)[p].on = FALSE
             /\ TakeAll(D)[p].refs = D[p].refs - B(D[p].on)
             /\ TakeAll(D)[p].retries = D[p].retries /\ TakeAll(D)[p].ver = D[p].ver
  <2> PICK c : c = D[p]
    OBVIOUS
  <2>1. TakeAll(D)[p] = Take(c)
    BY DEF TakeAll
  <2>2. c \in CtxRec /\ (c.on => c.refs > 0) /\ c.refs \in Nat
    BY DEF CtxRec
  <2>3. /\ Take(c) \in CtxRec /\ Take(c).refs = (IF c.on THEN c.refs - 1 ELSE c.refs)
        /\ Take(c).on = FALSE /\ Take(c).retries = c.retries /\ Take(c).ver = c.ver
    BY ONLY <2>2, TakeFacts
  <2>4. Take(c).refs = c.refs - B(c.on)
    BY <2>2, <2>3 DEF B
  <2> QED
    BY <2>1, <2>3, <2>4
<1>2. TakeAll(D) \in [Reads -> CtxRec]
  <2>1. \A p \in Reads : TakeAll(D)[p] \in CtxRec
    BY <1>1
  <2> QED
    BY <2>1 DEF TakeAll
<1> QED
  BY <1>1, <1>2

\* The dropped responses are put, and fail the queue pair.
LEMMA BTimerEndB ==
  ASSUME Inv, BTimerEnd
  PROVE  BOK' /\ qp' \in [Ends -> QpRec] /\ qp'["a"] = qp["a"]
<1> DEFINE D0 == [p \in Reads |-> IF p \in tb.drop THEN PutCtx(ctx[p]) ELSE ctx[p]]
<1> PICK D : D = D0
  OBVIOUS
<1> PICK err \in BOOLEAN : err = (tb.drop # {} /\ Receives("b"))
  OBVIOUS
<1> PICK C : C = IF err THEN TakeAll(D) ELSE D
  OBVIOUS
<1> PICK held : held = IF err THEN {} ELSE exp.held
  OBVIOUS
<1> PICK t : t = IF tb.need \/ held # {} THEN Schedule("b") ELSE QpOf(C)["b"].tw
  OBVIOUS
<1> PICK st : st = IF err THEN "err" ELSE QpOf(C)["b"].st
  OBVIOUS
<1>1. /\ tb.pc = "send" /\ tb.todo = {} /\ tb' = IdleTb /\ ctx' = C /\ exp' = [exp EXCEPT !.held = held]
      /\ qp' = [QpOf(C) EXCEPT !["b"].st = st, !["b"].tw = t] /\ UNCHANGED work
  BY DEF BTimerEnd
<1>d. D = [p \in Reads |-> D[p]] /\ \A p \in Reads : D[p] = IF p \in tb.drop THEN PutCtx(ctx[p]) ELSE ctx[p]
  OBVIOUS
<1>2. ASSUME NEW p \in Reads
      PROVE  /\ D[p] \in CtxRec /\ D[p].on = ctx[p].on /\ D[p].refs = ctx[p].refs - B(p \in tb.drop)
             /\ (D[p].on => D[p].refs > 0) /\ D[p].refs \in Nat
  <2> PICK c : c = ctx[p]
    OBVIOUS
  <2>0. c \in CtxRec /\ c.refs \in Nat /\ c.on \in BOOLEAN /\ (c.on => c.refs > 0)
        /\ (p \in tb.drop => c.refs > 0) /\ (c.on /\ p \in tb.drop => c.refs > 1)
    BY CtxFacts
  <2>1. CASE p \in tb.drop
    <3>1. D[p] = PutCtx(c) /\ B(p \in tb.drop) = 1
      BY <1>d, <2>1 DEF B
    <3>2. PutCtx(c) \in CtxRec /\ PutCtx(c).refs = c.refs - 1 /\ PutCtx(c).on = c.on
      BY ONLY <2>0, <2>1, PutCtxFacts
    <3> QED
      BY <2>0, <2>1, <3>1, <3>2
  <2>2. CASE p \notin tb.drop
    <3>1. D[p] = c /\ B(p \in tb.drop) = 0
      BY <1>d, <2>2 DEF B
    <3> QED
      BY <2>0, <3>1
  <2> QED
    BY <2>1, <2>2
<1> HIDE DEF D0
<1>3. D \in [Reads -> CtxRec]
  BY <1>d, <1>2
<1>4. /\ C \in [Reads -> CtxRec]
      /\ \A p \in Reads : /\ C[p].on = (IF err THEN FALSE ELSE ctx[p].on)
                          /\ C[p].refs = D[p].refs - (IF err THEN B(ctx[p].on) ELSE 0)
  <2>1. CASE err = TRUE
    <3>1. C = TakeAll(D)
      BY <2>1
    <3>2. \A p \in Reads : D[p].on => D[p].refs > 0
      BY <1>2
    <3>3. /\ TakeAll(D) \in [Reads -> CtxRec]
          /\ \A p \in Reads : TakeAll(D)[p].on = FALSE /\ TakeAll(D)[p].refs = D[p].refs - B(D[p].on)
      BY ONLY <1>3, <3>2, TakeAllFacts
    <3> QED
      BY <1>2, <2>1, <3>1, <3>3
  <2>2. CASE err = FALSE
    <3>1. C = D
      BY <2>2
    <3>2. \A p \in Reads : D[p].refs - 0 = D[p].refs
      BY <1>2
    <3> QED
      BY <1>2, <1>3, <2>2, <3>1, <3>2
  <2> QED
    BY <2>1, <2>2
<1>5. ASSUME NEW p \in Reads
      PROVE  C[p].refs = CtxHolders(p)' /\ (C[p].on => ctx[p].on) /\ (C[p].refs > 0 => ctx[p].refs > 0)
  <2>1. ctx[p].refs = CtxHolders(p) /\ ctx[p].refs \in Nat /\ ctx[p].on \in BOOLEAN
    BY CtxFacts
  <2> PICK o : o = B(work[p] \in {"queue", "send", "ok", "busy", "fail"})
    OBVIOUS
  <2>2. /\ CtxHolders(p) = o + B(ctx[p].on) + B(p \in tb.drop) + 0 + 0
        /\ o \in {0, 1} /\ B(ctx[p].on) \in {0, 1} /\ B(p \in tb.drop) \in {0, 1}
    BY <1>1 DEF CtxHolders, B
  <2>3. CtxHolders(p)' = o + B(C[p].on) + 0 + 0 + 0
    BY <1>1 DEF CtxHolders, B, IdleTb
  <2>4. B(C[p].on) = IF err THEN 0 ELSE B(ctx[p].on)
    BY <1>4 DEF B
  <2>5. /\ C[p].refs = D[p].refs - (IF err THEN B(ctx[p].on) ELSE 0) /\ D[p].refs = ctx[p].refs - B(p \in tb.drop)
    BY <1>2, <1>4
  <2>6. C[p].refs = CtxHolders(p)' /\ (C[p].refs > 0 => ctx[p].refs > 0)
    BY ONLY <2>1, <2>2, <2>3, <2>4, <2>5, err \in BOOLEAN
  <2> QED
    BY <1>4, <2>6
<1>6. /\ qp'["b"].refs = QpOf(C)["b"].refs /\ qp'["b"].st = st /\ qp'["a"] = qp["a"]
      /\ QpOf(C)["b"].refs = qp["b"].refs - Cardinality(Released(C))
  BY <1>1, QpOfFacts DEF Ends
<1>7. st \in {"rts", "err", "gone"} /\ (st = "gone" <=> qp["b"].st = "gone")
  <2>1. CASE err = TRUE
    BY <2>1 DEF Receives
  <2>2. CASE err = FALSE
    BY <2>2, QpOfFacts, ReadFacts DEF QpRec
  <2> QED
    BY <2>1, <2>2
<1>8. t \in BOOLEAN
  <2>1. qp["b"].tw \in BOOLEAN /\ Schedule("b") \in BOOLEAN
    BY ReadFacts DEF QpRec, Schedule
  <2> QED
    BY <2>1, QpOfFacts
<1>9. exp'.psn = exp.psn /\ exp' \in [psn : 1..(MaxReads + 1), held : SUBSET Reads]
  <2>1. exp \in [psn : 1..(MaxReads + 1), held : SUBSET Reads] /\ exp' = [exp EXCEPT !.held = held]
    BY <1>1, TbFacts
  <2>2. held \in SUBSET Reads
    BY <2>1
  <2> QED
    BY ONLY <2>1, <2>2
<1>10. BOK' /\ qp'["b"].refs \in Nat
  <2>1. /\ tb' \in TbRec /\ (tb'.pc = "idle" => tb' = IdleTb)
        /\ (tb'.pc = "note" => tb'.cur \in Reads /\ tb'.cur \notin tb'.todo)
        /\ UNCHANGED work /\ ctx' = C
    <3>1. IdleTb \in TbRec /\ IdleTb.pc = "idle"
      BY CountFacts DEF IdleTb, TbRec
    <3> QED
      BY <1>1, <3>1
  <2>2. \A q \in Reads : q \in tb'.todo \/ (tb'.pc = "note" /\ tb'.cur = q) => C[q].retries < MaxRetries
    BY <1>1 DEF IdleTb
  <2>3. /\ qp'["b"].st = "gone" <=> qp["b"].st = "gone"
        /\ qp'["b"].refs = qp["b"].refs - Cardinality(Released(C))
    BY <1>6, <1>7
  <2>4. /\ \A q \in Reads : C[q].on => ctx[q].on
        /\ \A q \in Reads : C[q].refs > 0 => ctx[q].refs > 0
        /\ \A q \in Reads : C[q].refs = CtxHolders(q)'
    BY <1>5
  <2> QED
    BY ONLY Inv, <1>4, <1>9, <2>1, <2>2, <2>3, <2>4, TimerStep
<1>11. QpOf(C) \in [Ends -> QpRec]
  BY <1>6, <1>10, QpOfFacts
<1>12. qp' = [QpOf(C) EXCEPT !["b"].st = st, !["b"].tw = t]
  BY <1>1
<1>13. qp' \in [Ends -> QpRec]
  BY ONLY <1>7, <1>8, <1>11, <1>12 DEF QpRec
<1> QED
  BY <1>6, <1>10, <1>13

\* The destruction of the responder cancels its responses.
LEMMA DestroyFlushB ==
  ASSUME Inv, DestroyFlush("b")
  PROVE  BOK' /\ qp' \in [Ends -> QpRec] /\ qp'["a"] = qp["a"]
<1> PICK C : C = TakeAll(ctx)
  OBVIOUS
<1>1. ctx' = C /\ qp' = QpOf(C) /\ UNCHANGED <<exp, work, tb>>
  BY DEF DestroyFlush
<1>2. ctx \in [Reads -> CtxRec] /\ \A p \in Reads : ctx[p].on => ctx[p].refs > 0
  BY CtxFacts
<1>3. /\ C \in [Reads -> CtxRec]
      /\ \A p \in Reads : C[p].on = FALSE /\ C[p].refs = ctx[p].refs - B(ctx[p].on) /\ C[p].retries = ctx[p].retries
  BY ONLY <1>2, C = TakeAll(ctx), TakeAllFacts
<1>4. ASSUME NEW p \in Reads
      PROVE  C[p].refs = CtxHolders(p)' /\ (C[p].refs > 0 => ctx[p].refs > 0)
  <2>1. ctx[p].refs = CtxHolders(p) /\ ctx[p].refs \in Nat
    BY CtxFacts
  <2> PICK o : o = B(work[p] \in {"queue", "send", "ok", "busy", "fail"}) + B(p \in tb.drop)
                   + B(p \in tb.todo) + B(tb.pc = "note" /\ tb.cur = p)
    OBVIOUS
  <2>2. CtxHolders(p) = o + B(ctx[p].on) /\ B(ctx[p].on) \in {0, 1} /\ o \in Nat
    BY DEF CtxHolders, B
  <2>3. CtxHolders(p)' = o
    BY <1>1, <1>3 DEF CtxHolders, B
  <2>4. C[p].refs = ctx[p].refs - B(ctx[p].on)
    BY <1>3
  <2> QED
    BY ONLY <2>1, <2>2, <2>3, <2>4
<1>5. /\ qp'["b"].refs = qp["b"].refs - Cardinality(Released(C)) /\ qp'["b"].st = qp["b"].st
      /\ qp'["a"] = qp["a"]
  BY <1>1, QpOfFacts
<1>6. BOK' /\ qp'["b"].refs \in Nat
  <2>1. /\ exp'.psn = exp.psn /\ exp' \in [psn : 1..(MaxReads + 1), held : SUBSET Reads] /\ tb' \in TbRec
        /\ (tb'.pc = "idle" => tb' = IdleTb)
        /\ (tb'.pc = "note" => tb'.cur \in Reads /\ tb'.cur \notin tb'.todo)
        /\ UNCHANGED work /\ ctx' = C
    BY <1>1, TbFacts
  <2>2. \A q \in Reads : q \in tb'.todo \/ (tb'.pc = "note" /\ tb'.cur = q) => C[q].retries < MaxRetries
    BY <1>1, <1>3, TbFacts
  <2>3. qp'["b"].st = "gone" <=> qp["b"].st = "gone"
    BY <1>5
  <2>4. /\ \A q \in Reads : C[q].on => ctx[q].on
        /\ \A q \in Reads : C[q].refs > 0 => ctx[q].refs > 0
        /\ \A q \in Reads : C[q].refs = CtxHolders(q)'
    BY <1>3, <1>4
  <2> QED
    BY ONLY Inv, <1>3, <1>5, <2>1, <2>2, <2>3, <2>4, TimerStep
<1> QED
  BY <1>1, <1>5, <1>6, QpOfFacts

\* The responder's queue pair goes when nothing holds it.
LEMMA DestroyDoneB ==
  ASSUME Inv, DestroyDone("b")
  PROVE  BOK' /\ qp' \in [Ends -> QpRec] /\ qp'["a"] = qp["a"]
<1>1. /\ qp["b"].refs = 1 /\ user["b"] = "wait" /\ qp' = [qp EXCEPT !["b"].st = "gone", !["b"].refs = 0]
      /\ exp' = [exp EXCEPT !.held = {}] /\ UNCHANGED <<work, ctx, tb>>
  BY DEF DestroyDone
<1>2. qp["b"].st # "gone"
  BY <1>1 DEF Inv, EnvOK, GoneOK, Ends
<1>3. /\ qp["b"].refs = B(qp["b"].st # "gone") + Cardinality(Answering) + Cardinality(Working)
      /\ Cardinality(Answering) \in Nat /\ Cardinality(Working) \in Nat
  BY CtxFacts
<1>4. B(qp["b"].st # "gone") = 1
  BY <1>2 DEF B
<1>5. Cardinality(Answering) = 0 /\ Cardinality(Working) = 0
  BY <1>1, <1>3, <1>4
<1>6. qp' \in [Ends -> QpRec] /\ qp'["b"].st = "gone" /\ qp'["b"].refs = 0 /\ qp'["a"] = qp["a"]
  BY <1>1, ReadFacts DEF Ends, QpRec
<1>7. B(qp'["b"].st # "gone") = 0 /\ Answering' = Answering /\ Working' = Working
  BY <1>1, <1>6 DEF B, Answering, Working
<1>8. \A p \in Reads : CtxHolders(p)' = CtxHolders(p)
  BY <1>1 DEF CtxHolders
<1>9. BRefs'
  <2>1. qp'["b"].refs = B(qp'["b"].st # "gone") + Cardinality(Answering') + Cardinality(Working')
    BY <1>5, <1>6, <1>7
  <2> QED
    BY <1>1, <1>8, <2>1 DEF Inv, BOK, BRefs
<1>10. exp' \in [psn : 1..(MaxReads + 1), held : SUBSET Reads] /\ exp'.psn = exp.psn
  BY <1>1, TbFacts
<1> QED
  BY <1>1, <1>6, <1>9, <1>10 DEF Inv, BOK, BTypes, TimerOK, TurnOK

\* The requests whose turn it is follow each other.
InARow(p, turn) ==
  /\ turn \in SUBSET Reads /\ Cardinality(turn) \in Nat
  /\ p + Cardinality(turn) \in 1..(MaxReads + 1)
  /\ turn = p..(p + Cardinality(turn) - 1)
\* A request in turn makes room for those that follow it without a gap.
LEMMA TurnFacts ==
  ASSUME Inv, NEW p \in Reads
  PROVE  InARow(p, {p} \cup Delivered(p))
<1> PICK turn : turn = {p} \cup Delivered(p)
  OBVIOUS
<1>1. MaxReads \in Nat /\ exp.held \subseteq Reads /\ p \in Nat /\ p >= 1 /\ p <= MaxReads
  BY CountFacts, TbFacts DEF Reads
<1>2. turn \in SUBSET Reads
  BY <1>1 DEF Delivered
<1>3. \A q \in turn : q >= p /\ q \in Nat
  BY <1>1 DEF Delivered, Reads
<1>4. ASSUME NEW q \in turn, NEW k \in p..q PROVE k \in turn
  <2>1. CASE k = p
    BY <2>1
  <2>2. CASE k # p
    <3>1. q \in Nat /\ k \in Nat /\ k > p /\ k <= q /\ q # p
      BY <1>1, <1>3, <1>4, <2>2
    <3>2. q \in Delivered(p)
      BY <3>1
    <3>3. (p + 1)..q \subseteq exp.held
      BY <3>2 DEF Delivered
    <3>4. k \in (p + 1)..q /\ (p + 1)..k \subseteq (p + 1)..q
      BY <1>1, <3>1
    <3>5. k \in Delivered(p)
      BY <3>1, <3>3, <3>4 DEF Delivered
    <3> QED
      BY <3>5
  <2> QED
    BY <2>1, <2>2
<1> PICK T : T = {n \in p..(MaxReads + 1) : n \notin turn}
  OBVIOUS
<1>5. T \subseteq Nat /\ MaxReads + 1 \in T
  <2>1. MaxReads + 1 \notin Reads /\ MaxReads + 1 \in p..(MaxReads + 1)
    BY <1>1 DEF Reads
  <2> QED
    BY <1>1, <1>2, <2>1
<1> PICK n \in T : \A m \in T : n <= m
  BY <1>5, Least
<1>6. n \in p..(MaxReads + 1) /\ n \notin turn /\ n \in Nat /\ n # p
  BY <1>1, <1>5
<1>7. turn = p..(n - 1)
  <2>1. ASSUME NEW q \in turn PROVE q \in p..(n - 1)
    <3>1. q \in Nat /\ q >= p
      BY <1>3
    <3>2. ~(n <= q)
      <4>1. n \in p..q => n \in turn
        BY <1>4
      <4> QED
        BY <1>1, <1>6, <3>1, <4>1
    <3> QED
      BY <1>1, <1>6, <3>1, <3>2
  <2>2. ASSUME NEW q \in p..(n - 1) PROVE q \in turn
    <3>1. q \in p..(MaxReads + 1) /\ ~(n <= q)
      BY <1>1, <1>6
    <3> QED
      BY <3>1
  <2> QED
    BY <2>1, <2>2
<1>8. Cardinality(p..(n - 1)) = n - p
  <2>1. p \in Int /\ n - 1 \in Int /\ p <= n - 1
    BY <1>1, <1>6
  <2>2. Cardinality(p..(n - 1)) = IF p > n - 1 THEN 0 ELSE (n - 1) - p + 1
    BY <2>1, FS_Interval
  <2> QED
    BY <1>1, <1>6, <2>1, <2>2
<1> PICK k : k = Cardinality(turn)
  OBVIOUS
<1>9. k = n - p
  BY ONLY <1>7, <1>8, k = Cardinality(turn)
<1>10. p + k = n /\ k \in Nat /\ n \in 1..(MaxReads + 1)
  BY ONLY <1>1, <1>6, <1>9
<1>11. InARow(p, turn)
  BY ONLY <1>2, <1>7, <1>10, k = Cardinality(turn) DEF InARow
<1> QED
  BY <1>11, turn = {p} \cup Delivered(p)

\* A request is queued with those that waited for it, or waits itself.
LEMMA ReqArriveB ==
  ASSUME Inv, ReqArrive
  PROVE  BOK' /\ qp' \in [Ends -> QpRec] /\ qp'["a"] = qp["a"]
<1>0. Head(wire.req) \in ReqFrame /\ UNCHANGED <<ctx, tb>>
  BY HeadFacts DEF ReqArrive
<1> PICK p \in Reads : p = Head(wire.req).psn
  BY <1>0 DEF ReqFrame
<1> PICK turn : turn = {p} \cup Delivered(p)
  OBVIOUS
<1>1. \/ UNCHANGED <<exp, work, qp>>
      \/ /\ p = exp.psn /\ exp' = [psn |-> p + Cardinality(turn), held |-> exp.held \ turn]
         /\ work' = [q \in Reads |-> IF q \in turn THEN "queued" ELSE work[q]]
         /\ qp' = [qp EXCEPT !["b"].refs = @ + Cardinality(turn)]
      \/ /\ exp' = BufferReadReq(p) /\ qp' = [qp EXCEPT !["b"].tw = Schedule("b")] /\ UNCHANGED work
  BY DEF ReqArrive
<1>2. CASE UNCHANGED <<exp, work, qp>>
  BY <1>0, <1>2, BKept, ReadFacts
<1>3. CASE /\ exp' = BufferReadReq(p) /\ qp' = [qp EXCEPT !["b"].tw = Schedule("b")] /\ UNCHANGED work
  <2>1. Schedule("b") \in BOOLEAN /\ qp \in [Ends -> QpRec] /\ "b" \in Ends
    BY ReadFacts DEF Schedule, QpRec, Ends
  <2>2. qp' = [qp EXCEPT !["b"].tw = Schedule("b")]
    BY <1>3
  <2>3. qp' \in [Ends -> QpRec] /\ qp'["a"] = qp["a"] /\ qp'["b"].refs = qp["b"].refs /\ qp'["b"].st = qp["b"].st
    <3>1. qp' \in [Ends -> QpRec]
      BY ONLY <2>1, <2>2, ScheduledQp
    <3> QED
      BY ONLY <2>1, <2>2, <3>1 DEF Ends
  <2>4. exp'.psn = exp.psn /\ exp' \in [psn : 1..(MaxReads + 1), held : SUBSET Reads]
    BY <1>3, TbFacts DEF BufferReadReq
  <2>5. \A q \in Reads : CtxHolders(q)' = CtxHolders(q)
    BY <1>0, <1>3 DEF CtxHolders
  <2>6. Answering' = Answering /\ Working' = Working /\ B(qp'["b"].st # "gone") = B(qp["b"].st # "gone")
    BY <1>0, <1>3, <2>3 DEF Answering, Working
  <2>7. BTypes' /\ TimerOK' /\ TurnOK' /\ BRefs'
    BY <1>0, <1>3, <2>3, <2>4, <2>5, <2>6 DEF Inv, BOK, BTypes, TimerOK, TurnOK, BRefs
  <2> QED
    BY <2>3, <2>7 DEF BOK
<1>4. CASE /\ p = exp.psn /\ exp' = [psn |-> p + Cardinality(turn), held |-> exp.held \ turn]
           /\ work' = [q \in Reads |-> IF q \in turn THEN "queued" ELSE work[q]]
           /\ qp' = [qp EXCEPT !["b"].refs = @ + Cardinality(turn)]
  <2>1. /\ turn \in SUBSET Reads /\ Cardinality(turn) \in Nat /\ p + Cardinality(turn) \in 1..(MaxReads + 1)
        /\ turn = p..(p + Cardinality(turn) - 1)
    <3>1. InARow(p, turn)
      BY TurnFacts
    <3> QED
      BY <3>1 DEF InARow
  <2>2. \A q \in turn : work[q] = "none" /\ ctx[q].on = FALSE /\ ctx[q].refs = 0
    <3>1. \A q \in turn : q \in Reads /\ q >= exp.psn
      BY <1>4, <2>1
    <3> QED
      BY <3>1 DEF Inv, BOK, TimerOK, TurnOK
  <2>3. \A q \in Reads : q >= p + Cardinality(turn) => q \notin turn /\ work[q] = "none"
    <3>1. p \in Nat
      BY CountFacts DEF Reads
    <3>2. \A q \in Reads : q \in Nat /\ (q >= p + Cardinality(turn) => q \notin turn /\ q >= p)
      BY ONLY <2>1, <3>1, CountFacts DEF Reads
    <3> QED
      BY <1>4, <3>2 DEF Inv, BOK, TurnOK
  <2>4. work' \in [Reads -> WorkStates] /\ \A q \in Reads : work'[q] = IF q \in turn THEN "queued" ELSE work[q]
    BY <1>4, CtxFacts DEF WorkStates
  <2>5. exp' \in [psn : 1..(MaxReads + 1), held : SUBSET Reads] /\ exp'.psn = p + Cardinality(turn)
    BY <1>4, <2>1, TbFacts
  <2>6. \A q \in Reads : CtxHolders(q)' = CtxHolders(q)
    BY <1>0, <2>2, <2>4 DEF CtxHolders
  <2>7. BTypes' /\ TimerOK' /\ TurnOK'
    <3>1. BTypes'
      BY <1>0, <2>4, <2>5 DEF Inv, BOK, BTypes
    <3>2. TimerOK'
      BY <1>0, <2>2, <2>4 DEF Inv, BOK, TimerOK
    <3>3. TurnOK'
      BY <2>3, <2>4, <2>5 DEF TurnOK
    <3> QED
      BY <3>1, <3>2, <3>3
  <2>8. Working' = Working \cup turn /\ Working \cap turn = {} /\ Answering' = Answering
    BY <1>0, <2>1, <2>2, <2>4 DEF Working, Answering
  <2>9. Cardinality(Working') = Cardinality(Working) + Cardinality(turn) /\ Cardinality(Working) \in Nat
    <3>1. Working \in SUBSET Reads /\ Working' \in SUBSET Reads /\ Working \subseteq Working' /\ Working' \ Working = turn
      BY <2>1, <2>8 DEF Working
    <3>2. Cardinality(Working) = Cardinality(Working') - Cardinality(turn) /\ Cardinality(Working') \in Nat
          /\ Cardinality(Working) \in Nat
      BY <3>1, CountFacts
    <3> QED
      BY ONLY <2>1, <3>2
  <2> PICK k \in Nat : k = Cardinality(turn)
    BY <2>1
  <2>10. qp' \in [Ends -> QpRec] /\ qp'["a"] = qp["a"] /\ qp'["b"].refs = qp["b"].refs + k /\ qp'["b"].st = qp["b"].st
    <3>1. qp \in [Ends -> QpRec] /\ qp["b"].refs \in Nat
      BY ReadFacts
    <3> PICK m \in Nat : m = qp["b"].refs + k
      BY <3>1
    <3>2. qp' = [qp EXCEPT !["b"].refs = m]
      BY <1>4
    <3> QED
      BY ONLY <3>1, <3>2, m \in Nat, m = qp["b"].refs + k DEF Ends, QpRec
  <2>11. qp'["b"].refs = B(qp'["b"].st # "gone") + Cardinality(Answering') + Cardinality(Working')
    <3>1. /\ qp["b"].refs = B(qp["b"].st # "gone") + Cardinality(Answering) + Cardinality(Working)
          /\ Cardinality(Answering) \in Nat
      BY CtxFacts
    <3>2. B(qp'["b"].st # "gone") = B(qp["b"].st # "gone") /\ B(qp["b"].st # "gone") \in {0, 1}
      BY <2>10 DEF B
    <3> PICK a, b, c : a = B(qp["b"].st # "gone") /\ b = Cardinality(Answering) /\ c = Cardinality(Working)
      OBVIOUS
    <3>3. a + b + c + k = a + b + (c + k)
      BY <2>9, <3>1, <3>2
    <3> QED
      BY <2>8, <2>9, <2>10, <3>1, <3>2, <3>3
  <2>12. BRefs'
    BY <1>0, <2>6, <2>11 DEF Inv, BOK, BRefs
  <2> QED
    BY <2>7, <2>10, <2>12 DEF BOK
<1> QED
  BY <1>1, <1>2, <1>3, <1>4

-----------------------------------------------------------------------------
(* The scenario and the frames.                                            *)

\* What remains of the bounds only gets less.
LEMMA SpendFacts ==
  ASSUME Inv, NEW what \in {"lose", "slow", "busy", "fails", "writes"}, Spend(what)
  PROVE  conf' \in Conf /\ conf'.len = conf.len
<1>1. conf \in Conf /\ conf.left[what] > 0 /\ conf' = [conf EXCEPT !.left[what] = @ - 1]
  BY DEF Inv, EnvOK, EnvTypes, Spend
<1>2. conf.left \in Bounds
  BY <1>1 DEF Conf
<1> PICK L : L = [conf.left EXCEPT ![what] = @ - 1]
  OBVIOUS
<1>3. L \in Bounds
  BY <1>1, <1>2 DEF Bounds
<1>4. conf' = [conf EXCEPT !.left = L]
  BY <1>1
<1> QED
  BY ONLY <1>1, <1>3, <1>4 DEF Conf

\* The scenario and the lengths it gives.
LEMMA ConfFacts ==
  ASSUME Inv
  PROVE  conf \in Conf /\ \A p \in DOMAIN conf.len : p \in Reads /\ conf.len[p] \in 0..MaxFrags
<1>1. conf \in Conf
  BY DEF Inv, EnvOK, EnvTypes
<1> PICK k \in 0..MaxReads : conf.len \in [1..k -> 0..MaxFrags]
  BY <1>1 DEF Conf
<1> QED
  BY <1>1, CountFacts DEF Reads

\* A frame is added to its queue, or taken from it.
LEMMA WireFacts ==
  ASSUME Inv
  PROVE  /\ wire \in WireSet
         /\ \A f \in ReqFrame : /\ [wire EXCEPT !["req"] = Append(@, f)] \in WireSet
                                /\ [wire EXCEPT !["req"] = Append(@, f)].req = Append(wire.req, f)
         /\ \A f \in AckFrame : /\ [wire EXCEPT !["ack"] = Append(@, f)] \in WireSet
                                /\ [wire EXCEPT !["ack"] = Append(@, f)].req = wire.req
         /\ \A f \in StatFrame : /\ [wire EXCEPT !["stat"] = Append(@, f)] \in WireSet
                                 /\ [wire EXCEPT !["stat"] = Append(@, f)].req = wire.req
         /\ \A s \in Seq(DataFrame) : /\ [wire EXCEPT !.data = @ \o s] \in WireSet
                                      /\ [wire EXCEPT !.data = @ \o s].req = wire.req
         /\ \A w \in Wires : wire[w] # <<>> =>
              /\ [wire EXCEPT ![w] = Tail(@)] \in WireSet
              /\ [wire EXCEPT ![w] = Tail(@)].req = (IF w = "req" THEN Tail(wire.req) ELSE wire.req)
<1>1. wire \in WireSet
  BY DEF Inv, EnvOK, EnvTypes
<1>2. /\ wire.req \in Seq(ReqFrame) /\ wire.ack \in Seq(AckFrame) /\ wire.data \in Seq(DataFrame)
      /\ wire.stat \in Seq(StatFrame)
  BY <1>1 DEF WireSet
<1>3. /\ \A s \in Seq(ReqFrame) : [wire EXCEPT !["req"] = s] \in WireSet /\ [wire EXCEPT !["req"] = s].req = s
      /\ \A s \in Seq(AckFrame) : [wire EXCEPT !["ack"] = s] \in WireSet /\ [wire EXCEPT !["ack"] = s].req = wire.req
      /\ \A s \in Seq(DataFrame) : [wire EXCEPT !["data"] = s] \in WireSet /\ [wire EXCEPT !["data"] = s].req = wire.req
      /\ \A s \in Seq(StatFrame) : [wire EXCEPT !["stat"] = s] \in WireSet /\ [wire EXCEPT !["stat"] = s].req = wire.req
  BY <1>1 DEF WireSet
<1>4. /\ \A f \in ReqFrame : Append(wire.req, f) \in Seq(ReqFrame)
      /\ \A f \in AckFrame : Append(wire.ack, f) \in Seq(AckFrame)
      /\ \A f \in StatFrame : Append(wire.stat, f) \in Seq(StatFrame)
  BY <1>2, AppendProperties
<1>5. \A s \in Seq(DataFrame) : wire.data \o s \in Seq(DataFrame)
  BY <1>2, ConcatProperties
<1>6. ASSUME NEW w \in Wires, wire[w] # <<>>
      PROVE  /\ [wire EXCEPT ![w] = Tail(@)] \in WireSet
             /\ [wire EXCEPT ![w] = Tail(@)].req = (IF w = "req" THEN Tail(wire.req) ELSE wire.req)
  <2>1. CASE w = "req"
    <3>1. wire[w] = wire.req /\ wire.req # <<>>
      BY <1>6, <2>1
    <3>2. Tail(wire.req) \in Seq(ReqFrame)
      BY <3>1, HeadFacts
    <3> QED
      BY <1>3, <2>1, <3>1, <3>2
  <2>2. CASE w = "ack"
    <3>1. wire[w] = wire.ack /\ wire.ack # <<>>
      BY <1>6, <2>2
    <3>2. Tail(wire.ack) \in Seq(AckFrame)
      BY <3>1, HeadFacts
    <3> QED
      BY <1>3, <2>2, <3>1, <3>2
  <2>3. CASE w = "data"
    <3>1. wire[w] = wire.data /\ wire.data # <<>>
      BY <1>6, <2>3
    <3>2. Tail(wire.data) \in Seq(DataFrame)
      BY <3>1, HeadFacts
    <3> QED
      BY <1>3, <2>3, <3>1, <3>2
  <2>4. CASE w = "stat"
    <3>1. wire[w] = wire.stat /\ wire.stat # <<>>
      BY <1>6, <2>4
    <3>2. Tail(wire.stat) \in Seq(StatFrame)
      BY <3>1, HeadFacts
    <3> QED
      BY <1>3, <2>4, <3>1, <3>2
  <2> QED
    BY <2>1, <2>2, <2>3, <2>4 DEF Wires
<1> QED
  BY <1>1, <1>2, <1>3, <1>4, <1>5, <1>6

\* The requests that are left are among those that were there.
LEMMA ReqLeft ==
  ASSUME Inv, wire.req # <<>>
  PROVE  /\ Head(wire.req).psn \in DOMAIN conf.len
         /\ \A i \in 1..Len(Tail(wire.req)) : Tail(wire.req)[i].psn \in DOMAIN conf.len
<1>1. wire.req \in Seq(ReqFrame)
  BY WireFacts DEF WireSet
<1>2. Head(wire.req) = wire.req[1] /\ 1 \in 1..Len(wire.req)
  BY <1>1
<1>3. \A i \in 1..Len(Tail(wire.req)) : i + 1 \in 1..Len(wire.req) /\ Tail(wire.req)[i] = wire.req[i + 1]
  BY <1>1
<1> QED
  BY <1>2, <1>3 DEF Inv, LenOK

\* The fragments of a response.
LEMMA ResponseFacts ==
  ASSUME Inv, NEW p \in DOMAIN conf.len, NEW n \in 0..conf.len[p]
  PROVE  Response(p, n) \in Seq(DataFrame)
<1>1. p \in Reads /\ conf.len[p] \in 0..MaxFrags /\ MaxFrags \in Nat /\ n \in Nat
  BY ConfFacts, CountFacts
<1>2. ctx[p].ver \in Nat
  BY <1>1, CtxFacts DEF CtxRec
<1>3. ASSUME NEW k \in 1..n PROVE [psn |-> p, k |-> k - 1, ver |-> ctx[p].ver] \in DataFrame
  <2>1. k - 1 \in Ks
    BY <1>1 DEF Ks
  <2> QED
    BY <1>1, <1>2, <2>1 DEF DataFrame
<1>4. Response(p, n) \in [1..n -> DataFrame]
  BY <1>3 DEF Response
<1> QED
  BY <1>1, <1>4, SeqDef

\* A step keeps the invariant when its parts do.
LEMMA StepOK ==
  ASSUME Inv, AOK', BOK', qp' \in [Ends -> QpRec], conf' \in Conf, conf'.len = conf.len, mem' \in Nat,
         wire' \in WireSet, user' \in [Ends -> {"idle", "stop", "flush", "wait"}],
         \A e \in Ends : user'[e] # "idle" => qp'[e].st # "gone",
         \A r \in Reads : rd'[r].pos # "none" => rd[r].pos # "none" \/ r \in DOMAIN conf.len,
         \A i \in 1..Len(wire'.req) : wire'.req[i].psn \in DOMAIN conf.len,
         exp'.held \subseteq DOMAIN conf.len,
         \A p \in Reads : work'[p] # "none" => p \in DOMAIN conf.len
  PROVE  Inv'
<1>1. LenOK'
  BY DEF Inv, LenOK
<1>2. EnvOK'
  BY DEF EnvOK, EnvTypes, GoneOK
<1> QED
  BY <1>1, <1>2 DEF Inv

\* A step of the requester.
LEMMA AStep ==
  ASSUME Inv, AOK', qp' \in [Ends -> QpRec], UNCHANGED <<exp, work, ctx, tb, user, mem>>,
         qp'["b"] = qp["b"], qp'["a"].st = "gone" => qp["a"].st = "gone",
         conf' \in Conf, conf'.len = conf.len, wire' \in WireSet, wire'.req = wire.req,
         \A r \in Reads : rd'[r].pos # "none" => rd[r].pos # "none" \/ r \in DOMAIN conf.len
  PROVE  Inv'
<1>1. BOK'
  BY BKept
<1>2. \A e \in Ends : user'[e] # "idle" => qp'[e].st # "gone"
  BY DEF Ends, Inv, EnvOK, GoneOK
<1>3. /\ mem' \in Nat /\ user' \in [Ends -> {"idle", "stop", "flush", "wait"}]
      /\ \A i \in 1..Len(wire'.req) : wire'.req[i].psn \in DOMAIN conf.len
      /\ exp'.held \subseteq DOMAIN conf.len /\ \A p \in Reads : work'[p] # "none" => p \in DOMAIN conf.len
  BY DEF Inv, EnvOK, EnvTypes, LenOK
<1> QED
  BY <1>1, <1>2, <1>3, StepOK

\* A step of the responder.
LEMMA BStep ==
  ASSUME Inv, BOK', qp' \in [Ends -> QpRec], qp'["a"] = qp["a"], UNCHANGED <<rd, slots, post, rx, user, mem>>,
         qp'["b"].st = "gone" => qp["b"].st = "gone",
         conf' \in Conf, conf'.len = conf.len, wire' \in WireSet,
         \A i \in 1..Len(wire'.req) : wire'.req[i].psn \in DOMAIN conf.len,
         exp'.held \subseteq DOMAIN conf.len, \A p \in Reads : work'[p] # "none" => p \in DOMAIN conf.len
  PROVE  Inv'
<1>1. AOK'
  BY AKept
<1>2. \A e \in Ends : user'[e] # "idle" => qp'[e].st # "gone"
  BY DEF Ends, Inv, EnvOK, GoneOK
<1>3. mem' \in Nat /\ user' \in [Ends -> {"idle", "stop", "flush", "wait"}]
  BY DEF Inv, EnvOK, EnvTypes
<1> QED
  BY <1>1, <1>2, <1>3, StepOK

\* What the invariant says of the scenario and the frames.
LEMMA EnvFacts ==
  ASSUME Inv
  PROVE  /\ conf \in Conf /\ wire \in WireSet
         /\ \A i \in 1..Len(wire.req) : wire.req[i].psn \in DOMAIN conf.len
         /\ exp.held \subseteq DOMAIN conf.len
         /\ \A p \in Reads : work[p] # "none" => p \in DOMAIN conf.len
         /\ \A r \in Reads : rd[r].pos # "none" => r \in DOMAIN conf.len
BY DEF Inv, EnvOK, EnvTypes, LenOK

\* A read is posted.
LEMMA PostReserveStep ==
  ASSUME Inv, PostReserve
  PROVE  Inv'
<1> PICK n : n = NextRead
  OBVIOUS
<1> PICK c : c = [NoRead EXCEPT !.pos = "post", !.slot = TRUE, !.refs = 1, !.since = mem]
  OBVIOUS
<1>1. /\ n \in DOMAIN conf.len /\ rd' = [rd EXCEPT ![n] = c] /\ qp' = [qp EXCEPT !["a"].refs = @ + 1]
      /\ UNCHANGED <<conf, exp, work, ctx, tb, mem, wire, user>>
  BY DEF PostReserve
<1>2. AOK' /\ qp' \in [Ends -> QpRec]
  BY PostReserveA
<1>3. qp'["b"] = qp["b"] /\ qp'["a"].st = qp["a"].st
  BY <1>1, ReadFacts DEF Ends, QpRec
<1>4. \A r \in Reads : rd'[r].pos # "none" => rd[r].pos # "none" \/ r \in DOMAIN conf.len
  BY <1>1, ReadFacts
<1> QED
  BY <1>1, <1>2, <1>3, <1>4, EnvFacts, AStep

\* A post that finds no path.
LEMMA PostNoPathStep ==
  ASSUME Inv, PostNoPath
  PROVE  Inv'
<1> PICK r : r = post.r
  OBVIOUS
<1> PICK R : R = rd'
  OBVIOUS
<1> PICK d : d = PutRead([rd[r] EXCEPT !.pos = "off", !.slot = FALSE, !.res = "rejected"])
  OBVIOUS
<1>1. /\ R = [rd EXCEPT ![r] = d] /\ qp' = QpAfter(R) /\ Spend("fails") /\ post.pc = "queue"
      /\ UNCHANGED <<exp, work, ctx, tb, mem, wire, user>>
  BY DEF PostNoPath, SetReads
<1>2. AOK' /\ qp' \in [Ends -> QpRec]
  BY PostNoPathA
<1>3. qp'["b"] = qp["b"] /\ qp'["a"].st = qp["a"].st
  BY <1>1, QpAfterFacts
<1>4. r \in Reads /\ rd[r].pos # "none"
  BY <1>1 DEF Inv, AOK, PostOK
<1>5. \A q \in Reads : rd'[q].pos # "none" => rd[q].pos # "none" \/ q \in DOMAIN conf.len
  BY <1>1, <1>4, ReadFacts
<1> QED
  BY <1>1, <1>2, <1>3, <1>5, SpendFacts, EnvFacts, AStep

\* The read is listed.
LEMMA PostQueueStep ==
  ASSUME Inv, PostQueue
  PROVE  Inv'
<1> PICK r : r = post.r
  OBVIOUS
<1>1. /\ rd' = [rd EXCEPT ![r].pos = "list", ![r].refs = @ + 1] /\ post.pc = "queue"
      /\ UNCHANGED <<conf, qp, exp, work, ctx, tb, mem, wire, user>>
  BY DEF PostQueue
<1>2. AOK' /\ qp' \in [Ends -> QpRec]
  BY PostQueueA
<1>4. r \in Reads /\ rd[r].pos # "none"
  BY <1>1 DEF Inv, AOK, PostOK
<1>5. \A q \in Reads : rd'[q].pos # "none" => rd[q].pos # "none" \/ q \in DOMAIN conf.len
  BY <1>1, <1>4, ReadFacts
<1> QED
  BY <1>1, <1>2, <1>5, EnvFacts, AStep

\* The path accepts the request.
LEMMA PostSendStep ==
  ASSUME Inv, PostSend
  PROVE  Inv'
<1> PICK r : r = post.r
  OBVIOUS
<1>1. /\ rd' = [rd EXCEPT ![r].tx = "queued"] /\ post.pc = "send"
      /\ UNCHANGED <<conf, qp, exp, work, ctx, tb, mem, wire, user>>
  BY DEF PostSend
<1>2. AOK' /\ qp' \in [Ends -> QpRec]
  BY PostSendA
<1>4. r \in Reads /\ rd[r].pos # "none"
  BY <1>1 DEF Inv, AOK, PostOK
<1>5. \A q \in Reads : rd'[q].pos # "none" => rd[q].pos # "none" \/ q \in DOMAIN conf.len
  BY <1>1, <1>4, ReadFacts
<1> QED
  BY <1>1, <1>2, <1>5, EnvFacts, AStep

\* The path refuses a read that is still on the list.
LEMMA PostRefusedStep ==
  ASSUME Inv, PostRefused, rd[post.r].pos = "list"
  PROVE  Inv'
<1> PICK r : r = post.r
  OBVIOUS
<1> PICK R : R = rd'
  OBVIOUS
<1> PICK d : d = Complete([rd[r] EXCEPT !.pos = "off", !.slot = FALSE, !.refs = @ - 2], "rejected")
  OBVIOUS
<1>1. /\ R = [rd EXCEPT ![r] = d] /\ qp' = QpAfter(R) /\ Spend("fails") /\ post.pc = "send"
      /\ UNCHANGED <<exp, work, ctx, tb, mem, wire, user>>
  BY DEF PostRefused, SetReads
<1>2. AOK' /\ qp' \in [Ends -> QpRec]
  BY PostRefusedA
<1>3. qp'["b"] = qp["b"] /\ qp'["a"].st = qp["a"].st
  BY <1>1, QpAfterFacts
<1>4. r \in Reads /\ rd[r].pos # "none"
  BY <1>1 DEF Inv, AOK, PostOK
<1>5. \A q \in Reads : rd'[q].pos # "none" => rd[q].pos # "none" \/ q \in DOMAIN conf.len
  BY <1>1, <1>4, ReadFacts
<1> QED
  BY <1>1, <1>2, <1>3, <1>5, SpendFacts, EnvFacts, AStep

\* The request is on the wire: its read was posted.
LEMMA TransmitStep ==
  ASSUME Inv, NEW r \in Reads, Transmit(r)
  PROVE  Inv'
<1> PICK f : f = [psn |-> r]
  OBVIOUS
<1>1. /\ rd' = [rd EXCEPT ![r].tx = "sent"] /\ rd[r].tx = "queued"
      /\ wire' = [wire EXCEPT !["req"] = Append(@, f)]
      /\ UNCHANGED <<conf, qp, exp, work, ctx, tb, mem, user>>
  BY DEF Transmit, Send
<1>2. AOK' /\ qp' \in [Ends -> QpRec]
  BY TransmitA
<1>3. BOK'
  BY <1>1, BKept
<1>4. rd[r].pos # "none"
  BY <1>1, HolderFacts
<1>5. \A q \in Reads : rd'[q].pos # "none" => rd[q].pos # "none" \/ q \in DOMAIN conf.len
  BY <1>1, <1>4, ReadFacts
<1>6. f \in ReqFrame /\ f.psn \in DOMAIN conf.len
  BY <1>4, EnvFacts DEF ReqFrame
<1>7. wire' \in WireSet /\ wire'.req = Append(wire.req, f)
  BY <1>1, <1>6, WireFacts
<1>8. ASSUME NEW i \in 1..Len(wire'.req) PROVE wire'.req[i].psn \in DOMAIN conf.len
  <2>1. wire.req \in Seq(ReqFrame)
    BY EnvFacts DEF WireSet
  <2>2. wire'.req[i] = (IF i \in 1..Len(wire.req) THEN wire.req[i] ELSE f)
    BY <1>6, <1>7, <1>8, <2>1, AppendProperties
  <2> QED
    BY <1>6, <2>2, EnvFacts
<1>9. /\ \A e \in Ends : user'[e] # "idle" => qp'[e].st # "gone"
      /\ mem' \in Nat /\ user' \in [Ends -> {"idle", "stop", "flush", "wait"}]
  BY <1>1 DEF Inv, EnvOK, EnvTypes, GoneOK
<1> QED
  BY <1>1, <1>2, <1>3, <1>5, <1>7, <1>8, <1>9, EnvFacts, StepOK

\* The transmission of a request ends ...
LEMMA TxDoneStep ==
  ASSUME Inv, NEW r \in Reads, TxDone(r)
  PROVE  Inv'
<1> PICK R : R = rd'
  OBVIOUS
<1> PICK d : d = PutRead([rd[r] EXCEPT !.tx = "none", !.armed = @ \/ rd[r].pos = "list"])
  OBVIOUS
<1> PICK t : t = IF rd[r].pos = "list" THEN Schedule("a") ELSE QpAfter(R)["a"].tw
  OBVIOUS
<1>1. /\ R = [rd EXCEPT ![r] = d] /\ qp' = [QpAfter(R) EXCEPT !["a"].tw = t] /\ rd[r].tx = "sent"
      /\ UNCHANGED <<conf, exp, work, ctx, tb, mem, wire, user>>
  BY DEF TxDone, SetReads
<1>2. AOK' /\ qp' \in [Ends -> QpRec]
  BY TxDoneA
<1>3. qp'["b"] = qp["b"] /\ qp'["a"].st = qp["a"].st
  BY <1>1, QpAfterFacts
<1>4. rd[r].pos # "none"
  BY <1>1, HolderFacts
<1>5. \A q \in Reads : rd'[q].pos # "none" => rd[q].pos # "none" \/ q \in DOMAIN conf.len
  BY <1>1, <1>4, ReadFacts
<1> QED
  BY <1>1, <1>2, <1>3, <1>5, EnvFacts, AStep

\* ... or fails.
LEMMA TxFailsStep ==
  ASSUME Inv, NEW r \in Reads, TxFails(r)
  PROVE  Inv'
<1> PICK R : R = rd'
  OBVIOUS
<1>1. /\ R = [rd EXCEPT ![r] = R[r]] /\ qp' = QpAfter(R) /\ Spend("fails") /\ rd[r].tx = "queued"
      /\ UNCHANGED <<exp, work, ctx, tb, mem, wire, user>>
  BY ReadFacts DEF TxFails, SetReads
<1>2. AOK' /\ qp' \in [Ends -> QpRec]
  BY TxFailsA
<1>3. qp'["b"] = qp["b"] /\ qp'["a"].st = qp["a"].st
  BY <1>1, QpAfterFacts
<1>4. rd[r].pos # "none"
  BY <1>1, HolderFacts
<1>5. \A q \in Reads : rd'[q].pos # "none" => rd[q].pos # "none" \/ q \in DOMAIN conf.len
  BY <1>1, <1>4, ReadFacts
<1> QED
  BY <1>1, <1>2, <1>3, <1>5, SpendFacts, EnvFacts, AStep

\* A response is looked up, and a read that is not pending acknowledged.
LEMMA RespArriveStep ==
  ASSUME Inv, NEW w, RespArrive(w)
  PROVE  Inv'
<1> PICK f : f = Head(wire[w])
  OBVIOUS
<1> PICK rest : rest = [wire EXCEPT ![w] = Tail(@)]
  OBVIOUS
<1> PICK a : a = Ack(f.psn, "ok")
  OBVIOUS
<1>1. /\ w \in {"data", "stat"} /\ wire[w] # <<>>
      /\ wire' = rest \/ wire' = [rest EXCEPT !.ack = Append(@, a)]
      /\ UNCHANGED <<conf, exp, work, ctx, tb, mem, user>>
  BY DEF RespArrive
<1>2. AOK' /\ qp' \in [Ends -> QpRec]
  BY RespArriveA
<1>3. \/ UNCHANGED <<rd, qp>>
      \/ /\ rd[f.psn].pos = "list"
         /\ rd' = [rd EXCEPT ![f.psn].refs = @ + 1] /\ qp' = [qp EXCEPT !["a"].refs = @ + 1]
  BY DEF RespArrive
<1>4. f.psn \in Reads
  <2>1. wire["data"] = wire.data /\ wire["stat"] = wire.stat
    OBVIOUS
  <2> QED
    BY <1>1, <2>1, HeadFacts DEF DataFrame, StatFrame
<1>5. qp'["b"] = qp["b"] /\ qp'["a"].st = qp["a"].st
  BY <1>3, ReadFacts DEF Ends, QpRec
<1>6. \A q \in Reads : rd'[q].pos # "none" => rd[q].pos # "none" \/ q \in DOMAIN conf.len
  BY <1>3, <1>4, ReadFacts
<1>7. w \in Wires /\ w # "req"
  BY <1>1 DEF Wires
<1>8. rest \in WireSet /\ rest.req = wire.req
  BY <1>1, <1>7, WireFacts
<1>9. wire' \in WireSet /\ wire'.req = wire.req
  <2>1. a \in AckFrame
    BY <1>4 DEF Ack, AckFrame
  <2>2. rest.ack \in Seq(AckFrame)
    BY <1>8 DEF WireSet
  <2>3. Append(rest.ack, a) \in Seq(AckFrame)
    BY <2>1, <2>2, AppendProperties
  <2>4. \A s \in Seq(AckFrame) : [rest EXCEPT !.ack = s] \in WireSet /\ [rest EXCEPT !.ack = s].req = rest.req
    BY <1>8 DEF WireSet
  <2> QED
    BY <1>1, <1>8, <2>3, <2>4
<1> QED
  BY <1>1, <1>2, <1>5, <1>6, <1>9, EnvFacts, AStep

\* The handler, with its READ_ACK.
LEMMA RespHandleStep ==
  ASSUME Inv, RespHandle
  PROVE  Inv'
<1>1. rx.pc = "handle" /\ UNCHANGED <<conf, exp, work, ctx, tb, mem, user>>
  BY DEF RespHandle
<1>2. wire' = wire \/ \E code \in {"ok", "error", "retry"} : Send("ack", Ack(rx.r, code))
  BY DEF RespHandle
<1>3. rx.r \in Reads
  BY <1>1 DEF Inv, AOK, ATypes
<1>4. wire' \in WireSet /\ wire'.req = wire.req
  <2>1. CASE wire' = wire
    BY <2>1, WireFacts
  <2>2. ASSUME NEW code \in {"ok", "error", "retry"}, Send("ack", Ack(rx.r, code))
        PROVE  wire' \in WireSet /\ wire'.req = wire.req
    <3> PICK a : a = Ack(rx.r, code)
      OBVIOUS
    <3>1. a \in AckFrame
      BY <1>3 DEF Ack, AckFrame
    <3>2. wire' = [wire EXCEPT !["ack"] = Append(@, a)]
      BY <2>2 DEF Send
    <3> QED
      BY <3>1, <3>2, WireFacts
  <2> QED
    BY <1>2, <2>1, <2>2
<1> QED
  BY <1>1, <1>4, RespHandleA, EnvFacts, AStep

\* The timeout work takes the reads that have expired.
LEMMA TimeoutReapStep ==
  ASSUME Inv, TimeoutReap
  PROVE  Inv'
<1> PICK S \in SUBSET Waiting : (UNCHANGED conf \/ Spend("slow")) /\ SetReads(Reap(S))
  BY DEF TimeoutReap
<1>1. qp' = [qp EXCEPT !["a"].tw = FALSE] /\ UNCHANGED <<exp, work, ctx, tb, mem, wire, user>>
  BY DEF TimeoutReap
<1>2. AOK' /\ qp' \in [Ends -> QpRec]
  BY TimeoutReapA
<1>3. qp'["b"] = qp["b"] /\ qp'["a"].st = qp["a"].st
  BY <1>1, ReadFacts DEF Ends, QpRec
<1>4. conf' \in Conf /\ conf'.len = conf.len
  BY SpendFacts, EnvFacts
<1>5. \A q \in Reads : rd'[q] = (IF q \in S THEN [rd[q] EXCEPT !.pos = "reap", !.slot = FALSE] ELSE rd[q])
  BY DEF SetReads, Reap
<1>6. \A q \in Reads : rd'[q].pos # "none" => rd[q].pos # "none" \/ q \in DOMAIN conf.len
  BY <1>5 DEF Waiting
<1> QED
  BY <1>1, <1>2, <1>3, <1>4, <1>6, EnvFacts, AStep

\* The timeout work has nothing to do.
LEMMA TimeoutIdleStep ==
  ASSUME Inv, TimeoutIdle
  PROVE  Inv'
<1>1. qp' = [qp EXCEPT !["a"].tw = FALSE]
      /\ UNCHANGED <<conf, rd, slots, post, rx, exp, work, ctx, tb, mem, wire, user>>
  BY DEF TimeoutIdle
<1>2. qp'["b"] = qp["b"] /\ qp'["a"].st = qp["a"].st /\ qp'["a"].refs = qp["a"].refs
  BY <1>1, ReadFacts DEF Ends, QpRec
<1>3. AOK'
  BY <1>1, <1>2, AKept
<1>4. qp' \in [Ends -> QpRec]
  BY <1>1, ReadFacts, ScheduledQp DEF Ends
<1> QED
  BY <1>1, <1>2, <1>3, <1>4, EnvFacts, AStep

\* tbv_qp_mark_error() flushes the reads.
LEMMA TimeoutErrorStep ==
  ASSUME Inv, TimeoutError
  PROVE  Inv'
<1>1. UNCHANGED <<conf, exp, work, ctx, tb, mem, wire, user>>
  BY DEF TimeoutError
<1>2. AOK' /\ qp' \in [Ends -> QpRec]
  BY TimeoutErrorA
<1> PICK R : R = FlushReads(rd)
  OBVIOUS
<1>3. UNCHANGED <<rd, qp>> \/ (rd' = R /\ qp' = [QpAfter(R) EXCEPT !["a"].st = "err"])
  BY DEF TimeoutError, SetReads
<1>4. qp'["b"] = qp["b"] /\ (qp'["a"].st = "gone" => qp["a"].st = "gone")
  <2>1. CASE UNCHANGED <<rd, qp>>
    BY <2>1
  <2>2. CASE qp' = [QpAfter(R) EXCEPT !["a"].st = "err"]
    <3> PICK g : g = QpAfter(R)
      OBVIOUS
    <3>1. DOMAIN g = Ends /\ g["b"] = qp["b"] /\ g["a"].st = qp["a"].st
      BY QpAfterFacts
    <3>2. qp' = [g EXCEPT !["a"].st = "err"]
      BY <2>2
    <3>3. qp'["b"] = g["b"]
      BY <3>1, <3>2 DEF Ends
    <3>4. qp'["a"] = [g["a"] EXCEPT !.st = "err"]
      BY <3>1, <3>2 DEF Ends
    <3>5. qp'["a"].st # "gone"
      BY <1>2, <3>4 DEF QpRec, Ends
    <3> QED
      BY <3>1, <3>3, <3>5
  <2> QED
    BY <1>3, <2>1, <2>2
<1>5. \A q \in Reads : R[q].pos # "none" => rd[q].pos # "none"
  BY FlushMoves DEF Moves
<1> QED
  BY <1>1, <1>2, <1>3, <1>4, <1>5, EnvFacts, AStep

\* The timeout work completes what it has taken.
LEMMA TimeoutCompleteStep ==
  ASSUME Inv, TimeoutComplete
  PROVE  Inv'
<1>1. UNCHANGED <<conf, exp, work, ctx, tb, mem, wire, user>> /\ qp' = QpAfter(rd')
  BY DEF TimeoutComplete, SetReads
<1>2. AOK' /\ qp' \in [Ends -> QpRec]
  BY TimeoutCompleteA
<1>3. qp'["b"] = qp["b"] /\ qp'["a"].st = qp["a"].st
  <2> PICK R : R = rd'
    OBVIOUS
  <2>1. qp' = QpAfter(R)
    BY <1>1
  <2> QED
    BY <2>1, QpAfterFacts
<1>4. \A q \in Reads : rd[q].pos # "reap" => rd'[q] = rd[q]
  BY DEF TimeoutComplete, SetReads
<1>5. \A q \in Reads : rd'[q].pos # "none" => rd[q].pos # "none"
  BY <1>4
<1> QED
  BY <1>1, <1>2, <1>3, <1>5, EnvFacts, AStep

\* The works of the responder.
LEMMA WorkStatusStep ==
  ASSUME Inv, NEW p \in Reads, WorkStatus(p)
  PROVE  Inv'
<1> PICK o \in BOOLEAN : o = (p \notin conf.deny /\ conf.len[p] = 0)
  OBVIOUS
<1>1. /\ work[p] = "queued" /\ work' = [work EXCEPT ![p] = "done"]
      /\ wire' = [wire EXCEPT !["stat"] = Append(@, [psn |-> p, ok |-> o])]
      /\ qp' = [qp EXCEPT !["b"].refs = @ - 1]
      /\ UNCHANGED <<conf, rd, slots, post, rx, exp, mem, user>>
  BY DEF WorkStatus, ReadStatus, Send
<1>2. qp'["b"].st = qp["b"].st
  BY <1>1, ReadFacts DEF Ends, QpRec
<1>3. wire' \in WireSet /\ wire'.req = wire.req
  <2>1. [psn |-> p, ok |-> o] \in StatFrame
    BY DEF StatFrame
  <2> QED
    BY <1>1, <2>1, WireFacts
<1>4. \A q \in Reads : work'[q] # "none" => q \in DOMAIN conf.len
  BY <1>1, CtxFacts, EnvFacts
<1> QED
  BY <1>1, <1>2, <1>3, <1>4, WorkStatusB, EnvFacts, BStep

\* The memory is copied.
LEMMA WorkSnapshotStep ==
  ASSUME Inv, NEW p \in Reads, WorkSnapshot(p)
  PROVE  Inv'
<1>1. /\ work[p] = "queued" /\ work' = [work EXCEPT ![p] = "queue"]
      /\ qp' = [qp EXCEPT !["b"].refs = @ + 1]
      /\ UNCHANGED <<conf, rd, slots, post, rx, exp, mem, wire, user>>
  BY DEF WorkSnapshot
<1>2. qp'["b"].st = qp["b"].st
  BY <1>1, ReadFacts DEF Ends, QpRec
<1>4. \A q \in Reads : work'[q] # "none" => q \in DOMAIN conf.len
  BY <1>1, CtxFacts, EnvFacts
<1> QED
  BY <1>1, <1>2, <1>4, WorkSnapshotB, EnvFacts, BStep

\* The response is listed.
LEMMA WorkQueueStep ==
  ASSUME Inv, NEW p \in Reads, WorkQueue(p)
  PROVE  Inv'
<1>1. /\ work[p] = "queue" /\ work' = [work EXCEPT ![p] = "send"]
      /\ UNCHANGED <<conf, qp, rd, slots, post, rx, exp, mem, wire, user>>
  BY DEF WorkQueue
<1>4. \A q \in Reads : work'[q] # "none" => q \in DOMAIN conf.len
  BY <1>1, CtxFacts, EnvFacts
<1> QED
  BY <1>1, <1>4, WorkQueueB, EnvFacts, BStep

\* A response, or a part of it, goes out.
LEMMA SendResponseFacts ==
  ASSUME Inv, NEW p \in DOMAIN conf.len, NEW ret, SendResponse(p, ret)
  PROVE  conf' \in Conf /\ conf'.len = conf.len /\ wire' \in WireSet /\ wire'.req = wire.req
<1>1. conf' \in Conf /\ conf'.len = conf.len
  BY SpendFacts, EnvFacts DEF SendResponse
<1>2. p \in Reads /\ conf.len[p] \in 0..MaxFrags /\ MaxFrags \in Nat
  BY ConfFacts, CountFacts
<1>3. \E n \in 0..conf.len[p] : wire' = [wire EXCEPT !.data = @ \o Response(p, n)]
  <2>1. conf.len[p] \in 0..conf.len[p] /\ \A n \in 0..(conf.len[p] - 1) : n \in 0..conf.len[p]
    BY <1>2
  <2> QED
    BY <2>1 DEF SendResponse
<1> PICK n \in 0..conf.len[p] : wire' = [wire EXCEPT !.data = @ \o Response(p, n)]
  BY <1>3
<1> PICK s : s = Response(p, n)
  OBVIOUS
<1>4. s \in Seq(DataFrame)
  BY ResponseFacts
<1> QED
  BY <1>1, <1>4, WireFacts

\* The work sends the response ...
LEMMA WorkSendStep ==
  ASSUME Inv, NEW p \in Reads, WorkSend(p)
  PROVE  Inv'
<1> PICK ret \in {"ok", "busy", "fail"} : SendResponse(p, ret) /\ work' = [work EXCEPT ![p] = ret]
  BY DEF WorkSend
<1>1. work[p] = "send" /\ UNCHANGED <<qp, rd, slots, post, rx, exp, mem, user>>
  BY DEF WorkSend
<1>2. p \in DOMAIN conf.len
  BY <1>1, EnvFacts
<1>3. conf' \in Conf /\ conf'.len = conf.len /\ wire' \in WireSet /\ wire'.req = wire.req
  BY <1>2, SendResponseFacts
<1>4. \A q \in Reads : work'[q] # "none" => q \in DOMAIN conf.len
  BY <1>2, CtxFacts, EnvFacts
<1> QED
  BY <1>1, <1>3, <1>4, WorkSendB, EnvFacts, BStep

\* ... and notes how that went.
LEMMA WorkNoteStep ==
  ASSUME Inv, NEW p \in Reads, WorkNote(p)
  PROVE  Inv'
<1> PICK C : C = ctx'
  OBVIOUS
<1>1. /\ work[p] \in {"ok", "busy", "fail"} /\ work' = [work EXCEPT ![p] = "done"]
      /\ wire' = wire \/ wire' = [wire EXCEPT !["stat"] = Append(@, [psn |-> p, ok |-> FALSE])]
      /\ \E t : qp' = [QpOf(C) EXCEPT !["b"].refs = @ - 1, !["b"].tw = t]
      /\ UNCHANGED <<conf, rd, slots, post, rx, exp, mem, user>>
  BY DEF WorkNote, ReadStatus, Send
<1>2. qp'["b"].st = qp["b"].st
  BY <1>1, QpOfFacts DEF Ends, QpRec
<1>3. wire' \in WireSet /\ wire'.req = wire.req
  <2>1. [psn |-> p, ok |-> FALSE] \in StatFrame
    BY DEF StatFrame
  <2> QED
    BY <1>1, <2>1, WireFacts
<1>4. \A q \in Reads : work'[q] # "none" => q \in DOMAIN conf.len
  BY <1>1, CtxFacts, EnvFacts
<1> QED
  BY <1>1, <1>2, <1>3, <1>4, WorkNoteB, EnvFacts, BStep

\* A READ_ACK arrives.
LEMMA AckArriveStep ==
  ASSUME Inv, AckArrive
  PROVE  Inv'
<1> PICK C : C = ctx'
  OBVIOUS
<1>1. /\ wire.ack # <<>> /\ wire' = [wire EXCEPT !["ack"] = Tail(@)]
      /\ UNCHANGED qp \/ \E t : qp' = [QpOf(C) EXCEPT !["b"].tw = t]
      /\ UNCHANGED <<conf, rd, slots, post, rx, exp, work, mem, user>>
  BY DEF AckArrive
<1>2. qp'["b"].st = qp["b"].st
  <2>1. CASE UNCHANGED qp
    BY <2>1
  <2>2. ASSUME NEW t, qp' = [QpOf(C) EXCEPT !["b"].tw = t] PROVE qp'["b"].st = qp["b"].st
    <3> PICK g : g = QpOf(C)
      OBVIOUS
    <3>1. DOMAIN g = Ends /\ g["b"].st = qp["b"].st
      BY QpOfFacts
    <3>2. qp' = [g EXCEPT !["b"].tw = t]
      BY <2>2
    <3> QED
      BY <3>1, <3>2 DEF Ends
  <2> QED
    BY <1>1, <2>1, <2>2
<1>3. wire' \in WireSet /\ wire'.req = wire.req
  <2>1. "ack" \in Wires /\ wire["ack"] # <<>>
    BY <1>1 DEF Wires
  <2> QED
    BY <1>1, <2>1, WireFacts
<1> QED
  BY <1>1, <1>2, <1>3, AckArriveB, EnvFacts, BStep

\* A request arrives: those whose turn it is were requested.
LEMMA ReqArriveStep ==
  ASSUME Inv, ReqArrive
  PROVE  Inv'
<1> PICK p : p = Head(wire.req).psn
  OBVIOUS
<1> PICK turn : turn = {p} \cup Delivered(p)
  OBVIOUS
<1>1. /\ wire.req # <<>> /\ wire' = [wire EXCEPT !["req"] = Tail(@)]
      /\ UNCHANGED <<conf, rd, slots, post, rx, mem, user>>
  BY DEF ReqArrive
<1>2. \/ UNCHANGED <<exp, work, qp>>
      \/ /\ exp' = [psn |-> p + Cardinality(turn), held |-> exp.held \ turn]
         /\ work' = [q \in Reads |-> IF q \in turn THEN "queued" ELSE work[q]]
         /\ qp' = [qp EXCEPT !["b"].refs = @ + Cardinality(turn)]
      \/ /\ exp' = BufferReadReq(p) /\ qp' = [qp EXCEPT !["b"].tw = Schedule("b")] /\ UNCHANGED work
  BY DEF ReqArrive
<1>3. p \in DOMAIN conf.len
  BY <1>1, ReqLeft
<1>4. turn \subseteq DOMAIN conf.len
  BY <1>3, EnvFacts DEF Delivered
<1>5. exp'.held \subseteq DOMAIN conf.len
  <2>1. exp \in [psn : 1..(MaxReads + 1), held : SUBSET Reads]
    BY TbFacts
  <2>2. exp'.held \subseteq exp.held \cup {p}
    BY <1>2, <2>1 DEF BufferReadReq
  <2> QED
    BY <1>3, <2>2, EnvFacts
<1>6. \A q \in Reads : work'[q] # "none" => q \in DOMAIN conf.len
  BY <1>2, <1>4, EnvFacts
<1>7. qp'["b"].st = qp["b"].st
  BY <1>2, ReadFacts DEF Ends, QpRec
<1>8. wire' \in WireSet /\ wire'.req = Tail(wire.req)
  <2>1. "req" \in Wires /\ wire["req"] # <<>>
    BY <1>1 DEF Wires
  <2> QED
    BY <1>1, <2>1, WireFacts
<1>9. \A i \in 1..Len(wire'.req) : wire'.req[i].psn \in DOMAIN conf.len
  BY <1>1, <1>8, ReqLeft
<1> QED
  BY <1>1, <1>5, <1>6, <1>7, <1>8, <1>9, ReqArriveB, EnvFacts, BStep

\* The responder's timeout work.
LEMMA BTimerReapStep ==
  ASSUME Inv, NEW S \in SUBSET Reads, BTimerReap(S)
  PROVE  Inv'
<1>1. /\ qp' = [qp EXCEPT !["b"].tw = FALSE] /\ (UNCHANGED conf \/ Spend("slow"))
      /\ UNCHANGED <<rd, slots, post, rx, exp, work, mem, wire, user>>
  BY DEF BTimerReap
<1>2. qp'["b"].st = qp["b"].st
  BY <1>1, ReadFacts DEF Ends, QpRec
<1>3. conf' \in Conf /\ conf'.len = conf.len
  BY <1>1, SpendFacts, EnvFacts
<1> QED
  BY <1>1, <1>2, <1>3, BTimerReapB, EnvFacts, BStep

\* The timer sends a response again ...
LEMMA BTimerSendStep ==
  ASSUME Inv, NEW p \in Reads, BTimerSend(p)
  PROVE  Inv'
<1>1. p \in tb.todo /\ UNCHANGED <<qp, rd, slots, post, rx, exp, work, mem, user>>
  BY DEF BTimerSend
<1>2. UNCHANGED <<wire, conf>> \/ \E ret \in {"ok", "busy", "fail"} : SendResponse(p, ret)
  BY DEF BTimerSend
<1>3. p \in DOMAIN conf.len
  <2>1. ctx[p].refs > 0
    BY <1>1, CtxFacts
  <2>2. work[p] \in {"none", "queued"} => ctx[p].refs = 0
    BY DEF Inv, BOK, TimerOK
  <2>3. work[p] # "none"
    BY <2>1, <2>2
  <2> QED
    BY <2>3, EnvFacts
<1>4. conf' \in Conf /\ conf'.len = conf.len /\ wire' \in WireSet /\ wire'.req = wire.req
  BY <1>2, <1>3, SendResponseFacts, EnvFacts
<1> QED
  BY <1>1, <1>4, BTimerSendB, EnvFacts, BStep

\* ... notes how that went ...
LEMMA BTimerNoteStep ==
  ASSUME Inv, BTimerNote
  PROVE  Inv'
<1> PICK C : C = ctx'
  OBVIOUS
<1>1. qp' = QpOf(C) /\ UNCHANGED <<conf, rd, slots, post, rx, exp, work, mem, wire, user>>
  BY DEF BTimerNote
<1>2. qp'["b"].st = qp["b"].st
  BY <1>1, QpOfFacts
<1> QED
  BY <1>1, <1>2, BTimerNoteB, EnvFacts, BStep

\* ... drops the ones without retries ...
LEMMA BTimerEndStep ==
  ASSUME Inv, BTimerEnd
  PROVE  Inv'
<1> PICK C : C = ctx'
  OBVIOUS
<1>1. /\ \E h : exp' = [exp EXCEPT !.held = h] /\ h \subseteq exp.held
      /\ \E s, t : /\ qp' = [QpOf(C) EXCEPT !["b"].st = s, !["b"].tw = t]
                   /\ s = "err" \/ s = QpOf(C)["b"].st
      /\ UNCHANGED <<conf, rd, slots, post, rx, work, mem, wire, user>>
  BY DEF BTimerEnd
<1>2. qp'["b"].st = "gone" => qp["b"].st = "gone"
  BY <1>1, QpOfFacts DEF Ends, QpRec
<1>3. exp'.held \subseteq DOMAIN conf.len
  BY <1>1, TbFacts, EnvFacts
<1> QED
  BY <1>1, <1>2, <1>3, BTimerEndB, EnvFacts, BStep

\* ... or has nothing to do.
LEMMA BTimerIdleStep ==
  ASSUME Inv, BTimerIdle
  PROVE  Inv'
<1>1. /\ qp' = [qp EXCEPT !["b"].tw = FALSE]
      /\ UNCHANGED <<conf, rd, slots, post, rx, exp, work, ctx, tb, mem, wire, user>>
  BY DEF BTimerIdle
<1>2. qp'["a"] = qp["a"] /\ qp'["b"].st = qp["b"].st /\ qp'["b"].refs = qp["b"].refs
  BY <1>1, ReadFacts DEF Ends, QpRec
<1>3. BOK'
  BY <1>1, <1>2, BKept
<1>4. qp' \in [Ends -> QpRec]
  BY <1>1, ReadFacts, ScheduledQp DEF Ends
<1> QED
  BY <1>1, <1>2, <1>3, <1>4, EnvFacts, BStep

-----------------------------------------------------------------------------
(* The environment, and the destruction of a queue pair.                   *)

\* A frame is lost.
LEMMA LoseStep ==
  ASSUME Inv, NEW w \in Wires, Lose(w)
  PROVE  Inv'
<1>1. /\ wire[w] # <<>> /\ Spend("lose") /\ wire' = [wire EXCEPT ![w] = Tail(@)]
      /\ UNCHANGED <<qp, rd, slots, post, rx, exp, work, ctx, tb, mem, user>>
  BY DEF Lose
<1>2. BOK' /\ qp' \in [Ends -> QpRec]
  BY <1>1, BKept, ReadFacts
<1>3. wire' \in WireSet /\ wire'.req = (IF w = "req" THEN Tail(wire.req) ELSE wire.req)
  BY <1>1, WireFacts
<1>4. \A i \in 1..Len(wire'.req) : wire'.req[i].psn \in DOMAIN conf.len
  <2>1. CASE w = "req"
    <3>1. wire.req # <<>>
      BY <1>1, <2>1
    <3> QED
      BY <1>3, <2>1, <3>1, ReqLeft
  <2>2. CASE w # "req"
    BY <1>3, <2>2, EnvFacts
  <2> QED
    BY <2>1, <2>2
<1> QED
  BY <1>1, <1>2, <1>3, <1>4, SpendFacts, EnvFacts, BStep

\* The application writes the memory that is read.
LEMMA MemWriteStep ==
  ASSUME Inv, MemWrite
  PROVE  Inv'
<1>1. /\ Spend("writes") /\ mem' = mem + 1
      /\ UNCHANGED <<qp, rd, slots, post, rx, exp, work, ctx, tb, wire, user>>
  BY DEF MemWrite
<1>2. AOK' /\ BOK' /\ qp' \in [Ends -> QpRec]
  BY <1>1, AKept, BKept, ReadFacts
<1>3. /\ mem' \in Nat /\ user' \in [Ends -> {"idle", "stop", "flush", "wait"}]
      /\ \A e \in Ends : user'[e] # "idle" => qp'[e].st # "gone"
  BY <1>1 DEF Inv, EnvOK, EnvTypes, GoneOK
<1>4. \A r \in Reads : rd'[r].pos # "none" => rd[r].pos # "none" \/ r \in DOMAIN conf.len
  BY <1>1
<1>5. \A i \in 1..Len(wire'.req) : wire'.req[i].psn \in DOMAIN conf.len
  BY <1>1, EnvFacts
<1> QED
  BY <1>1, <1>2, <1>3, <1>4, <1>5, SpendFacts, EnvFacts, StepOK

\* A step of a destroy, once it is known to keep the accounts of both ends.
LEMMA UserStep ==
  ASSUME Inv, AOK', BOK', qp' \in [Ends -> QpRec], UNCHANGED <<conf, work, mem, wire>>,
         exp'.held \subseteq exp.held,
         NEW e \in Ends, NEW u \in {"idle", "stop", "flush", "wait"}, user' = [user EXCEPT ![e] = u],
         \A x \in Ends : x # e => qp'[x] = qp[x],
         u # "idle" => qp'[e].st # "gone",
         \A r \in Reads : rd'[r].pos # "none" => rd[r].pos # "none"
  PROVE  Inv'
<1>1. user \in [Ends -> {"idle", "stop", "flush", "wait"}] /\ mem \in Nat
  BY DEF Inv, EnvOK, EnvTypes
<1>2. user' \in [Ends -> {"idle", "stop", "flush", "wait"}]
  BY <1>1
<1>3. \A x \in Ends : user'[x] # "idle" => qp'[x].st # "gone"
  BY <1>1 DEF Inv, EnvOK, GoneOK
<1> QED
  BY <1>1, <1>2, <1>3, EnvFacts, StepOK

\* The queue pair is marked, its timeout work stopped.
LEMMA DestroyBeginsStep ==
  ASSUME Inv, NEW e \in Ends, DestroyStart(e) \/ DestroyStop(e) \/ DestroyTimeout(e)
  PROVE  Inv'
<1>1. UNCHANGED <<conf, rd, slots, post, rx, exp, work, ctx, tb, mem, wire>>
  BY DEF DestroyStart, DestroyStop, DestroyTimeout
<1>2. \/ user' = [user EXCEPT ![e] = "stop"] /\ qp[e].st # "gone"
      \/ user' = [user EXCEPT ![e] = "flush"] /\ user[e] = "stop"
      \/ user' = [user EXCEPT ![e] = "idle"]
  BY DEF DestroyStart, DestroyStop, DestroyTimeout
<1>3. \/ qp' = [qp EXCEPT ![e].closing = TRUE] \/ qp' = [qp EXCEPT ![e].tw = FALSE] \/ qp' = qp
  BY DEF DestroyStart, DestroyStop, DestroyTimeout
<1>4. /\ qp' \in [Ends -> QpRec]
      /\ \A x \in Ends : qp'[x].refs = qp[x].refs /\ qp'[x].st = qp[x].st
      /\ \A x \in Ends : x # e => qp'[x] = qp[x]
  <2>1. qp \in [Ends -> QpRec]
    BY ReadFacts
  <2>2. CASE qp' = [qp EXCEPT ![e].closing = TRUE]
    BY <2>1, <2>2 DEF QpRec
  <2>3. CASE qp' = [qp EXCEPT ![e].tw = FALSE]
    BY <2>1, <2>3 DEF QpRec
  <2> QED
    BY <1>3, <2>1, <2>2, <2>3
<1>5. AOK' /\ BOK'
  BY <1>1, <1>4, AKept, BKept DEF Ends
<1>6. user[e] # "idle" => qp[e].st # "gone"
  BY DEF Inv, EnvOK, GoneOK
<1> QED
  BY <1>1, <1>2, <1>4, <1>5, <1>6, UserStep

\* The reads are flushed, or the responses cancelled.
LEMMA DestroyFlushStep ==
  ASSUME Inv, NEW e \in Ends, DestroyFlush(e)
  PROVE  Inv'
<1>1. /\ user[e] = "flush" /\ user' = [user EXCEPT ![e] = "wait"]
      /\ UNCHANGED <<conf, post, rx, exp, work, tb, mem, wire>>
  BY DEF DestroyFlush
<1>2. qp[e].st # "gone"
  BY <1>1 DEF Inv, EnvOK, GoneOK
<1>3. CASE e = "a"
  <2>1. AOK' /\ qp' \in [Ends -> QpRec]
    BY <1>3, DestroyFlushA
  <2> PICK R : R = FlushReads(rd)
    OBVIOUS
  <2>2. rd' = R /\ qp' = QpAfter(R) /\ UNCHANGED ctx
    BY <1>3 DEF DestroyFlush, SetReads
  <2>3. qp'["b"] = qp["b"] /\ qp'["a"].st = qp["a"].st
    BY <2>2, QpAfterFacts
  <2>4. BOK'
    BY <1>1, <2>2, <2>3, BKept
  <2>5. \A q \in Reads : rd'[q].pos # "none" => rd[q].pos # "none"
    BY <2>2, FlushMoves DEF Moves
  <2>6. \A x \in Ends : x # e => qp'[x] = qp[x]
    BY <1>3, <2>3 DEF Ends
  <2> QED
    BY <1>1, <1>2, <1>3, <2>1, <2>3, <2>4, <2>5, <2>6, UserStep
<1>4. CASE e = "b"
  <2>1. BOK' /\ qp' \in [Ends -> QpRec] /\ qp'["a"] = qp["a"]
    BY <1>4, DestroyFlushB
  <2> PICK C : C = TakeAll(ctx)
    OBVIOUS
  <2>2. qp' = QpOf(C) /\ UNCHANGED <<rd, slots>>
    BY <1>4 DEF DestroyFlush
  <2>3. qp'["b"].st = qp["b"].st
    BY <2>2, QpOfFacts
  <2>4. AOK'
    BY <1>1, <2>1, <2>2, AKept
  <2>6. \A x \in Ends : x # e => qp'[x] = qp[x]
    BY <1>4, <2>1 DEF Ends
  <2> QED
    BY <1>1, <1>2, <1>4, <2>1, <2>2, <2>3, <2>4, <2>6, UserStep
<1> QED
  BY <1>3, <1>4 DEF Ends

\* The last reference is gone, and the queue pair.
LEMMA DestroyDoneStep ==
  ASSUME Inv, NEW e \in Ends, DestroyDone(e)
  PROVE  Inv'
<1>1. /\ user' = [user EXCEPT ![e] = "idle"] /\ qp' = [qp EXCEPT ![e].st = "gone", ![e].refs = 0]
      /\ exp' = [exp EXCEPT !.held = IF e = "b" THEN {} ELSE @]
      /\ UNCHANGED <<conf, rd, slots, post, rx, work, ctx, tb, mem, wire>>
  BY DEF DestroyDone
<1>2. \A x \in Ends : x # e => qp'[x] = qp[x]
  BY <1>1, ReadFacts
<1>3. exp'.held \subseteq exp.held /\ (e = "a" => exp' = exp)
  BY <1>1, TbFacts
<1>4. CASE e = "a"
  <2>1. AOK' /\ qp' \in [Ends -> QpRec]
    BY <1>4, DestroyDoneA
  <2>2. BOK'
    BY <1>1, <1>2, <1>3, <1>4, BKept DEF Ends
  <2> QED
    BY <1>1, <1>2, <1>3, <2>1, <2>2, UserStep
<1>5. CASE e = "b"
  <2>1. BOK' /\ qp' \in [Ends -> QpRec] /\ qp'["a"] = qp["a"]
    BY <1>5, DestroyDoneB
  <2>2. AOK'
    BY <1>1, <2>1, AKept
  <2> QED
    BY <1>1, <1>2, <1>3, <2>1, <2>2, UserStep
<1> QED
  BY <1>4, <1>5 DEF Ends

-----------------------------------------------------------------------------
(* The accounts.                                                           *)

\* The invariant holds at the start ...
LEMMA InitInv ==
  ASSUME Init
  PROVE  Inv
<1>0. MaxReads \in Nat /\ MaxFrags \in Nat /\ Depth \in Nat /\ MaxRetries \in Nat
  BY ReadAssumption
<1>1. \A r \in Reads : rd[r] = NoRead /\ ctx[r] = NoCtx /\ work[r] = "none"
  BY DEF Init
<1>2. NoRead \in ReadRec /\ NoCtx \in CtxRec
  <2>1. [k \in 0..(MaxFrags - 1) |-> 0] \in [Ks -> Nat]
    BY DEF Ks
  <2> QED
    BY <1>0, <2>1 DEF NoRead, ReadRec, NoCtx, CtxRec
<1>3. qp \in [Ends -> QpRec] /\ \A e \in Ends : qp[e].st = "rts" /\ qp[e].refs = 1
  BY DEF Init, QpRec
<1>4. \A S \in SUBSET Reads : S = {} => Cardinality(S) = 0
  BY CountFacts
<1>5. EnvOK
  <2>1. conf \in Conf /\ mem \in Nat /\ user = [e \in Ends |-> "idle"]
    BY ConfAssumption DEF Init
  <2>2. wire \in WireSet
    <3>1. \A S : <<>> \in Seq(S)
      OBVIOUS
    <3> QED
      BY <3>1 DEF Init, WireSet
  <2> QED
    BY <1>3, <2>1, <2>2 DEF EnvOK, EnvTypes, GoneOK
<1>6. post = IdlePost /\ rx = IdleRx /\ tb = IdleTb /\ slots = 0 /\ exp = [psn |-> 1, held |-> {}]
  BY DEF Init
<1>7. AOK
  <2>1. ATypes
    <3>1. rd \in [Reads -> ReadRec]
      BY <1>2 DEF Init
    <3> QED
      BY <1>0, <1>6, <3>1 DEF ATypes, IdlePost, IdleRx
  <2>2. PostOK
    <3>1. \A r \in Reads : rd[r].pos # "none" <=> r <= 0
      BY <1>1 DEF NoRead, Reads
    <3>2. 0 \in 0..MaxReads
      BY <1>0
    <3> QED
      BY <1>1, <1>6, <3>1, <3>2 DEF PostOK, IdlePost, NoRead
  <2>3. SlotOK
    BY <1>1 DEF SlotOK, NoRead
  <2>4. SlotsExact
    <3>1. {r \in Reads : rd[r].pos \in {"post", "list"}} = {}
      BY <1>1 DEF NoRead
    <3> QED
      BY <1>4, <1>6, <3>1 DEF SlotsExact
  <2>5. ARefs
    <3>1. Live = {}
      BY <1>1 DEF Live, NoRead
    <3>2. \A r \in Reads : rd[r].refs = ReadHolders(r)
      BY <1>1, <1>6 DEF ReadHolders, B, NoRead, IdlePost, IdleRx
    <3>3. qp["a"].refs = 1 /\ B(qp["a"].st # "gone") = 1 /\ B(rx.pc = "handle") = 0
      BY <1>3, <1>6 DEF B, IdleRx, Ends
    <3> QED
      BY <1>4, <3>1, <3>2, <3>3 DEF ARefs
  <2> QED
    BY <2>1, <2>2, <2>3, <2>4, <2>5 DEF AOK
<1>8. BOK
  <2>1. BTypes
    <3>1. ctx \in [Reads -> CtxRec] /\ work \in [Reads -> WorkStates]
      BY <1>2 DEF Init, WorkStates
    <3>2. exp \in [psn : 1..(MaxReads + 1), held : SUBSET Reads]
      BY <1>0, <1>6
    <3> QED
      BY <1>0, <1>6, <3>1, <3>2 DEF BTypes, IdleTb
  <2>2. TimerOK
    BY <1>1, <1>6 DEF TimerOK, IdleTb, NoCtx
  <2>3. TurnOK
    BY <1>1 DEF TurnOK
  <2>4. BRefs
    <3>1. Answering = {} /\ Working = {}
      BY <1>1 DEF Answering, Working, NoCtx
    <3>2. \A p \in Reads : ctx[p].refs = CtxHolders(p)
      BY <1>1, <1>6 DEF CtxHolders, B, NoCtx, IdleTb
    <3>3. qp["b"].refs = 1 /\ B(qp["b"].st # "gone") = 1
      BY <1>3 DEF B, Ends
    <3> QED
      BY <1>4, <3>1, <3>2, <3>3 DEF BRefs
  <2> QED
    BY <2>1, <2>2, <2>3, <2>4 DEF BOK
<1>9. LenOK
  <2>1. wire.req = <<>>
    BY DEF Init
  <2> QED
    BY <1>1, <1>6, <2>1 DEF LenOK, NoRead
<1> QED
  BY <1>5, <1>7, <1>8, <1>9 DEF Inv

\* ... every step keeps it, when no post is refused too late ...
LEMMA NextInv ==
  ASSUME Inv, [Next /\ (PostRefused => rd[post.r].pos = "list")]_vars
  PROVE  Inv'
<1>1. CASE PostReserve
  BY <1>1, PostReserveStep
<1>2. CASE Posting /\ (PostRefused => rd[post.r].pos = "list")
  BY <1>2, PostNoPathStep, PostQueueStep, PostSendStep, PostRefusedStep DEF Posting
<1>3. CASE Responses
  BY <1>3, RespHandleStep, RespArriveStep DEF Responses
<1>4. CASE TimeoutA
  BY <1>4, TimeoutReapStep, TimeoutIdleStep, TimeoutErrorStep, TimeoutCompleteStep DEF TimeoutA
<1>5. CASE ReqArrive
  BY <1>5, ReqArriveStep
<1>6. CASE AckArrive
  BY <1>6, AckArriveStep
<1>7. CASE TimeoutB
  BY <1>7, BTimerReapStep, BTimerSendStep, BTimerNoteStep, BTimerEndStep, BTimerIdleStep DEF TimeoutB
<1>8. ASSUME NEW r \in Reads, Transmit(r) \/ TxDone(r) \/ TxFails(r) PROVE Inv'
  BY <1>8, TransmitStep, TxDoneStep, TxFailsStep
<1>9. ASSUME NEW p \in Reads, Work(p) PROVE Inv'
  BY <1>9, WorkStatusStep, WorkSnapshotStep, WorkQueueStep, WorkSendStep, WorkNoteStep DEF Work
<1>10. CASE MemWrite
  BY <1>10, MemWriteStep
<1>11. ASSUME NEW w \in Wires, Lose(w) PROVE Inv'
  BY <1>11, LoseStep
<1>12. ASSUME NEW e \in Ends, Destroy(e) PROVE Inv'
  BY <1>12, DestroyBeginsStep, DestroyFlushStep, DestroyDoneStep DEF Destroy
<1>13. CASE UNCHANGED vars
  <2>1. UNCHANGED <<conf, qp, rd, slots, post, rx, exp, work, ctx, tb, mem, wire, user>>
    BY <1>13 DEF vars
  <2>2. AOK' /\ BOK' /\ qp' \in [Ends -> QpRec]
    BY <2>1, AKept, BKept, ReadFacts
  <2> QED
    BY <2>1, <2>2, EnvFacts, AStep
<1> QED
  BY <1>1, <1>2, <1>3, <1>4, <1>5, <1>6, <1>7, <1>8, <1>9, <1>10, <1>11, <1>12, <1>13 DEF Next, Progress

\* ... and it says what the run checks.
LEMMA InvAccounts ==
  ASSUME Inv
  PROVE  AccountsExact
<1>1. TypeOK
  <2>1. \A r \in Reads : rd[r] \in ReadRec /\ ctx[r] \in CtxRec /\ work[r] \in WorkStates
    BY ReadFacts, CtxFacts
  <2>2. conf \in Conf /\ qp \in [Ends -> QpRec] /\ slots \in 0..Depth
    BY DEF Inv, EnvOK, EnvTypes, AOK, ATypes
  <2>3. exp.psn \in 1..(MaxReads + 1) /\ exp.held \subseteq Reads
    BY TbFacts
  <2> QED
    BY <2>1, <2>2, <2>3 DEF TypeOK, ReadRec, CtxRec, WorkStates, QpRec
<1>2. RefsExact
  BY DEF Inv, AOK, ARefs, BOK, BRefs, RefsExact, Live, Answering, Working
<1> QED
  BY <1>1, <1>2 DEF AccountsExact, Inv, AOK

\* sendq_count is the number of pending reads and every reference on a read, a
\* response or a queue pair has its holder, whoever completes, reaps, flushes,
\* retries or destroys and whatever is lost, as long as the path refuses no post
\* after a flush has taken its read.
THEOREM AccountsExactThm == Spec /\ RefusedInTime => []AccountsExact
<1>1. Init => Inv
  BY InitInv
<1>2. Inv /\ [Next]_vars /\ [PostRefused => rd[post.r].pos = "list"]_vars => Inv'
  BY NextInv
<1>3. Inv => AccountsExact
  BY InvAccounts
<1> QED
  BY <1>1, <1>2, <1>3, PTL DEF Spec, RefusedInTime
-----------------------------------------------------------------------------
(* What a read returns.                                                    *)

\* A fragment is of the snapshot of its response, a status frame that reports
\* success answers an empty read.
Snapped(r, k, v) == v = ctx[r].ver /\ v > 0 /\ k < conf.len[r]
DataOK(f) == Snapped(f.psn, f.k, f.ver)
StatOK(f) == f.ok = TRUE => conf.len[f.psn] = 0

\* Nothing happens to a read before it is posted.
UnpostedOK ==
  \A r \in Reads : rd[r].pos = "none" =>
    work[r] = "none" /\ r \notin exp.held /\ rd[r].res = "none" /\ rd[r].status = "none" /\ rd[r].got = 0
ReqOK == \A i \in 1..Len(wire.req) : rd[wire.req[i].psn].pos # "none"
\* A response has a snapshot, taken by its work after the post.
VerOK ==
  /\ mem > 0
  /\ \A p \in Reads : ctx[p].ver > 0 =>
       work[p] \notin {"none", "queued"} /\ rd[p].since <= ctx[p].ver /\ ctx[p].ver <= mem
  /\ \A p \in Reads : ctx[p].refs > 0 => ctx[p].ver > 0
  /\ \A p \in Reads : rd[p].since <= mem
FramesOK ==
  /\ \A i \in 1..Len(wire.data) : DataOK(wire.data[i])
  /\ \A i \in 1..Len(wire.stat) : StatOK(wire.stat[i])
  /\ rx.pc = "handle" => (rx.f \in DataFrame => DataOK(rx.f)) /\ (rx.f \in StatFrame => StatOK(rx.f))
CopiesOK ==
  \A r \in Reads : \A k \in Ks : k < rd[r].got \/ k \in rd[r].buf => Snapped(r, k, rd[r].data[k])
\* A read is ready with a status, off the list with a result, and succeeds with
\* all its fragments.
ResultOK ==
  \A r \in Reads : /\ rd[r].ready = TRUE => rd[r].status # "none"
                   /\ rd[r].pos = "off" => rd[r].res # "none"
                   /\ rd[r].status = "ok" \/ rd[r].res = "ok" => rd[r].got = conf.len[r]

ReturnOK == UnpostedOK /\ ReqOK /\ VerOK /\ FramesOK /\ CopiesOK /\ ResultOK /\ OkInOrder

\* A read goes on to d without new data and without success.
Goes(c, d) ==
  /\ d.got = c.got /\ d.buf = c.buf /\ d.data = c.data /\ d.since = c.since
  /\ d.ready = c.ready /\ d.status = c.status
  /\ d.pos = "none" <=> c.pos = "none"
  /\ d.res = c.res \/ (d.res \notin {"ok", "none"} /\ d.pos # "none")
  /\ d.pos = "off" => c.pos = "off" \/ d.res # "none"
  /\ c.pos = "reap" => d.pos = "reap" \/ d.res # "none"

\* A read that stays goes on.
LEMMA SameGoes == \A c : Goes(c, c)
BY DEF Goes

\* A step in which reads go on, snapshots stay and the frames that are under way
\* afterwards are true.
LEMMA ReturnKept ==
  ASSUME Inv, ReturnOK, conf'.len = conf.len, mem' \in Nat, mem <= mem',
         \A r \in Reads : Goes(rd[r], rd'[r]),
         \A p \in Reads : ctx'[p].ver = ctx[p].ver /\ (ctx'[p].refs > 0 => ctx[p].refs > 0),
         \A p \in Reads : ctx[p].ver > 0 => work'[p] \notin {"none", "queued"},
         \A p \in Reads : rd[p].pos = "none" => work'[p] = "none" /\ p \notin exp'.held,
         wire' \in WireSet, \A i \in 1..Len(wire'.req) : rd[wire'.req[i].psn].pos # "none",
         \A i \in 1..Len(wire'.data) : DataOK(wire'.data[i]),
         \A i \in 1..Len(wire'.stat) : StatOK(wire'.stat[i]),
         rx'.pc = "handle" => /\ rx'.f \in DataFrame => DataOK(rx'.f)
                              /\ rx'.f \in StatFrame => StatOK(rx'.f)
  PROVE  ReturnOK'
<1>0. mem \in Nat /\ MaxReads \in Nat /\ MaxFrags \in Nat
  BY CountFacts DEF Inv, EnvOK, EnvTypes
<1>1. UnpostedOK'
  BY DEF ReturnOK, UnpostedOK, Goes
<1>2. ReqOK'
  <2>1. \A i \in 1..Len(wire'.req) : wire'.req[i].psn \in Reads
    <3>1. wire'.req \in Seq(ReqFrame)
      BY DEF WireSet
    <3>2. \A i \in 1..Len(wire'.req) : wire'.req[i] \in ReqFrame
      BY <3>1
    <3> QED
      BY <3>2 DEF ReqFrame
  <2> QED
    BY <2>1 DEF ReqOK, Goes
<1>3. VerOK'
  <2>1. ASSUME NEW p \in Reads, ctx'[p].ver > 0
        PROVE  work'[p] \notin {"none", "queued"} /\ rd'[p].since <= ctx'[p].ver /\ ctx'[p].ver <= mem'
    <3>1. ctx[p].ver > 0 /\ rd[p].since <= ctx[p].ver /\ ctx[p].ver <= mem
      BY <2>1 DEF ReturnOK, VerOK
    <3>2. rd'[p].since = rd[p].since /\ ctx'[p].ver = ctx[p].ver /\ ctx[p].ver \in Nat
      BY CtxFacts DEF Goes, CtxRec
    <3>3. ctx[p].ver <= mem'
      BY <1>0, <3>1, <3>2
    <3> QED
      BY <3>1, <3>2, <3>3
  <2>2. mem' > 0
    BY <1>0 DEF ReturnOK, VerOK
  <2>3. \A p \in Reads : ctx'[p].refs > 0 => ctx'[p].ver > 0
    BY DEF ReturnOK, VerOK
  <2>4. \A p \in Reads : rd'[p].since <= mem'
    <3>1. \A p \in Reads : rd'[p].since = rd[p].since /\ rd[p].since \in Nat /\ rd[p].since <= mem
      BY ReadFacts DEF Goes, ReadRec, ReturnOK, VerOK
    <3> QED
      BY <1>0, <3>1
  <2> QED
    BY <2>1, <2>2, <2>3, <2>4 DEF VerOK
<1>4. FramesOK'
  <2>1. \A f \in DataFrame : DataOK(f) => f.ver = ctx'[f.psn].ver /\ f.ver > 0 /\ f.k < conf'.len[f.psn]
    BY DEF DataOK, Snapped, DataFrame
  <2>2. \A f \in StatFrame : StatOK(f) => (f.ok = TRUE => conf'.len[f.psn] = 0)
    BY DEF StatOK
  <2>3. /\ \A i \in 1..Len(wire'.data) : wire'.data[i] \in DataFrame
        /\ \A i \in 1..Len(wire'.stat) : wire'.stat[i] \in StatFrame
    <3>1. wire'.data \in Seq(DataFrame) /\ wire'.stat \in Seq(StatFrame)
      BY DEF WireSet
    <3> QED
      BY <3>1
  <2> QED
    BY <2>1, <2>2, <2>3 DEF FramesOK, DataOK, StatOK, Snapped
<1>5. CopiesOK'
  BY DEF ReturnOK, CopiesOK, Snapped, Goes
<1>6. ResultOK'
  BY DEF ReturnOK, ResultOK, Goes
<1>7. OkInOrder'
  BY DEF ReturnOK, OkInOrder, Goes
<1> QED
  BY <1>1, <1>2, <1>3, <1>4, <1>5, <1>6, <1>7 DEF ReturnOK

\* A step of the requester that adds no frame.
LEMMA ReturnKeptA ==
  ASSUME Inv, ReturnOK, conf'.len = conf.len, UNCHANGED <<mem, exp, work, ctx, rx, wire>>,
         \A r \in Reads : Goes(rd[r], rd'[r])
  PROVE  ReturnOK'
<1>1. wire' \in WireSet /\ mem' \in Nat /\ mem <= mem'
  BY DEF Inv, EnvOK, EnvTypes
<1>2. /\ \A p \in Reads : ctx[p].ver > 0 => work'[p] \notin {"none", "queued"}
      /\ \A p \in Reads : rd[p].pos = "none" => work'[p] = "none" /\ p \notin exp'.held
      /\ \A i \in 1..Len(wire'.req) : rd[wire'.req[i].psn].pos # "none"
      /\ \A i \in 1..Len(wire'.data) : DataOK(wire'.data[i])
      /\ \A i \in 1..Len(wire'.stat) : StatOK(wire'.stat[i])
      /\ rx'.pc = "handle" => /\ rx'.f \in DataFrame => DataOK(rx'.f)
                              /\ rx'.f \in StatFrame => StatOK(rx'.f)
  BY DEF ReturnOK, VerOK, UnpostedOK, ReqOK, FramesOK
<1> QED
  BY <1>1, <1>2, ReturnKept

\* A step of the responder that adds no request.
LEMMA ReturnKeptB ==
  ASSUME Inv, ReturnOK, conf'.len = conf.len, UNCHANGED <<mem, rd, rx>>,
         \A p \in Reads : ctx'[p].ver = ctx[p].ver /\ (ctx'[p].refs > 0 => ctx[p].refs > 0),
         \A p \in Reads : work'[p] = work[p] \/ work'[p] \notin {"none", "queued"},
         \A p \in Reads : work[p] = "none" => work'[p] = "none",
         exp'.held \subseteq exp.held, wire' \in WireSet, wire'.req = wire.req,
         \A i \in 1..Len(wire'.data) : DataOK(wire'.data[i]),
         \A i \in 1..Len(wire'.stat) : StatOK(wire'.stat[i])
  PROVE  ReturnOK'
<1>1. mem' \in Nat /\ mem <= mem'
  BY DEF Inv, EnvOK, EnvTypes
<1>2. /\ \A p \in Reads : ctx[p].ver > 0 => work'[p] \notin {"none", "queued"}
      /\ \A p \in Reads : rd[p].pos = "none" => work'[p] = "none" /\ p \notin exp'.held
      /\ \A i \in 1..Len(wire'.req) : rd[wire'.req[i].psn].pos # "none"
      /\ rx'.pc = "handle" => /\ rx'.f \in DataFrame => DataOK(rx'.f)
                              /\ rx'.f \in StatFrame => StatOK(rx'.f)
  BY DEF ReturnOK, VerOK, UnpostedOK, ReqOK, FramesOK
<1>3. \A r \in Reads : Goes(rd[r], rd'[r])
  BY SameGoes
<1> QED
  BY <1>1, <1>2, <1>3, ReturnKept

\* One read goes on.
LEMMA OneGoes ==
  ASSUME Inv, ReturnOK, conf'.len = conf.len, UNCHANGED <<mem, exp, work, ctx, rx, wire>>,
         NEW r \in Reads, NEW d, rd' = [rd EXCEPT ![r] = d], Goes(rd[r], d)
  PROVE  ReturnOK'
<1>1. \A q \in Reads : Goes(rd[q], rd'[q])
  BY SameGoes, ReadFacts
<1> QED
  BY <1>1, ReturnKeptA

\* A post that finds no path.
LEMMA PostNoPathR ==
  ASSUME Inv, ReturnOK, PostNoPath
  PROVE  ReturnOK'
<1> PICK r : r = post.r
  OBVIOUS
<1> PICK c : c = rd[r]
  OBVIOUS
<1> PICK e : e = [c EXCEPT !.pos = "off", !.slot = FALSE, !.res = "rejected"]
  OBVIOUS
<1> PICK d : d = PutRead(e)
  OBVIOUS
<1>1. /\ rd' = [rd EXCEPT ![r] = d] /\ Spend("fails") /\ post.pc = "queue"
      /\ UNCHANGED <<mem, exp, work, ctx, rx, wire>>
  BY DEF PostNoPath, SetReads
<1>2. r \in Reads /\ c.pos = "post"
  BY <1>1 DEF Inv, AOK, PostOK
<1>3. c \in ReadRec /\ c.refs > 0
  BY <1>2, HolderFacts DEF InHands
<1>4. /\ e \in ReadRec /\ e.refs = c.refs /\ e.pos = "off" /\ e.res = "rejected" /\ e.ready = c.ready
      /\ e.status = c.status /\ e.got = c.got /\ e.buf = c.buf /\ e.data = c.data /\ e.since = c.since
  BY ONLY <1>3, e = [c EXCEPT !.pos = "off", !.slot = FALSE, !.res = "rejected"] DEF ReadRec
<1>5. Goes(c, d)
  <2>1. /\ d.pos = e.pos /\ d.ready = e.ready /\ d.status = e.status /\ d.res = e.res /\ d.got = e.got
        /\ d.buf = e.buf /\ d.data = e.data /\ d.since = e.since
    BY <1>3, <1>4, PutFacts
  <2> QED
    BY ONLY <1>2, <1>4, <2>1 DEF Goes
<1> QED
  BY <1>1, <1>2, <1>5, SpendFacts, OneGoes

\* The read is listed.
LEMMA PostQueueR ==
  ASSUME Inv, ReturnOK, PostQueue
  PROVE  ReturnOK'
<1> PICK r : r = post.r
  OBVIOUS
<1> PICK c : c = rd[r]
  OBVIOUS
<1> PICK d : d = [c EXCEPT !.pos = "list", !.refs = @ + 1]
  OBVIOUS
<1>1. post.pc = "queue" /\ UNCHANGED <<conf, mem, exp, work, ctx, rx, wire>>
  BY DEF PostQueue
<1>2. r \in Reads /\ c.pos = "post"
  BY <1>1 DEF Inv, AOK, PostOK
<1>3. rd \in [Reads -> ReadRec] /\ c \in ReadRec
  BY <1>2, ReadFacts
<1>4. rd' = [rd EXCEPT ![r] = d]
  BY <1>2, <1>3 DEF PostQueue
<1>5. Goes(c, d)
  BY ONLY <1>2, <1>3, d = [c EXCEPT !.pos = "list", !.refs = @ + 1] DEF Goes, ReadRec
<1> QED
  BY <1>1, <1>2, <1>4, <1>5, OneGoes

\* The path accepts the request.
LEMMA PostSendR ==
  ASSUME Inv, ReturnOK, PostSend
  PROVE  ReturnOK'
<1> PICK r : r = post.r
  OBVIOUS
<1> PICK c : c = rd[r]
  OBVIOUS
<1> PICK d : d = [c EXCEPT !.tx = "queued"]
  OBVIOUS
<1>1. post.pc = "send" /\ UNCHANGED <<conf, mem, exp, work, ctx, rx, wire>>
  BY DEF PostSend
<1>2. r \in Reads
  BY <1>1 DEF Inv, AOK, PostOK
<1>3. rd \in [Reads -> ReadRec] /\ c \in ReadRec
  BY <1>2, ReadFacts
<1>4. rd' = [rd EXCEPT ![r] = d]
  BY <1>2, <1>3 DEF PostSend
<1>5. Goes(c, d)
  BY ONLY <1>3, d = [c EXCEPT !.tx = "queued"] DEF Goes, ReadRec
<1> QED
  BY <1>1, <1>2, <1>4, <1>5, OneGoes

\* The path refuses the request.
LEMMA PostRefusedR ==
  ASSUME Inv, ReturnOK, PostRefused, rd[post.r].pos = "list"
  PROVE  ReturnOK'
<1> PICK r : r = post.r
  OBVIOUS
<1> PICK c : c = rd[r]
  OBVIOUS
<1> PICK e : e = [c EXCEPT !.pos = "off", !.slot = FALSE, !.refs = @ - 2]
  OBVIOUS
<1> PICK d : d = Complete(e, "rejected")
  OBVIOUS
<1>1. /\ rd' = [rd EXCEPT ![r] = d] /\ Spend("fails") /\ post.pc = "send"
      /\ UNCHANGED <<mem, exp, work, ctx, rx, wire>>
  BY DEF PostRefused, SetReads
<1>2. r \in Reads /\ c.pos = "list"
  BY <1>1 DEF Inv, AOK, PostOK
<1>3. c \in ReadRec
  BY <1>2, ReadFacts
<1>5. Goes(c, d)
  <2>1. /\ e.pos = "off" /\ e.res = c.res /\ e.ready = c.ready /\ e.status = c.status
        /\ e.got = c.got /\ e.buf = c.buf /\ e.data = c.data /\ e.since = c.since
        /\ DOMAIN e = DOMAIN c
    BY ONLY <1>3, e = [c EXCEPT !.pos = "off", !.slot = FALSE, !.refs = @ - 2] DEF ReadRec
  <2>2. d = [e EXCEPT !.res = IF @ = "none" THEN "rejected" ELSE @] /\ DOMAIN c = DOMAIN NoRead
    BY <1>3 DEF Complete, ReadRec, NoRead
  <2>3. /\ d.pos = "off" /\ d.ready = c.ready /\ d.status = c.status
        /\ d.got = c.got /\ d.buf = c.buf /\ d.data = c.data /\ d.since = c.since
        /\ d.res = IF c.res = "none" THEN "rejected" ELSE c.res
    BY ONLY <2>1, <2>2 DEF NoRead
  <2> QED
    BY ONLY <1>2, <2>3 DEF Goes
<1> QED
  BY <1>1, <1>2, <1>5, SpendFacts, OneGoes

\* The transmission of a request ends ...
LEMMA TxDoneR ==
  ASSUME Inv, ReturnOK, NEW r \in Reads, TxDone(r)
  PROVE  ReturnOK'
<1> PICK c : c = rd[r]
  OBVIOUS
<1> PICK a : a = (c.armed \/ c.pos = "list")
  OBVIOUS
<1> PICK e : e = [c EXCEPT !.tx = "none", !.armed = a]
  OBVIOUS
<1> PICK d : d = PutRead(e)
  OBVIOUS
<1>1. /\ rd' = [rd EXCEPT ![r] = d] /\ c.tx = "sent" /\ UNCHANGED <<conf, mem, exp, work, ctx, rx, wire>>
  BY DEF TxDone, SetReads
<1>2. c \in ReadRec /\ c.refs > 0
  BY <1>1, HolderFacts
<1>3. a \in BOOLEAN
  BY <1>2 DEF ReadRec
<1>4. /\ e \in ReadRec /\ e.refs = c.refs /\ e.pos = c.pos /\ e.res = c.res /\ e.ready = c.ready
      /\ e.status = c.status /\ e.got = c.got /\ e.buf = c.buf /\ e.data = c.data /\ e.since = c.since
  BY ONLY <1>2, <1>3, e = [c EXCEPT !.tx = "none", !.armed = a] DEF ReadRec
<1>5. Goes(c, d)
  <2>1. /\ d.pos = e.pos /\ d.ready = e.ready /\ d.status = e.status /\ d.res = e.res /\ d.got = e.got
        /\ d.buf = e.buf /\ d.data = e.data /\ d.since = e.since
    BY <1>2, <1>4, PutFacts
  <2> QED
    BY ONLY <1>4, <2>1 DEF Goes
<1> QED
  BY <1>1, <1>5, OneGoes

\* ... or fails.
LEMMA TxFailsR ==
  ASSUME Inv, ReturnOK, NEW r \in Reads, TxFails(r)
  PROVE  ReturnOK'
<1> PICK c : c = rd[r]
  OBVIOUS
<1> PICK e : e = [c EXCEPT !.tx = "none"]
  OBVIOUS
<1> PICK p : p = PutRead(e)
  OBVIOUS
<1> PICK d : d = IF p.pos = "list" THEN Done(p, "error") ELSE p
  OBVIOUS
<1>1. /\ rd' = [rd EXCEPT ![r] = d] /\ c.tx = "queued" /\ Spend("fails")
      /\ UNCHANGED <<mem, exp, work, ctx, rx, wire>>
  BY DEF TxFails, SetReads, Done
<1>2. c \in ReadRec /\ c.refs > 0 /\ (c.pos = "list" => c.refs > 1)
  BY <1>1, HolderFacts DEF InHands
<1>4. /\ e \in ReadRec /\ e.refs = c.refs /\ e.pos = c.pos /\ e.res = c.res /\ e.ready = c.ready
      /\ e.status = c.status /\ e.got = c.got /\ e.buf = c.buf /\ e.data = c.data /\ e.since = c.since
  BY ONLY <1>2, e = [c EXCEPT !.tx = "none"] DEF ReadRec
<1>5. /\ p \in ReadRec /\ p.refs = c.refs - 1 /\ p.pos = c.pos /\ p.ready = c.ready /\ p.status = c.status
      /\ p.res = c.res /\ p.got = c.got /\ p.buf = c.buf /\ p.data = c.data /\ p.since = c.since
  <2>1. /\ p \in ReadRec /\ p.refs = e.refs - 1 /\ p.pos = e.pos /\ p.ready = e.ready /\ p.status = e.status
        /\ p.res = e.res /\ p.got = e.got /\ p.buf = e.buf /\ p.data = e.data /\ p.since = e.since
    BY ONLY <1>2, <1>4, p = PutRead(e), PutFacts
  <2> QED
    BY ONLY <1>4, <2>1
<1>6. Goes(c, d)
  <2>1. CASE p.pos = "list"
    <3>1. p.refs > 0
      BY <1>2, <1>5, <2>1 DEF ReadRec
    <3>2. /\ d.pos = "off" /\ d.ready = p.ready /\ d.status = p.status
          /\ d.res = (IF p.res = "none" THEN "error" ELSE p.res) /\ d.got = p.got
          /\ d.buf = p.buf /\ d.data = p.data /\ d.since = p.since
      <4>1. d = Done(p, "error")
        BY <2>1
      <4> QED
        BY ONLY <1>5, <3>1, <4>1, DoneFacts
    <3> QED
      BY ONLY <1>5, <2>1, <3>2 DEF Goes
  <2>2. CASE p.pos # "list"
    <3>1. d = p
      BY <2>2
    <3> QED
      BY ONLY <1>5, <3>1 DEF Goes
  <2> QED
    BY <2>1, <2>2
<1> QED
  BY <1>1, <1>6, SpendFacts, OneGoes

\* A flush and the timeout work end the reads they take.
LEMMA EndGoes ==
  ASSUME Inv, NEW r \in Reads, rd[r].pos \in {"list", "reap"}, NEW res \in {"timeout", "flush"}
  PROVE  Goes(rd[r], Ended(rd[r], res))
<1> PICK c : c = rd[r]
  OBVIOUS
<1> PICK d : d = Ended(c, res)
  OBVIOUS
<1>1. c \in ReadRec /\ c.refs > 0 /\ (c.tx = "queued" => c.refs > 1)
  BY HolderFacts DEF InHands
<1>2. /\ d.pos = "off" /\ d.ready = c.ready /\ d.status = c.status
      /\ d.res = (IF c.res = "none" THEN res ELSE c.res) /\ d.got = c.got
      /\ d.buf = c.buf /\ d.data = c.data /\ d.since = c.since
  <2>1. res \in {"ok", "error", "timeout", "flush"}
    OBVIOUS
  <2> QED
    BY ONLY <1>1, <2>1, d = Ended(c, res), EndedFacts
<1>3. c.pos \in {"list", "reap"} /\ res \in {"timeout", "flush"}
  OBVIOUS
<1>4. Goes(c, d)
  BY ONLY <1>2, <1>3 DEF Goes
<1> QED
  BY <1>4

\* The flush of the pending reads.
LEMMA FlushGoes ==
  ASSUME Inv
  PROVE  \A r \in Reads : Goes(rd[r], FlushReads(rd)[r])
<1> SUFFICES ASSUME NEW r \in Reads PROVE Goes(rd[r], FlushReads(rd)[r])
  OBVIOUS
<1>1. FlushReads(rd)[r] = IF rd[r].pos = "list" THEN Ended(rd[r], "flush") ELSE rd[r]
  BY DEF FlushReads, Ended
<1> QED
  BY <1>1, EndGoes, SameGoes

\* The timeout work takes the reads that have expired ...
LEMMA TimeoutReapR ==
  ASSUME Inv, ReturnOK, TimeoutReap
  PROVE  ReturnOK'
<1> PICK S \in SUBSET Waiting : (UNCHANGED conf \/ Spend("slow")) /\ SetReads(Reap(S))
  BY DEF TimeoutReap
<1>1. UNCHANGED <<mem, exp, work, ctx, rx, wire>>
  BY DEF TimeoutReap
<1>2. conf'.len = conf.len
  BY SpendFacts
<1>3. ASSUME NEW q \in Reads PROVE Goes(rd[q], rd'[q])
  <2>1. rd'[q] = IF q \in S THEN [rd[q] EXCEPT !.pos = "reap", !.slot = FALSE] ELSE rd[q]
    BY DEF SetReads, Reap
  <2>2. CASE q \in S
    <3> PICK c : c = rd[q]
      OBVIOUS
    <3> PICK d : d = rd'[q]
      OBVIOUS
    <3>1. c \in ReadRec /\ c.pos = "list" /\ d = [c EXCEPT !.pos = "reap", !.slot = FALSE]
      BY <2>1, <2>2, ReadFacts DEF Waiting
    <3>2. Goes(c, d)
      BY ONLY <3>1 DEF Goes, ReadRec
    <3> QED
      BY <3>2
  <2> QED
    BY <2>1, <2>2, SameGoes
<1> QED
  BY <1>1, <1>2, <1>3, ReturnKeptA

\* ... fails the queue pair ...
LEMMA TimeoutErrorR ==
  ASSUME Inv, ReturnOK, TimeoutError
  PROVE  ReturnOK'
<1>1. UNCHANGED <<conf, mem, exp, work, ctx, rx, wire>> /\ (UNCHANGED rd \/ rd' = FlushReads(rd))
  BY DEF TimeoutError, SetReads
<1>2. \A q \in Reads : Goes(rd[q], rd'[q])
  BY <1>1, FlushGoes, SameGoes
<1> QED
  BY <1>1, <1>2, ReturnKeptA

\* ... and completes them.
LEMMA TimeoutCompleteR ==
  ASSUME Inv, ReturnOK, TimeoutComplete
  PROVE  ReturnOK'
<1>1. UNCHANGED <<conf, mem, exp, work, ctx, rx, wire>>
  BY DEF TimeoutComplete
<1>2. ASSUME NEW r \in Reads PROVE Goes(rd[r], rd'[r])
  <2>1. CASE rd[r].pos = "reap"
    <3> PICK c : c = rd[r]
      OBVIOUS
    <3>1. rd'[r] = PutRead(Complete(CancelTx([c EXCEPT !.pos = "off"]), "timeout"))
      BY <2>1 DEF TimeoutComplete, SetReads
    <3>2. c \in ReadRec /\ c.slot = FALSE
      BY <2>1, ReadFacts DEF Inv, AOK, SlotOK, ReadRec
    <3>3. [c EXCEPT !.pos = "off"] = [c EXCEPT !.pos = "off", !.slot = FALSE]
      BY ONLY <3>2 DEF ReadRec
    <3>4. rd'[r] = Ended(c, "timeout")
      BY <3>1, <3>3 DEF Ended
    <3> QED
      BY <2>1, <3>4, EndGoes
  <2>2. CASE rd[r].pos # "reap"
    <3>1. rd'[r] = rd[r]
      BY <2>2 DEF TimeoutComplete, SetReads
    <3> QED
      BY <3>1, SameGoes
  <2> QED
    BY <2>1, <2>2
<1> QED
  BY <1>1, <1>2, ReturnKeptA

\* Frames that are taken from a queue, or added to it.
LEMMA QueueFacts ==
  /\ \A S, T : \A s \in Seq(S) : s # <<>> /\ (\A i \in 1..Len(s) : s[i] \in T) =>
       Head(s) \in T /\ \A i \in 1..Len(Tail(s)) : Tail(s)[i] \in T
  /\ \A S, T : \A s \in Seq(S), x \in S : (\A i \in 1..Len(s) : s[i] \in T) /\ x \in T =>
       \A i \in 1..Len(Append(s, x)) : Append(s, x)[i] \in T
  /\ \A S, T : \A s, t \in Seq(S) :
       (\A i \in 1..Len(s) : s[i] \in T) /\ (\A i \in 1..Len(t) : t[i] \in T) =>
       \A i \in 1..Len(s \o t) : (s \o t)[i] \in T
<1>1. ASSUME NEW S, NEW T, NEW s \in Seq(S), s # <<>>, \A i \in 1..Len(s) : s[i] \in T
      PROVE  Head(s) \in T /\ \A i \in 1..Len(Tail(s)) : Tail(s)[i] \in T
  <2>1. Head(s) = s[1] /\ 1 \in 1..Len(s)
    BY <1>1
  <2>2. \A i \in 1..Len(Tail(s)) : i + 1 \in 1..Len(s) /\ Tail(s)[i] = s[i + 1]
    BY <1>1
  <2> QED
    BY <1>1, <2>1, <2>2
<1>2. ASSUME NEW S, NEW T, NEW s \in Seq(S), NEW x \in S, \A i \in 1..Len(s) : s[i] \in T, x \in T
      PROVE  \A i \in 1..Len(Append(s, x)) : Append(s, x)[i] \in T
  <2>1. \A i \in 1..Len(Append(s, x)) : Append(s, x)[i] = IF i \in 1..Len(s) THEN s[i] ELSE x
    BY AppendProperties
  <2> QED
    BY <1>2, <2>1
<1>3. ASSUME NEW S, NEW T, NEW s \in Seq(S), NEW t \in Seq(S),
             \A i \in 1..Len(s) : s[i] \in T, \A i \in 1..Len(t) : t[i] \in T
      PROVE  \A i \in 1..Len(s \o t) : (s \o t)[i] \in T
  <2>1. Len(s \o t) = Len(s) + Len(t) /\ Len(s) \in Nat /\ Len(t) \in Nat
    BY LenProperties, ConcatProperties
  <2>2. \A i \in 1..Len(s \o t) : (s \o t)[i] = IF i <= Len(s) THEN s[i] ELSE t[i - Len(s)]
    BY ConcatProperties
  <2>3. \A i \in 1..Len(s \o t) : i \in 1..Len(s) \/ (~(i <= Len(s)) /\ i - Len(s) \in 1..Len(t))
    BY <2>1
  <2> QED
    BY <1>3, <2>1, <2>2, <2>3
<1> QED
  BY <1>1, <1>2, <1>3

\* What is true of the frames under way.
LEMMA TrueFrames ==
  ASSUME Inv, ReturnOK
  PROVE  /\ wire.data \in Seq(DataFrame) /\ \A i \in 1..Len(wire.data) : DataOK(wire.data[i])
         /\ wire.stat \in Seq(StatFrame) /\ \A i \in 1..Len(wire.stat) : StatOK(wire.stat[i])
         /\ wire.req \in Seq(ReqFrame) /\ \A i \in 1..Len(wire.req) : rd[wire.req[i].psn].pos # "none"
BY EnvFacts DEF ReturnOK, FramesOK, ReqOK, WireSet

\* A frame leaves its queue.
LEMMA TailFrames ==
  ASSUME Inv, ReturnOK, NEW w \in Wires, wire[w] # <<>>, NEW rest, rest = [wire EXCEPT ![w] = Tail(@)]
  PROVE  /\ rest \in WireSet
         /\ \A i \in 1..Len(rest.req) : rd[rest.req[i].psn].pos # "none"
         /\ \A i \in 1..Len(rest.data) : DataOK(rest.data[i])
         /\ \A i \in 1..Len(rest.stat) : StatOK(rest.stat[i])
         /\ w = "req" => rd[Head(wire.req).psn].pos # "none"
         /\ w = "data" => DataOK(Head(wire.data))
         /\ w = "stat" => StatOK(Head(wire.stat))
<1>1. wire \in WireSet /\ rest \in WireSet
  BY WireFacts
<1>2. /\ rest.req = (IF w = "req" THEN Tail(wire.req) ELSE wire.req)
      /\ rest.data = (IF w = "data" THEN Tail(wire.data) ELSE wire.data)
      /\ rest.stat = (IF w = "stat" THEN Tail(wire.stat) ELSE wire.stat)
  <2>1. DOMAIN wire = {"req", "ack", "data", "stat"}
    BY <1>1 DEF WireSet
  <2> QED
    BY <2>1
<1> DEFINE TR == {f \in ReqFrame : rd[f.psn].pos # "none"}
           TD == {f \in DataFrame : DataOK(f)}
           TS == {f \in StatFrame : StatOK(f)}
<1>3. /\ \A i \in 1..Len(wire.req) : wire.req[i] \in TR
      /\ \A i \in 1..Len(wire.data) : wire.data[i] \in TD
      /\ \A i \in 1..Len(wire.stat) : wire.stat[i] \in TS
  <2>1. /\ \A i \in 1..Len(wire.req) : wire.req[i] \in ReqFrame
        /\ \A i \in 1..Len(wire.data) : wire.data[i] \in DataFrame
        /\ \A i \in 1..Len(wire.stat) : wire.stat[i] \in StatFrame
    BY TrueFrames
  <2> QED
    BY <2>1, TrueFrames
<1> PICK R, D, S : R = TR /\ D = TD /\ S = TS
  OBVIOUS
<1>4. /\ \A i \in 1..Len(wire.req) : wire.req[i] \in R
      /\ \A i \in 1..Len(wire.data) : wire.data[i] \in D
      /\ \A i \in 1..Len(wire.stat) : wire.stat[i] \in S
  BY <1>3
<1>5. /\ \A f \in R : rd[f.psn].pos # "none"
      /\ \A f \in D : DataOK(f)
      /\ \A f \in S : StatOK(f)
  OBVIOUS
<1> HIDE DEF TR, TD, TS
<1>6. CASE w = "req"
  <2>1. wire.req # <<>> /\ wire.req \in Seq(ReqFrame)
    BY <1>6, TrueFrames
  <2>2. Head(wire.req) \in R /\ \A i \in 1..Len(Tail(wire.req)) : Tail(wire.req)[i] \in R
    BY <1>4, <2>1, QueueFacts
  <2> QED
    BY <1>1, <1>2, <1>5, <1>6, <2>2, TrueFrames
<1>7. CASE w = "data"
  <2>1. wire.data # <<>> /\ wire.data \in Seq(DataFrame)
    BY <1>7, TrueFrames
  <2>2. Head(wire.data) \in D /\ \A i \in 1..Len(Tail(wire.data)) : Tail(wire.data)[i] \in D
    BY <1>4, <2>1, QueueFacts
  <2> QED
    BY <1>1, <1>2, <1>5, <1>7, <2>2, TrueFrames
<1>8. CASE w = "stat"
  <2>1. wire.stat # <<>> /\ wire.stat \in Seq(StatFrame)
    BY <1>8, TrueFrames
  <2>2. Head(wire.stat) \in S /\ \A i \in 1..Len(Tail(wire.stat)) : Tail(wire.stat)[i] \in S
    BY <1>4, <2>1, QueueFacts
  <2> QED
    BY <1>1, <1>2, <1>5, <1>8, <2>2, TrueFrames
<1>9. CASE w = "ack"
  BY <1>1, <1>2, <1>9, TrueFrames
<1> QED
  BY <1>6, <1>7, <1>8, <1>9 DEF Wires

\* A frame is lost.
LEMMA LoseR ==
  ASSUME Inv, ReturnOK, NEW w \in Wires, Lose(w)
  PROVE  ReturnOK'
<1>1. /\ wire[w] # <<>> /\ Spend("lose") /\ wire' = [wire EXCEPT ![w] = Tail(@)]
      /\ UNCHANGED <<rd, rx, exp, work, ctx, mem>>
  BY DEF Lose
<1>2. /\ wire' \in WireSet
      /\ \A i \in 1..Len(wire'.req) : rd[wire'.req[i].psn].pos # "none"
      /\ \A i \in 1..Len(wire'.data) : DataOK(wire'.data[i])
      /\ \A i \in 1..Len(wire'.stat) : StatOK(wire'.stat[i])
  BY <1>1, TailFrames
<1>3. /\ \A p \in Reads : ctx[p].ver > 0 => work'[p] \notin {"none", "queued"}
      /\ \A p \in Reads : rd[p].pos = "none" => work'[p] = "none" /\ p \notin exp'.held
      /\ rx'.pc = "handle" => /\ rx'.f \in DataFrame => DataOK(rx'.f)
                              /\ rx'.f \in StatFrame => StatOK(rx'.f)
  BY <1>1 DEF ReturnOK, VerOK, UnpostedOK, FramesOK
<1>4. conf'.len = conf.len /\ mem' \in Nat /\ mem <= mem'
  BY <1>1, SpendFacts DEF Inv, EnvOK, EnvTypes
<1> QED
  BY <1>1, <1>2, <1>3, <1>4, SameGoes, ReturnKept

\* The request goes out: its read was posted.
LEMMA TransmitR ==
  ASSUME Inv, ReturnOK, NEW r \in Reads, Transmit(r)
  PROVE  ReturnOK'
<1> PICK f : f = [psn |-> r]
  OBVIOUS
<1> PICK c : c = rd[r]
  OBVIOUS
<1> PICK d : d = [c EXCEPT !.tx = "sent"]
  OBVIOUS
<1>1. /\ c.tx = "queued" /\ wire' = [wire EXCEPT !["req"] = Append(@, f)]
      /\ UNCHANGED <<conf, rx, exp, work, ctx, mem>>
  BY DEF Transmit, Send
<1>2. rd \in [Reads -> ReadRec] /\ c \in ReadRec /\ c.pos # "none"
  BY <1>1, ReadFacts, HolderFacts
<1>3. Goes(c, d)
  BY ONLY <1>2, d = [c EXCEPT !.tx = "sent"] DEF Goes, ReadRec
<1>4. \A q \in Reads : Goes(rd[q], rd'[q])
  <2>1. rd' = [rd EXCEPT ![r] = d]
    BY <1>2 DEF Transmit
  <2> QED
    BY <1>2, <1>3, <2>1, SameGoes
<1>5. f \in ReqFrame
  BY DEF ReqFrame
<1>6. wire' \in WireSet /\ wire'.req = Append(wire.req, f)
  BY <1>1, <1>5, WireFacts
<1>7. wire'.data = wire.data /\ wire'.stat = wire.stat
  BY <1>1, EnvFacts DEF WireSet
<1>8. \A i \in 1..Len(wire'.req) : rd[wire'.req[i].psn].pos # "none"
  <2>1. \A i \in 1..Len(wire'.req) : wire'.req[i] = IF i \in 1..Len(wire.req) THEN wire.req[i] ELSE f
    BY <1>5, <1>6, TrueFrames, AppendProperties
  <2> QED
    BY <1>2, <2>1, TrueFrames
<1>9. /\ \A p \in Reads : ctx[p].ver > 0 => work'[p] \notin {"none", "queued"}
      /\ \A p \in Reads : rd[p].pos = "none" => work'[p] = "none" /\ p \notin exp'.held
      /\ rx'.pc = "handle" => /\ rx'.f \in DataFrame => DataOK(rx'.f)
                              /\ rx'.f \in StatFrame => StatOK(rx'.f)
      /\ mem' \in Nat /\ mem <= mem'
  BY <1>1 DEF ReturnOK, VerOK, UnpostedOK, FramesOK, Inv, EnvOK, EnvTypes
<1> QED
  BY <1>1, <1>4, <1>6, <1>7, <1>8, <1>9, TrueFrames, ReturnKept

\* A response is looked up.
LEMMA RespArriveR ==
  ASSUME Inv, ReturnOK, NEW w, RespArrive(w)
  PROVE  ReturnOK'
<1> PICK f : f = Head(wire[w])
  OBVIOUS
<1> PICK rest : rest = [wire EXCEPT ![w] = Tail(@)]
  OBVIOUS
<1> PICK a : a = Ack(f.psn, "ok")
  OBVIOUS
<1>1. /\ w \in {"data", "stat"} /\ wire[w] # <<>>
      /\ wire' = rest \/ wire' = [rest EXCEPT !.ack = Append(@, a)]
      /\ UNCHANGED <<conf, exp, work, ctx, mem>>
  BY DEF RespArrive
<1>2. \/ UNCHANGED <<rd, rx>>
      \/ rd' = [rd EXCEPT ![f.psn].refs = @ + 1] /\ rx' = [pc |-> "handle", r |-> f.psn, f |-> f]
  BY DEF RespArrive
<1>3. w \in Wires
  BY <1>1 DEF Wires
<1>4. (w = "data" => f \in DataFrame /\ DataOK(f)) /\ (w = "stat" => f \in StatFrame /\ StatOK(f))
  <2>1. wire["data"] = wire.data /\ wire["stat"] = wire.stat
    OBVIOUS
  <2> QED
    BY <1>1, <1>3, <2>1, HeadFacts, TailFrames
<1>5. f.psn \in Reads
  BY <1>1, <1>4 DEF DataFrame, StatFrame
<1>6. (w = "data" => f \notin StatFrame) /\ (w = "stat" => f \notin DataFrame)
  <2>1. (\A x \in DataFrame : "ok" \notin DOMAIN x) /\ (\A x \in StatFrame : "ok" \in DOMAIN x)
    BY DEF DataFrame, StatFrame
  <2> QED
    BY <1>4, <2>1
<1>7. rx'.pc = "handle" => /\ rx'.f \in DataFrame => DataOK(rx'.f)
                           /\ rx'.f \in StatFrame => StatOK(rx'.f)
  <2>1. CASE UNCHANGED <<rd, rx>>
    BY <2>1 DEF ReturnOK, FramesOK
  <2>2. CASE rx' = [pc |-> "handle", r |-> f.psn, f |-> f]
    <3>1. rx'.f = f
      BY <2>2
    <3> QED
      BY <1>1, <1>4, <1>6, <3>1
  <2> QED
    BY <1>2, <2>1, <2>2
<1>8. \A q \in Reads : Goes(rd[q], rd'[q])
  <2>1. CASE UNCHANGED <<rd, rx>>
    BY <2>1, SameGoes
  <2>2. CASE rd' = [rd EXCEPT ![f.psn].refs = @ + 1]
    <3> PICK r \in Reads : r = f.psn
      BY <1>5
    <3> PICK c : c = rd[r]
      OBVIOUS
    <3> PICK d : d = [c EXCEPT !.refs = @ + 1]
      OBVIOUS
    <3>1. rd \in [Reads -> ReadRec] /\ c \in ReadRec
      BY ReadFacts
    <3>2. Goes(c, d)
      BY ONLY <3>1, d = [c EXCEPT !.refs = @ + 1] DEF Goes, ReadRec
    <3>3. rd' = [rd EXCEPT ![r] = d]
      BY <2>2, <3>1
    <3> QED
      BY <3>1, <3>2, <3>3, SameGoes
  <2> QED
    BY <1>2, <2>1, <2>2
<1>9. /\ rest \in WireSet
      /\ \A i \in 1..Len(rest.req) : rd[rest.req[i].psn].pos # "none"
      /\ \A i \in 1..Len(rest.data) : DataOK(rest.data[i])
      /\ \A i \in 1..Len(rest.stat) : StatOK(rest.stat[i])
  <2>1. wire[w] # <<>>
    BY <1>1
  <2> QED
    BY ONLY Inv, ReturnOK, <1>3, <2>1, rest = [wire EXCEPT ![w] = Tail(@)], TailFrames
<1>10. wire' \in WireSet /\ wire'.req = rest.req /\ wire'.data = rest.data /\ wire'.stat = rest.stat
  <2>1. a \in AckFrame /\ rest.ack \in Seq(AckFrame)
    BY <1>5, <1>9 DEF Ack, AckFrame, WireSet
  <2>2. Append(rest.ack, a) \in Seq(AckFrame)
    BY <2>1, AppendProperties
  <2>3. \A s \in Seq(AckFrame) : /\ [rest EXCEPT !.ack = s] \in WireSet /\ [rest EXCEPT !.ack = s].req = rest.req
                                 /\ [rest EXCEPT !.ack = s].data = rest.data
                                 /\ [rest EXCEPT !.ack = s].stat = rest.stat
    BY <1>9 DEF WireSet
  <2> QED
    BY <1>1, <1>9, <2>2, <2>3
<1>11. /\ \A p \in Reads : ctx[p].ver > 0 => work'[p] \notin {"none", "queued"}
       /\ \A p \in Reads : rd[p].pos = "none" => work'[p] = "none" /\ p \notin exp'.held
       /\ mem' \in Nat /\ mem <= mem'
  <2>1. UNCHANGED <<exp, work, mem>>
    BY <1>1
  <2> QED
    BY ONLY Inv, ReturnOK, <2>1 DEF ReturnOK, VerOK, UnpostedOK, Inv, EnvOK, EnvTypes
<1> QED
  BY <1>1, <1>7, <1>8, <1>9, <1>10, <1>11, ReturnKept

\* A read is posted: nothing is known of it yet.
LEMMA PostReserveR ==
  ASSUME Inv, ReturnOK, PostReserve, AOK'
  PROVE  ReturnOK'
<1> PICK n : n = NextRead
  OBVIOUS
<1> PICK c : c = [NoRead EXCEPT !.pos = "post", !.slot = TRUE, !.refs = 1, !.since = mem]
  OBVIOUS
<1>1. /\ n \in DOMAIN conf.len /\ rd' = [rd EXCEPT ![n] = c] /\ post = IdlePost
      /\ UNCHANGED <<conf, rx, exp, work, ctx, mem, wire>>
  BY DEF PostReserve
<1>2. n \in Reads
  BY <1>1, ConfFacts
<1>3. /\ c.pos = "post" /\ c.since = mem /\ c.res = "none" /\ c.status = "none" /\ c.got = 0 /\ c.buf = {}
      /\ c.ready = FALSE
  BY ONLY c = [NoRead EXCEPT !.pos = "post", !.slot = TRUE, !.refs = 1, !.since = mem] DEF NoRead
<1>4. rd'[n] = c /\ \A q \in Reads : q # n => rd'[q] = rd[q]
  BY <1>1, <1>2, ReadFacts
<1>5. rd[n].pos = "none" /\ \A q \in Reads : rd[q].pos # "none" => q < n
  <2> PICK k \in 0..MaxReads : \A q \in Reads : rd[q].pos # "none" <=> q <= k
    BY DEF Inv, AOK, PostOK
  <2>1. {q \in Reads : rd[q].pos # "none"} = 1..k /\ MaxReads \in Nat
    BY CountFacts DEF Reads
  <2>2. Cardinality(1..k) = k
    <3>1. Cardinality(1..k) = IF 1 > k THEN 0 ELSE k - 1 + 1
      <4>1. 1 \in Int /\ k \in Int
        BY <2>1
      <4> QED
        BY ONLY <4>1, FS_Interval
    <3> QED
      BY <2>1, <3>1
  <2>3. n = k + 1
    BY <2>1, <2>2 DEF NextRead
  <2> QED
    BY <1>2, <2>1, <2>3 DEF Reads
<1>6. ctx[n].ver \in Nat /\ ~(ctx[n].ver > 0) /\ work[n] = "none"
  BY <1>2, <1>5, CtxFacts DEF ReturnOK, UnpostedOK, VerOK, CtxRec
<1>7. UnpostedOK'
  BY <1>1, <1>3, <1>4 DEF ReturnOK, UnpostedOK
<1>8. ReqOK'
  <2>1. \A i \in 1..Len(wire.req) : wire.req[i].psn \in Reads
    <3>1. \A i \in 1..Len(wire.req) : wire.req[i] \in ReqFrame
      BY TrueFrames
    <3> QED
      BY <3>1 DEF ReqFrame
  <2> QED
    BY <1>1, <1>3, <1>4, <2>1 DEF ReturnOK, ReqOK
<1>9. VerOK'
  <2>1. mem <= mem
    BY DEF Inv, EnvOK, EnvTypes
  <2> QED
    BY <1>1, <1>3, <1>4, <1>6, <2>1 DEF ReturnOK, VerOK
<1>10. FramesOK'
  BY <1>1 DEF ReturnOK, FramesOK, DataOK, StatOK, Snapped
<1>11. CopiesOK'
  <2>1. \A k \in Ks : ~(k < 0)
    BY CountFacts DEF Ks
  <2> QED
    BY <1>1, <1>3, <1>4, <2>1 DEF ReturnOK, CopiesOK, Snapped
<1>12. ResultOK'
  BY <1>1, <1>3, <1>4 DEF ReturnOK, ResultOK
<1>13. OkInOrder'
  <2>1. ASSUME NEW r \in Reads, NEW q \in Reads, q < r, rd'[r].res = "ok"
        PROVE  rd'[q].res # "none" \/ rd'[q].pos = "reap"
    <3>1. r # n /\ rd'[r] = rd[r]
      BY <1>3, <1>4, <2>1
    <3>2. rd[r].pos # "none"
      BY <2>1, <3>1 DEF ReturnOK, UnpostedOK
    <3>3. q # n
      BY <1>2, <1>5, <2>1, <3>2, CountFacts DEF Reads
    <3> QED
      BY <1>4, <2>1, <3>1, <3>3 DEF ReturnOK, OkInOrder
  <2> QED
    BY <2>1 DEF OkInOrder
<1> QED
  BY <1>7, <1>8, <1>9, <1>10, <1>11, <1>12, <1>13 DEF ReturnOK

\* What the handler leaves of a read.
LEMMA HandledFields ==
  ASSUME NEW M \in [Reads -> ReadRec], NEW H, NEW r, NEW q \in Reads, NEW P, P = Handled(M, H, r)
  PROVE  /\ P[q].got = M[q].got /\ P[q].buf = M[q].buf /\ P[q].data = M[q].data
         /\ P[q].since = M[q].since /\ P[q].ready = M[q].ready /\ P[q].status = M[q].status
         /\ P[q].pos = (IF q \in H THEN "off" ELSE M[q].pos)
         /\ P[q].res = (IF q \in H /\ M[q].res = "none" THEN M[q].status ELSE M[q].res)
<1> PICK m : m = M[q]
  OBVIOUS
<1> PICK e : e = [m EXCEPT !.pos = "off", !.slot = FALSE]
  OBVIOUS
<1> PICK x : x = IF e.res = "none" THEN m.status ELSE e.res
  OBVIOUS
<1> PICK g : g = [e EXCEPT !.res = x]
  OBVIOUS
<1> PICK h : h = [g EXCEPT !.refs = @ - 1]
  OBVIOUS
<1> PICK d : d = IF q \in H THEN h ELSE m
  OBVIOUS
<1>0. m \in ReadRec
  OBVIOUS
<1>1. P[q] = IF q = r THEN PutRead(d) ELSE d
  BY DEF Handled, Done, Complete, PutRead
<1>2. /\ h.got = m.got /\ h.buf = m.buf /\ h.data = m.data /\ h.since = m.since /\ h.ready = m.ready
      /\ h.status = m.status /\ h.pos = "off" /\ h.res = (IF m.res = "none" THEN m.status ELSE m.res)
      /\ DOMAIN h = DOMAIN m
  BY ONLY <1>0, h = [g EXCEPT !.refs = @ - 1], g = [e EXCEPT !.res = x],
     x = IF e.res = "none" THEN m.status ELSE e.res, e = [m EXCEPT !.pos = "off", !.slot = FALSE] DEF ReadRec
<1>3. /\ d.got = m.got /\ d.buf = m.buf /\ d.data = m.data /\ d.since = m.since /\ d.ready = m.ready
      /\ d.status = m.status /\ d.pos = (IF q \in H THEN "off" ELSE m.pos)
      /\ d.res = (IF q \in H /\ m.res = "none" THEN m.status ELSE m.res)
      /\ DOMAIN d = DOMAIN m
  BY ONLY <1>2, d = IF q \in H THEN h ELSE m
<1>4. DOMAIN d = DOMAIN NoRead
  BY ONLY <1>0, <1>3 DEF ReadRec, NoRead
<1> PICK y : y = d.refs - 1
  OBVIOUS
<1>5. PutRead(d) = [d EXCEPT !.refs = y]
  BY DEF PutRead
<1>6. /\ PutRead(d).got = d.got /\ PutRead(d).buf = d.buf /\ PutRead(d).data = d.data
      /\ PutRead(d).since = d.since /\ PutRead(d).ready = d.ready /\ PutRead(d).status = d.status
      /\ PutRead(d).pos = d.pos /\ PutRead(d).res = d.res
  BY ONLY <1>4, <1>5 DEF NoRead
<1> QED
  BY ONLY <1>1, <1>3, <1>6, m = M[q]

\* The frame in the handler's hands leaves its read with pieces of the snapshot,
\* and with all of them when the read is marked done.
LEMMA NextCopies ==
  ASSUME Inv, ReturnOK, rx.pc = "handle", NEW n, n = NextOf(rd[rx.r], rx.f), SameButData(rd[rx.r], n)
  PROVE  /\ \A k \in Ks : k < n.got \/ k \in n.buf => Snapped(rx.r, k, n.data[k])
         /\ n.status = "ok" \/ n.res = "ok" => n.got = conf.len[rx.r]
         /\ "ok" \in DOMAIN rx.f /\ rx.f.ok = TRUE => n.got = conf.len[rx.r]
<1> PICK r, f, c : r = rx.r /\ f = rx.f /\ c = rd[r]
  OBVIOUS
<1>1. /\ r \in Reads /\ f \in DataFrame \cup StatFrame /\ f.psn = r
      /\ f \in DataFrame => DataOK(f)
      /\ f \in StatFrame => StatOK(f)
  BY DEF Inv, AOK, ATypes, ReturnOK, FramesOK
<1>2. c \in ReadRec /\ c.pos # "none" /\ n \in ReadRec /\ n.status = c.status /\ n.res = c.res
  BY <1>1, HolderFacts DEF SameButData
<1>3. /\ \A k \in Ks : k < c.got \/ k \in c.buf => Snapped(r, k, c.data[k])
      /\ c.status = "ok" \/ c.res = "ok" => c.got = conf.len[r]
  BY <1>1 DEF ReturnOK, CopiesOK, ResultOK
<1>4. /\ conf.len[r] \in 0..MaxFrags /\ MaxFrags \in Nat /\ c.got \in 0..MaxFrags /\ c.buf \in SUBSET Ks
      /\ c.data \in [Ks -> Nat]
  BY <1>1, <1>2, EnvFacts, ConfFacts, CountFacts DEF ReadRec
<1>5. CASE f \in StatFrame
  <2>1. "ok" \in DOMAIN f /\ n = c
    BY <1>5 DEF StatFrame, NextOf
  <2>2. ASSUME f.ok = TRUE PROVE c.got = conf.len[r]
    <3>1. conf.len[r] = 0
      BY <1>1, <1>5, <2>2 DEF StatOK
    <3>2. ASSUME c.got > 0 PROVE FALSE
      <4>1. 0 \in Ks /\ 0 < c.got
        BY <1>4, <3>2 DEF Ks
      <4>2. 0 < conf.len[r]
        BY <1>3, <4>1 DEF Snapped
      <4> QED
        BY <3>1, <4>2
    <3> QED
      BY <1>4, <3>1, <3>2
  <2> QED
    BY <1>3, <2>1, <2>2
<1>6. CASE f \in DataFrame
  <2>1. "ok" \notin DOMAIN f /\ f.k \in Ks /\ f.ver \in Nat
    BY <1>6 DEF DataFrame
  <2>2. Snapped(r, f.k, f.ver) /\ f.k < conf.len[r]
    BY <1>1, <1>6 DEF DataOK, Snapped
  <2>3. f.k \in Int /\ c.got \in Int /\ conf.len[r] \in Int /\ \A k \in Ks : k \in Int
    BY <1>4, <2>1 DEF Ks
  <2>4. (c.status = "ok" \/ c.res = "ok") => f.k < c.got
    BY <1>3, <2>2
  <2> PICK D : D = [c.data EXCEPT ![f.k] = f.ver]
    OBVIOUS
  <2>5. D[f.k] = f.ver /\ \A k \in Ks : k # f.k => D[k] = c.data[k]
    BY <1>4, <2>1
  <2>6. CASE f.k < c.got
    <3>1. n = c
      BY <2>1, <2>6 DEF NextOf
    <3> QED
      BY <1>3, <2>1, <3>1
  <2>7. CASE f.k > c.got
    <3>1. n = Kept(c, f) /\ ~(f.k < c.got)
      BY <2>1, <2>3, <2>7 DEF NextOf
    <3>2. n.got = c.got /\ n.buf = c.buf \cup {f.k} /\ n.data = D
      BY <1>2, <1>6, <3>1, CopyFacts
    <3>3. \A k \in Ks : k < n.got \/ k \in n.buf => Snapped(r, k, n.data[k])
      BY <1>3, <2>2, <2>5, <3>2
    <3> QED
      BY <1>2, <2>1, <2>4, <3>1, <3>3
  <2>8. CASE f.k = c.got
    <3>1. n = Copied(c, f) /\ ~(f.k < c.got) /\ ~(f.k > c.got)
      BY <2>1, <2>3, <2>8 DEF NextOf
    <3>2. /\ \A k \in (c.got + 1)..(n.got - 1) : k \in c.buf
          /\ n.buf \subseteq c.buf /\ n.data = D
      BY <1>2, <1>6, <2>8, <3>1, CopyFacts
    <3>3. ASSUME NEW k \in Ks, k < n.got \/ k \in n.buf PROVE Snapped(r, k, n.data[k])
      <4>1. CASE k = f.k
        BY <2>2, <2>5, <3>2, <4>1
      <4>2. CASE k # f.k
        <5>1. n.got \in Int
          BY <1>2, <1>4 DEF ReadRec
        <5>2. k < c.got \/ k \in c.buf
          <6>1. CASE k \in n.buf
            BY <3>2, <6>1
          <6>2. CASE k < n.got /\ k > c.got
            <7>1. k \in (c.got + 1)..(n.got - 1)
              BY <2>3, <5>1, <6>2
            <7> QED
              BY <3>2, <7>1
          <6> QED
            BY <2>3, <2>8, <3>3, <4>2, <6>1, <6>2
        <5> QED
          BY <1>3, <2>5, <3>2, <4>2, <5>2
      <4> QED
        BY <4>1, <4>2
    <3> QED
      BY <1>2, <2>1, <2>4, <3>1, <3>3
  <2>9. f.k < c.got \/ f.k > c.got \/ f.k = c.got
    BY ONLY <2>3
  <2> QED
    BY ONLY <2>6, <2>7, <2>8, <2>9, r = rx.r /\ f = rx.f /\ c = rd[r]
<1> QED
  BY <1>1, <1>5, <1>6

\* The handler: a read succeeds with all its fragments, of one snapshot, and
\* after the reads before it.
LEMMA RespHandleR ==
  ASSUME Inv, ReturnOK, RespHandle
  PROVE  ReturnOK'
<1> PICK M \in [Reads -> ReadRec], H \in SUBSET Reads, n \in ReadRec, d \in BOOLEAN, st \in {"ok", "error"} :
           \E P : Handles(M, H, n, d, st) /\ P = Handled(M, H, rx.r) /\ SetReads(P)
  BY RespHandleShape
<1> PICK P : Handles(M, H, n, d, st) /\ P = Handled(M, H, rx.r) /\ SetReads(P)
  OBVIOUS
<1> PICK r, m : r = rx.r /\ m = M[r]
  OBVIOUS
<1>1. rx.pc = "handle" /\ rx' = IdleRx /\ UNCHANGED <<conf, exp, work, ctx, mem>> /\ rd' = P
  BY DEF RespHandle, SetReads
<1>2. r \in Reads /\ rd[r].pos # "none"
  BY <1>1, HolderFacts DEF Inv, AOK, ATypes
<1>3. /\ SameButData(rd[r], n) /\ n = NextOf(rd[r], rx.f)
      /\ \A q \in Reads : q # r => M[q] = rd[q]
      /\ \A q \in Reads : M[q].pos = rd[q].pos
      /\ \A q \in H : M[q].pos = "list" /\ M[q].ready = TRUE
      /\ \A q \in H : \A p \in Reads : p < q /\ M[p].pos = "list" => p \in H
  BY DEF Handles, Alike
<1>4. /\ \A k \in Ks : k < n.got \/ k \in n.buf => Snapped(r, k, n.data[k])
      /\ n.status = "ok" \/ n.res = "ok" => n.got = conf.len[r]
      /\ "ok" \in DOMAIN rx.f /\ rx.f.ok = TRUE => n.got = conf.len[r]
  BY <1>1, <1>3, NextCopies
<1>5. /\ m.got = n.got /\ m.buf = n.buf /\ m.data = n.data /\ m.since = n.since /\ m.res = n.res
      /\ (m.status = n.status /\ m.ready = n.ready) \/ (m.status = st /\ d = TRUE)
  <2>1. CASE m = n
    BY <2>1
  <2>2. CASE d = TRUE /\ m = [n EXCEPT !.ready = TRUE, !.status = st]
    <3>1. n \in ReadRec /\ m = [n EXCEPT !.ready = TRUE, !.status = st] /\ d = TRUE
      BY <2>2
    <3> QED
      BY ONLY <3>1 DEF ReadRec
  <2> QED
    BY <2>1, <2>2 DEF Handles
<1>6. /\ m.since = rd[r].since /\ m.res = rd[r].res
      /\ m.status = "ok" \/ m.res = "ok" => m.got = conf.len[r]
      /\ m.ready = TRUE => m.status # "none"
  <2>1. d = TRUE /\ st = "ok" => n.got = conf.len[r]
    BY <1>4 DEF Handles
  <2>2. n.ready = TRUE => n.status # "none"
    BY <1>2, <1>3 DEF SameButData, ReturnOK, ResultOK
  <2>3. n.since = rd[r].since /\ n.res = rd[r].res
    BY <1>3 DEF SameButData
  <2> QED
    BY <1>4, <1>5, <2>1, <2>2, <2>3
<1>7. \A q \in Reads : /\ M[q].since = rd[q].since /\ M[q].res = rd[q].res
                       /\ M[q].status = "ok" \/ M[q].res = "ok" => M[q].got = conf.len[q]
                       /\ M[q].ready = TRUE => M[q].status # "none"
                       /\ \A k \in Ks : k < M[q].got \/ k \in M[q].buf => Snapped(q, k, M[q].data[k])
  <2> TAKE q \in Reads
  <2>1. CASE q = r
    BY <1>4, <1>5, <1>6, <2>1
  <2>2. CASE q # r
    BY <1>3, <2>2 DEF ReturnOK, ResultOK, CopiesOK
  <2> QED
    BY <2>1, <2>2
<1>8. \A q \in Reads :
         /\ P[q].got = M[q].got /\ P[q].buf = M[q].buf /\ P[q].data = M[q].data
         /\ P[q].since = M[q].since /\ P[q].ready = M[q].ready /\ P[q].status = M[q].status
         /\ P[q].pos = (IF q \in H THEN "off" ELSE M[q].pos)
         /\ P[q].res = (IF q \in H /\ M[q].res = "none" THEN M[q].status ELSE M[q].res)
  BY HandledFields
<1>9. UnpostedOK'
  <2>1. \A q \in Reads : P[q].pos = "none" => q # r /\ q \notin H /\ rd[q].pos = "none"
    BY <1>2, <1>3, <1>8
  <2> QED
    BY <1>1, <1>3, <1>8, <2>1 DEF ReturnOK, UnpostedOK
<1>10. wire' \in WireSet /\ wire'.req = wire.req /\ wire'.data = wire.data /\ wire'.stat = wire.stat
  <2>1. wire \in WireSet
    BY EnvFacts
  <2>2. wire' = wire \/ \E code \in {"ok", "error", "retry"} : Send("ack", Ack(rx.r, code))
    BY DEF RespHandle
  <2>3. ASSUME NEW code \in {"ok", "error", "retry"}, Send("ack", Ack(rx.r, code))
        PROVE  /\ wire' \in WireSet /\ wire'.req = wire.req /\ wire'.data = wire.data
               /\ wire'.stat = wire.stat
    <3> PICK a : a = Ack(rx.r, code)
      OBVIOUS
    <3>1. a \in AckFrame
      BY <1>2 DEF Ack, AckFrame
    <3>2. wire' = [wire EXCEPT !["ack"] = Append(@, a)]
      BY <2>3 DEF Send
    <3>3. wire' \in WireSet
      BY <3>1, <3>2, WireFacts
    <3> QED
      BY <2>1, <3>2, <3>3 DEF WireSet
  <2> QED
    BY <2>1, <2>2, <2>3
<1>11. ReqOK'
  <2>1. \A i \in 1..Len(wire.req) : wire.req[i].psn \in Reads /\ rd[wire.req[i].psn].pos # "none"
    <3>1. \A i \in 1..Len(wire.req) : wire.req[i] \in ReqFrame
      BY TrueFrames
    <3> QED
      BY <3>1, TrueFrames DEF ReqFrame
  <2>2. \A q \in Reads : rd[q].pos # "none" => P[q].pos # "none"
    BY <1>3, <1>8
  <2> QED
    BY <1>1, <1>10, <2>1, <2>2 DEF ReqOK
<1>12. VerOK'
  <2>1. \A q \in Reads : P[q].since = rd[q].since
    BY <1>7, <1>8
  <2> QED
    BY <1>1, <2>1 DEF ReturnOK, VerOK
<1>13. FramesOK'
  BY <1>1, <1>10 DEF ReturnOK, FramesOK, DataOK, StatOK, Snapped, IdleRx
<1>14. CopiesOK'
  BY <1>1, <1>7, <1>8 DEF CopiesOK, Snapped
<1>15. ResultOK'
  <2> SUFFICES ASSUME NEW q \in Reads
               PROVE  /\ P[q].ready = TRUE => P[q].status # "none"
                      /\ P[q].pos = "off" => P[q].res # "none"
                      /\ P[q].status = "ok" \/ P[q].res = "ok" => P[q].got = conf.len[q]
    BY <1>1 DEF ResultOK
  <2>1. rd[q].pos = "off" => rd[q].res # "none"
    BY DEF ReturnOK, ResultOK
  <2> QED
    BY <1>3, <1>7, <1>8, <2>1
<1>16. OkInOrder'
  <2> SUFFICES ASSUME NEW s \in Reads, NEW q \in Reads, q < s, P[s].res = "ok"
               PROVE  P[q].res # "none" \/ P[q].pos = "reap"
    BY <1>1 DEF OkInOrder
  <2>1. rd[q].res # "none" => P[q].res # "none"
    BY <1>7, <1>8
  <2>2. rd[q].pos = "reap" => P[q].pos = "reap"
    BY <1>3, <1>8
  <2>3. CASE rd[s].res = "ok"
    BY <2>1, <2>2, <2>3 DEF ReturnOK, OkInOrder
  <2>4. CASE rd[s].res # "ok"
    <3>1. s \in H
      BY <1>7, <1>8, <2>4
    <3>2. rd[s].pos = "list"
      BY <1>3, <3>1
    <3>3. rd[q].pos # "none"
      <4> PICK k \in 0..MaxReads : \A x \in Reads : rd[x].pos # "none" <=> x <= k
        BY DEF Inv, AOK, PostOK
      <4>1. s <= k /\ q <= k
        BY <3>2, CountFacts DEF Reads
      <4> QED
        BY <4>1
    <3>4. rd[q].pos # "post"
      <4>1. ASSUME rd[q].pos = "post" PROVE FALSE
        <5>1. post.pc = "queue" /\ post.r = q
          BY <4>1 DEF Inv, AOK, PostOK
        <5>2. s <= q
          BY <3>2, <5>1 DEF Inv, AOK, PostOK
        <5> QED
          BY <5>2, CountFacts DEF Reads
      <4> QED
        BY <4>1
    <3>5. CASE rd[q].pos = "list"
      <4>1. q \in H
        BY <1>3, <3>1, <3>5
      <4> QED
        BY <1>3, <1>7, <1>8, <4>1
    <3>6. rd[q].pos = "off" => rd[q].res # "none"
      BY DEF ReturnOK, ResultOK
    <3>7. rd[q].pos \in {"none", "post", "list", "reap", "off"}
      BY ReadFacts DEF ReadRec
    <3> QED
      BY <2>1, <2>2, <3>3, <3>4, <3>5, <3>6, <3>7
  <2> QED
    BY <2>3, <2>4
<1> QED
  BY <1>9, <1>11, <1>12, <1>13, <1>14, <1>15, <1>16 DEF ReturnOK

-----------------------------------------------------------------------------
(* The responder, the environment and the destruction.                     *)

\* A scan of the requester finds nothing, a destroy begins, or nothing happens.
LEMMA QuietR ==
  ASSUME Inv, ReturnOK, UNCHANGED <<conf, rd, exp, work, ctx, rx, mem, wire>>
  PROVE  ReturnOK'
BY SameGoes, ReturnKeptA

\* The application writes the memory that is read.
LEMMA MemWriteR ==
  ASSUME Inv, ReturnOK, MemWrite
  PROVE  ReturnOK'
<1>1. Spend("writes") /\ mem' = mem + 1 /\ UNCHANGED <<rd, rx, exp, work, ctx, wire>>
  BY DEF MemWrite
<1>2. mem' \in Nat /\ mem <= mem' /\ wire' \in WireSet
  BY <1>1 DEF Inv, EnvOK, EnvTypes
<1>3. /\ \A p \in Reads : ctx[p].ver > 0 => work'[p] \notin {"none", "queued"}
      /\ \A p \in Reads : rd[p].pos = "none" => work'[p] = "none" /\ p \notin exp'.held
      /\ rx'.pc = "handle" => /\ rx'.f \in DataFrame => DataOK(rx'.f)
                              /\ rx'.f \in StatFrame => StatOK(rx'.f)
  BY <1>1 DEF ReturnOK, VerOK, UnpostedOK, FramesOK
<1>4. conf'.len = conf.len
  BY <1>1, SpendFacts
<1>5. /\ \A i \in 1..Len(wire'.req) : rd[wire'.req[i].psn].pos # "none"
      /\ \A i \in 1..Len(wire'.data) : DataOK(wire'.data[i])
      /\ \A i \in 1..Len(wire'.stat) : StatOK(wire'.stat[i])
  BY <1>1, TrueFrames
<1> QED
  BY <1>1, <1>2, <1>3, <1>4, <1>5, SameGoes, ReturnKept

\* A step of the responder that sends nothing.
LEMMA ReturnKeptC ==
  ASSUME Inv, ReturnOK, conf'.len = conf.len, UNCHANGED <<mem, rd, rx, wire>>,
         \A p \in Reads : ctx'[p].ver = ctx[p].ver /\ (ctx'[p].refs > 0 => ctx[p].refs > 0),
         \A p \in Reads : work'[p] = work[p] \/ work'[p] \notin {"none", "queued"},
         \A p \in Reads : work[p] = "none" => work'[p] = "none",
         exp'.held \subseteq exp.held
  PROVE  ReturnOK'
<1>1. /\ wire' \in WireSet /\ wire'.req = wire.req
      /\ \A i \in 1..Len(wire'.data) : DataOK(wire'.data[i])
      /\ \A i \in 1..Len(wire'.stat) : StatOK(wire'.stat[i])
  BY TrueFrames, EnvFacts
<1> QED
  BY <1>1, ReturnKeptB

\* The response is put on the list.
LEMMA WorkQueueR ==
  ASSUME Inv, ReturnOK, NEW p \in Reads, WorkQueue(p)
  PROVE  ReturnOK'
<1> PICK c : c = ctx[p]
  OBVIOUS
<1> PICK d : d = [c EXCEPT !.on = TRUE, !.refs = @ + 1]
  OBVIOUS
<1>1. /\ work[p] = "queue" /\ work' = [work EXCEPT ![p] = "send"]
      /\ UNCHANGED <<conf, rd, rx, exp, mem, wire>>
  BY DEF WorkQueue
<1>2. ctx \in [Reads -> CtxRec] /\ c \in CtxRec /\ c.refs > 0 /\ work \in [Reads -> WorkStates]
  BY <1>1, CtxFacts
<1>3. ctx' = [ctx EXCEPT ![p] = d]
  BY <1>2 DEF WorkQueue
<1>4. d.ver = c.ver
  BY ONLY <1>2, d = [c EXCEPT !.on = TRUE, !.refs = @ + 1] DEF CtxRec
<1>5. \A q \in Reads : ctx'[q].ver = ctx[q].ver /\ (ctx'[q].refs > 0 => ctx[q].refs > 0)
  BY <1>2, <1>3, <1>4
<1>6. \A q \in Reads : /\ work'[q] = work[q] \/ work'[q] \notin {"none", "queued"}
                       /\ work[q] = "none" => work'[q] = "none"
  BY <1>1, <1>2
<1> QED
  BY <1>1, <1>5, <1>6, ReturnKeptC

\* The responses that have expired are dropped or taken for a retransmission.
LEMMA BTimerReapR ==
  ASSUME Inv, ReturnOK, NEW S \in SUBSET Reads, BTimerReap(S)
  PROVE  ReturnOK'
<1> PICK drop : drop = {p \in S : Doomed(p)}
  OBVIOUS
<1> PICK C : C = ctx'
  OBVIOUS
<1>1. UNCHANGED conf \/ Spend("slow")
  BY DEF BTimerReap
<1>2. /\ \A p \in Reads : p \in drop => C[p] = [ctx[p] EXCEPT !.on = FALSE, !.closing = TRUE]
      /\ \A p \in Reads : p \in S /\ p \notin drop => C[p] = [ctx[p] EXCEPT !.forced = FALSE, !.refs = @ + 1]
      /\ \A p \in Reads : p \notin S => C[p] = ctx[p]
      /\ \A p \in S : ctx[p].on
      /\ UNCHANGED <<rd, rx, exp, work, mem, wire>>
  BY DEF BTimerReap
<1>3. ASSUME NEW p \in Reads PROVE C[p].ver = ctx[p].ver /\ (C[p].refs > 0 => ctx[p].refs > 0)
  <2> PICK c : c = ctx[p]
    OBVIOUS
  <2>0. c \in CtxRec /\ (c.on => c.refs > 0)
    BY CtxFacts
  <2>1. CASE p \in drop
    <3>1. C[p] = [c EXCEPT !.on = FALSE, !.closing = TRUE]
      BY <1>2, <2>1
    <3> QED
      BY ONLY <2>0, <3>1, c = ctx[p] DEF CtxRec
  <2>2. CASE p \in S /\ p \notin drop
    <3>1. C[p] = [c EXCEPT !.forced = FALSE, !.refs = @ + 1] /\ c.refs > 0
      BY <1>2, <2>0, <2>2
    <3> QED
      BY ONLY <2>0, <3>1, c = ctx[p] DEF CtxRec
  <2> QED
    BY <1>2, <2>1, <2>2
<1>4. conf'.len = conf.len
  BY <1>1, SpendFacts
<1> QED
  BY <1>2, <1>3, <1>4, ReturnKeptC

\* The outcome of a retransmission is noted.
LEMMA BTimerNoteR ==
  ASSUME Inv, ReturnOK, BTimerNote
  PROVE  ReturnOK'
<1> PICK p : p = tb.cur
  OBVIOUS
<1> PICK c : c = ctx[p]
  OBVIOUS
<1> PICK n : n = Renoted(c)
  OBVIOUS
<1> PICK d : d = PutCtx(n)
  OBVIOUS
<1>1. /\ tb.pc = "note" /\ ctx' = [ctx EXCEPT ![p] = d]
      /\ UNCHANGED <<conf, rd, rx, exp, work, mem, wire>>
  BY DEF BTimerNote, Renoted
<1>2. p \in Reads /\ ctx \in [Reads -> CtxRec] /\ c \in CtxRec /\ c.refs > 0 /\ c.retries < MaxRetries
  BY <1>1, CtxFacts, TbFacts
<1>3. n \in CtxRec /\ n.refs = c.refs /\ n.ver = c.ver
  BY <1>2, RenotedFacts
<1>4. d.ver = c.ver
  BY ONLY <1>2, <1>3, d = PutCtx(n), PutCtxFacts
<1>5. \A q \in Reads : ctx'[q].ver = ctx[q].ver /\ (ctx'[q].refs > 0 => ctx[q].refs > 0)
  BY <1>1, <1>2, <1>4
<1> QED
  BY <1>1, <1>5, ReturnKeptC

\* The dropped responses are put, and fail the queue pair.
LEMMA BTimerEndR ==
  ASSUME Inv, ReturnOK, BTimerEnd
  PROVE  ReturnOK'
<1> DEFINE D0 == [p \in Reads |-> IF p \in tb.drop THEN PutCtx(ctx[p]) ELSE ctx[p]]
<1> PICK D : D = D0
  OBVIOUS
<1> PICK C : C = ctx'
  OBVIOUS
<1>1. /\ C = D \/ C = TakeAll(D)
      /\ exp'.held = exp.held \/ exp'.held = {}
      /\ UNCHANGED <<conf, rd, rx, work, mem, wire>>
  BY TbFacts DEF BTimerEnd
<1>2. D = [p \in Reads |-> D[p]] /\ \A p \in Reads : D[p] = IF p \in tb.drop THEN PutCtx(ctx[p]) ELSE ctx[p]
  OBVIOUS
<1> HIDE DEF D0
<1>3. ASSUME NEW p \in Reads
      PROVE  /\ D[p] \in CtxRec /\ D[p].ver = ctx[p].ver /\ (D[p].refs > 0 => ctx[p].refs > 0)
             /\ (D[p].on => D[p].refs > 0)
  <2> PICK c : c = ctx[p]
    OBVIOUS
  <2>0. c \in CtxRec /\ c.refs \in Nat /\ (c.on => c.refs > 0)
        /\ (p \in tb.drop => c.refs > 0) /\ (c.on /\ p \in tb.drop => c.refs > 1)
    BY CtxFacts
  <2>1. CASE p \in tb.drop
    <3>1. D[p] = PutCtx(c)
      BY <1>2, <2>1
    <3>2. PutCtx(c) \in CtxRec /\ PutCtx(c).refs = c.refs - 1 /\ PutCtx(c).on = c.on /\ PutCtx(c).ver = c.ver
      BY ONLY <2>0, <2>1, PutCtxFacts
    <3> QED
      BY <2>0, <2>1, <3>1, <3>2
  <2>2. CASE p \notin tb.drop
    BY <1>2, <2>0, <2>2
  <2> QED
    BY <2>1, <2>2
<1>4. D \in [Reads -> CtxRec]
  BY <1>2, <1>3
<1>5. \A p \in Reads : C[p].ver = ctx[p].ver /\ (C[p].refs > 0 => ctx[p].refs > 0)
  <2>1. \A p \in Reads : D[p].on => D[p].refs > 0
    BY <1>3
  <2>2. \A p \in Reads : TakeAll(D)[p].ver = D[p].ver /\ TakeAll(D)[p].refs = D[p].refs - B(D[p].on)
    BY ONLY <1>4, <2>1, TakeAllFacts
  <2>3. \A p \in Reads : D[p].refs \in Nat /\ B(D[p].on) \in {0, 1}
    BY <1>3 DEF CtxRec, B
  <2>4. \A p \in Reads : TakeAll(D)[p].refs > 0 => D[p].refs > 0
    BY ONLY <2>2, <2>3
  <2> QED
    BY <1>1, <1>3, <2>2, <2>4
<1> QED
  BY <1>1, <1>5, ReturnKeptC

\* The destruction flushes the reads, or cancels the responses.
LEMMA DestroyFlushR ==
  ASSUME Inv, ReturnOK, NEW e \in Ends, DestroyFlush(e)
  PROVE  ReturnOK'
<1>1. UNCHANGED <<conf, rx, exp, work, mem, wire>>
  BY DEF DestroyFlush
<1>2. CASE e = "a"
  <2>1. rd' = FlushReads(rd) /\ UNCHANGED ctx
    BY <1>2 DEF DestroyFlush, SetReads
  <2>2. \A q \in Reads : Goes(rd[q], rd'[q])
    BY <2>1, FlushGoes
  <2> QED
    BY <1>1, <2>1, <2>2, ReturnKeptA
<1>3. CASE e = "b"
  <2>1. ctx' = TakeAll(ctx) /\ UNCHANGED rd
    BY <1>3 DEF DestroyFlush
  <2>2. \A p \in Reads : ctx'[p].ver = ctx[p].ver /\ (ctx'[p].refs > 0 => ctx[p].refs > 0)
    <3>1. ctx \in [Reads -> CtxRec] /\ \A p \in Reads : ctx[p].on => ctx[p].refs > 0
      BY CtxFacts
    <3>2. \A p \in Reads : ctx'[p].ver = ctx[p].ver /\ ctx'[p].refs = ctx[p].refs - B(ctx[p].on)
      BY ONLY <2>1, <3>1, TakeAllFacts
    <3>3. \A p \in Reads : ctx[p].refs \in Nat /\ B(ctx[p].on) \in {0, 1}
      BY CtxFacts DEF B
    <3>4. \A p \in Reads : ctx'[p].refs > 0 => ctx[p].refs > 0
      BY ONLY <3>2, <3>3
    <3> QED
      BY <3>2, <3>4
  <2> QED
    BY <1>1, <2>1, <2>2, ReturnKeptC
<1> QED
  BY <1>2, <1>3 DEF Ends

\* The queue pair goes, with the requests that it has buffered.
LEMMA DestroyDoneR ==
  ASSUME Inv, ReturnOK, NEW e \in Ends, DestroyDone(e)
  PROVE  ReturnOK'
<1>1. /\ exp' = [exp EXCEPT !.held = IF e = "b" THEN {} ELSE @]
      /\ UNCHANGED <<conf, rd, rx, work, ctx, mem, wire>>
  BY DEF DestroyDone
<1>2. exp'.held \subseteq exp.held
  BY <1>1, TbFacts
<1> QED
  BY <1>1, <1>2, ReturnKeptC

\* A status frame is added.
LEMMA StatusSent ==
  ASSUME Inv, ReturnOK, NEW p \in Reads, NEW ok \in BOOLEAN, ok = TRUE => conf.len[p] = 0, ReadStatus(p, ok)
  PROVE  /\ wire' \in WireSet /\ wire'.req = wire.req
         /\ \A i \in 1..Len(wire'.data) : DataOK(wire'.data[i])
         /\ \A i \in 1..Len(wire'.stat) : StatOK(wire'.stat[i])
<1> PICK f : f = [psn |-> p, ok |-> ok]
  OBVIOUS
<1>1. f \in StatFrame /\ f.psn = p /\ f.ok = ok
  BY DEF StatFrame
<1>2. StatOK(f)
  BY <1>1 DEF StatOK
<1>3. wire' = [wire EXCEPT !["stat"] = Append(@, f)]
  BY DEF ReadStatus, Send
<1>4. wire' \in WireSet /\ wire'.req = wire.req
  BY <1>1, <1>3, WireFacts
<1>5. wire'.data = wire.data /\ wire'.stat = Append(wire.stat, f)
  BY <1>3, EnvFacts DEF WireSet
<1>6. \A i \in 1..Len(wire'.stat) : wire'.stat[i] = IF i \in 1..Len(wire.stat) THEN wire.stat[i] ELSE f
  BY <1>1, <1>5, TrueFrames, AppendProperties
<1> QED
  BY <1>2, <1>4, <1>5, <1>6, TrueFrames

\* A request is answered by a status.
LEMMA WorkStatusR ==
  ASSUME Inv, ReturnOK, NEW p \in Reads, WorkStatus(p)
  PROVE  ReturnOK'
<1> PICK ok \in BOOLEAN : ok = (p \notin conf.deny /\ conf.len[p] = 0)
  OBVIOUS
<1>1. /\ work[p] = "queued" /\ work' = [work EXCEPT ![p] = "done"] /\ ReadStatus(p, ok)
      /\ UNCHANGED <<conf, rd, rx, exp, ctx, mem>>
  BY DEF WorkStatus
<1>2. /\ wire' \in WireSet /\ wire'.req = wire.req
      /\ \A i \in 1..Len(wire'.data) : DataOK(wire'.data[i])
      /\ \A i \in 1..Len(wire'.stat) : StatOK(wire'.stat[i])
  BY <1>1, StatusSent
<1>3. \A q \in Reads : /\ work'[q] = work[q] \/ work'[q] \notin {"none", "queued"}
                       /\ work[q] = "none" => work'[q] = "none"
  BY <1>1, CtxFacts
<1> QED
  BY <1>1, <1>2, <1>3, ReturnKeptB

\* The fragments that are sent are those of the snapshot.
LEMMA ResponseSent ==
  ASSUME Inv, ReturnOK, NEW p \in Reads, ctx[p].refs > 0, p \in DOMAIN conf.len, NEW ret, SendResponse(p, ret)
  PROVE  /\ conf'.len = conf.len /\ wire' \in WireSet /\ wire'.req = wire.req
         /\ \A i \in 1..Len(wire'.data) : DataOK(wire'.data[i])
         /\ \A i \in 1..Len(wire'.stat) : StatOK(wire'.stat[i])
<1>1. conf'.len = conf.len /\ wire' \in WireSet /\ wire'.req = wire.req
  BY SendResponseFacts
<1>2. conf.len[p] \in Nat /\ ctx[p].ver > 0
  BY ConfFacts, CountFacts DEF ReturnOK, VerOK
<1>3. \E n \in 0..conf.len[p] : wire' = [wire EXCEPT !.data = @ \o Response(p, n)]
  <2>1. conf.len[p] \in 0..conf.len[p] /\ \A n \in 0..(conf.len[p] - 1) : n \in 0..conf.len[p]
    BY <1>2
  <2> QED
    BY <2>1 DEF SendResponse
<1> PICK n \in 0..conf.len[p] : wire' = [wire EXCEPT !.data = @ \o Response(p, n)]
  BY <1>3
<1> PICK s : s = Response(p, n)
  OBVIOUS
<1>4. s \in Seq(DataFrame) /\ Len(s) = n
  <2>1. s \in Seq(DataFrame)
    BY ResponseFacts
  <2>2. DOMAIN s = 1..n /\ n \in Nat
    BY <1>2 DEF Response
  <2> QED
    BY <2>1, <2>2, LenProperties
<1>5. \A i \in 1..Len(s) : s[i] \in DataFrame /\ DataOK(s[i])
  <2> TAKE i \in 1..Len(s)
  <2>1. s[i] = [psn |-> p, k |-> i - 1, ver |-> ctx[p].ver] /\ i - 1 < conf.len[p]
    BY <1>2, <1>4 DEF Response
  <2>2. s[i].psn = p /\ s[i].k < conf.len[p] /\ s[i].ver = ctx[p].ver
    BY <2>1
  <2>3. s[i] \in DataFrame
    BY <1>4
  <2> QED
    BY <1>2, <2>2, <2>3 DEF DataOK, Snapped
<1>6. wire'.data = wire.data \o s /\ wire'.stat = wire.stat
  BY EnvFacts DEF WireSet
<1> DEFINE TD == {f \in DataFrame : DataOK(f)}
<1> PICK T : T = TD
  OBVIOUS
<1>7. /\ \A i \in 1..Len(s) : s[i] \in T
      /\ \A i \in 1..Len(wire.data) : wire.data[i] \in T
      /\ \A f \in T : DataOK(f)
  <2>1. \A i \in 1..Len(wire.data) : wire.data[i] \in DataFrame
    BY TrueFrames
  <2> QED
    BY <1>5, <2>1, TrueFrames
<1> HIDE DEF TD
<1>8. \A i \in 1..Len(wire.data \o s) : (wire.data \o s)[i] \in T
  <2>1. wire.data \in Seq(DataFrame)
    BY TrueFrames
  <2> QED
    BY ONLY <1>4, <1>7, <2>1, QueueFacts
<1> QED
  BY <1>1, <1>6, <1>7, <1>8, TrueFrames

\* The work sends its response.
LEMMA WorkSendR ==
  ASSUME Inv, ReturnOK, NEW p \in Reads, WorkSend(p)
  PROVE  ReturnOK'
<1> PICK ret \in {"ok", "busy", "fail"} : SendResponse(p, ret) /\ work' = [work EXCEPT ![p] = ret]
  BY DEF WorkSend
<1>1. work[p] = "send" /\ UNCHANGED <<rd, rx, exp, ctx, mem>>
  BY DEF WorkSend
<1>2. ctx[p].refs > 0 /\ p \in DOMAIN conf.len
  BY <1>1, CtxFacts, EnvFacts
<1>3. /\ conf'.len = conf.len /\ wire' \in WireSet /\ wire'.req = wire.req
      /\ \A i \in 1..Len(wire'.data) : DataOK(wire'.data[i])
      /\ \A i \in 1..Len(wire'.stat) : StatOK(wire'.stat[i])
  BY <1>2, ResponseSent
<1>4. \A q \in Reads : /\ work'[q] = work[q] \/ work'[q] \notin {"none", "queued"}
                       /\ work[q] = "none" => work'[q] = "none"
  BY <1>1, CtxFacts
<1> QED
  BY <1>1, <1>3, <1>4, ReturnKeptB

\* The timer sends a response again.
LEMMA BTimerSendR ==
  ASSUME Inv, ReturnOK, NEW p \in Reads, BTimerSend(p)
  PROVE  ReturnOK'
<1>1. p \in tb.todo /\ UNCHANGED <<rd, rx, exp, work, ctx, mem>>
  BY DEF BTimerSend
<1>2. CASE UNCHANGED <<wire, conf>>
  BY <1>1, <1>2, ReturnKeptC
<1>3. ASSUME NEW ret, SendResponse(p, ret) PROVE ReturnOK'
  <2>1. ctx[p].refs > 0
    BY <1>1, CtxFacts
  <2>2. work[p] # "none"
    BY <2>1 DEF Inv, BOK, TimerOK
  <2>3. p \in DOMAIN conf.len
    BY <2>2, EnvFacts
  <2>4. /\ conf'.len = conf.len /\ wire' \in WireSet /\ wire'.req = wire.req
        /\ \A i \in 1..Len(wire'.data) : DataOK(wire'.data[i])
        /\ \A i \in 1..Len(wire'.stat) : StatOK(wire'.stat[i])
    BY <1>3, <2>1, <2>3, ResponseSent
  <2> QED
    BY <1>1, <2>4, ReturnKeptB
<1> QED
  BY <1>2, <1>3 DEF BTimerSend

\* The work notes the outcome; a failure is answered by a status frame.
LEMMA WorkNoteR ==
  ASSUME Inv, ReturnOK, NEW p \in Reads, WorkNote(p)
  PROVE  ReturnOK'
<1> PICK c, ret : c = ctx[p] /\ ret = work[p]
  OBVIOUS
<1> PICK n : n = Note(c, ret)
  OBVIOUS
<1> PICK d : d = PutCtx(n)
  OBVIOUS
<1>1. /\ ret \in {"ok", "busy", "fail"} /\ work' = [work EXCEPT ![p] = "done"]
      /\ ctx' = [ctx EXCEPT ![p] = d] /\ (ReadStatus(p, FALSE) \/ UNCHANGED wire)
      /\ UNCHANGED <<conf, rd, rx, exp, mem>>
  BY DEF WorkNote
<1>2. /\ ctx \in [Reads -> CtxRec] /\ c \in CtxRec /\ c.refs \in Nat /\ c.refs > 0
      /\ (c.on => c.refs > 0) /\ (c.on => c.refs > 1)
  BY <1>1, CtxFacts
<1>3. n \in CtxRec /\ n.ver = c.ver /\ (n.refs = c.refs \/ n.refs = (IF c.on THEN c.refs - 1 ELSE c.refs))
  BY ONLY <1>1, <1>2, n = Note(c, ret), NoteFacts
<1>4. n.refs > 0
  BY ONLY <1>2, <1>3
<1>5. d.ver = c.ver
  BY ONLY <1>3, <1>4, d = PutCtx(n), PutCtxFacts
<1>6. \A q \in Reads : ctx'[q].ver = ctx[q].ver /\ (ctx'[q].refs > 0 => ctx[q].refs > 0)
  BY <1>1, <1>2, <1>5
<1>7. \A q \in Reads : /\ work'[q] = work[q] \/ work'[q] \notin {"none", "queued"}
                       /\ work[q] = "none" => work'[q] = "none"
  BY <1>1, CtxFacts
<1>8. CASE UNCHANGED wire
  BY <1>1, <1>6, <1>7, <1>8, ReturnKeptC
<1>9. CASE ReadStatus(p, FALSE)
  <2>1. /\ wire' \in WireSet /\ wire'.req = wire.req
        /\ \A i \in 1..Len(wire'.data) : DataOK(wire'.data[i])
        /\ \A i \in 1..Len(wire'.stat) : StatOK(wire'.stat[i])
    BY <1>9, StatusSent
  <2> QED
    BY <1>1, <1>6, <1>7, <2>1, ReturnKeptB
<1> QED
  BY <1>1, <1>8, <1>9

\* A READ_ACK ends a response or asks for it again.
LEMMA AckArriveR ==
  ASSUME Inv, ReturnOK, AckArrive
  PROVE  ReturnOK'
<1> PICK p : p = Head(wire.ack).psn
  OBVIOUS
<1> PICK c : c = ctx[p]
  OBVIOUS
<1> PICK d : d = IF Head(wire.ack).code = "retry" THEN RetryResp(c) ELSE Take(c)
  OBVIOUS
<1>1. /\ wire["ack"] # <<>> /\ wire' = [wire EXCEPT !["ack"] = Tail(@)]
      /\ UNCHANGED ctx \/ (c.on /\ ctx' = [ctx EXCEPT ![p] = d])
      /\ UNCHANGED <<conf, rd, rx, exp, work, mem>>
  BY DEF AckArrive
<1>2. p \in Reads
  BY <1>1, HeadFacts DEF AckFrame
<1>3. ctx \in [Reads -> CtxRec] /\ c \in CtxRec /\ (c.on => c.refs > 0)
  BY <1>2, CtxFacts
<1>4. d.ver = c.ver
  <2>1. Take(c).ver = c.ver
    BY ONLY <1>3, TakeFacts
  <2>2. RetryResp(c).ver = c.ver
    BY ONLY <1>3 DEF RetryResp, CtxRec
  <2> QED
    BY <2>1, <2>2
<1>5. \A q \in Reads : ctx'[q].ver = ctx[q].ver /\ (ctx'[q].refs > 0 => ctx[q].refs > 0)
  BY <1>1, <1>2, <1>3, <1>4
<1>6. /\ wire' \in WireSet
      /\ \A i \in 1..Len(wire'.data) : DataOK(wire'.data[i])
      /\ \A i \in 1..Len(wire'.stat) : StatOK(wire'.stat[i])
  BY <1>1, TailFrames DEF Wires
<1>7. wire'.req = wire.req
  BY <1>1, EnvFacts DEF WireSet
<1> QED
  BY <1>1, <1>5, <1>6, <1>7, ReturnKeptB

\* A request arrives: it was posted, and no snapshot has been taken for it.
LEMMA ReqArriveR ==
  ASSUME Inv, ReturnOK, ReqArrive
  PROVE  ReturnOK'
<1> PICK p : p = Head(wire.req).psn
  OBVIOUS
<1> PICK turn : turn = {p} \cup Delivered(p)
  OBVIOUS
<1>1. /\ wire["req"] # <<>> /\ wire' = [wire EXCEPT !["req"] = Tail(@)]
      /\ UNCHANGED <<conf, rd, rx, ctx, mem>>
  BY DEF ReqArrive
<1>2. \/ UNCHANGED <<exp, work>>
      \/ /\ p = exp.psn /\ exp'.held = exp.held \ turn
         /\ work' = [q \in Reads |-> IF q \in turn THEN "queued" ELSE work[q]]
      \/ exp' = BufferReadReq(p) /\ UNCHANGED work
  BY DEF ReqArrive
<1>3. /\ wire' \in WireSet
      /\ \A i \in 1..Len(wire'.req) : rd[wire'.req[i].psn].pos # "none"
      /\ \A i \in 1..Len(wire'.data) : DataOK(wire'.data[i])
      /\ \A i \in 1..Len(wire'.stat) : StatOK(wire'.stat[i])
      /\ rd[p].pos # "none"
  BY <1>1, TailFrames DEF Wires
<1>4. p \in Reads
  BY <1>1, HeadFacts DEF ReqFrame
<1>5. \A q \in turn : q \in Reads /\ q >= p /\ rd[q].pos # "none"
  <2>1. \A q \in Delivered(p) : q \in exp.held /\ q > p /\ q \in Reads
    BY TbFacts DEF Delivered
  <2>2. \A q \in Reads : q \in Nat
    BY CountFacts DEF Reads
  <2> QED
    BY <1>3, <1>4, <2>1, <2>2 DEF ReturnOK, UnpostedOK
<1>6. \A q \in Reads : p = exp.psn /\ q \in turn => ~(ctx[q].ver > 0)
  BY <1>5 DEF Inv, BOK, TurnOK, ReturnOK, VerOK
<1>7. /\ \A q \in Reads : ctx[q].ver > 0 => work'[q] \notin {"none", "queued"}
      /\ \A q \in Reads : rd[q].pos = "none" => work'[q] = "none" /\ q \notin exp'.held
  <2>0. /\ \A q \in Reads : ctx[q].ver > 0 => work[q] \notin {"none", "queued"}
        /\ \A q \in Reads : rd[q].pos = "none" => work[q] = "none" /\ q \notin exp.held
    BY DEF ReturnOK, VerOK, UnpostedOK
  <2>1. CASE UNCHANGED <<exp, work>>
    BY <2>0, <2>1
  <2>2. CASE /\ p = exp.psn /\ exp'.held = exp.held \ turn
             /\ work' = [q \in Reads |-> IF q \in turn THEN "queued" ELSE work[q]]
    BY <1>5, <1>6, <2>0, <2>2
  <2>3. CASE exp' = BufferReadReq(p) /\ UNCHANGED work
    <3>1. exp'.held = exp.held \cup {p}
      BY <2>3, TbFacts DEF BufferReadReq
    <3> QED
      BY <1>3, <2>0, <2>3, <3>1
  <2> QED
    BY <1>2, <2>1, <2>2, <2>3
<1>8. /\ rx'.pc = "handle" => /\ rx'.f \in DataFrame => DataOK(rx'.f)
                              /\ rx'.f \in StatFrame => StatOK(rx'.f)
      /\ mem' \in Nat /\ mem <= mem'
  BY <1>1 DEF ReturnOK, FramesOK, Inv, EnvOK, EnvTypes
<1> QED
  BY <1>1, <1>3, <1>7, <1>8, SameGoes, ReturnKept

\* The snapshot is the first of its response: nothing of it is under way.
LEMMA WorkSnapshotR ==
  ASSUME Inv, ReturnOK, NEW p \in Reads, WorkSnapshot(p)
  PROVE  ReturnOK'
<1> PICK c : c = [NoCtx EXCEPT !.refs = 1, !.ver = mem]
  OBVIOUS
<1>1. /\ work[p] = "queued" /\ work' = [work EXCEPT ![p] = "queue"] /\ ctx' = [ctx EXCEPT ![p] = c]
      /\ UNCHANGED <<conf, rd, rx, exp, mem, wire>>
  BY DEF WorkSnapshot
<1>2. c.refs = 1 /\ c.ver = mem
  BY ONLY c = [NoCtx EXCEPT !.refs = 1, !.ver = mem] DEF NoCtx
<1>3. /\ ctx'[p] = c /\ \A q \in Reads : q # p => ctx'[q] = ctx[q]
      /\ work'[p] = "queue" /\ \A q \in Reads : q # p => work'[q] = work[q]
  BY <1>1, CtxFacts
<1>4. ~(ctx[p].ver > 0) /\ mem \in Nat /\ mem > 0
  BY <1>1 DEF ReturnOK, VerOK, Inv, EnvOK, EnvTypes
<1>5. \A q \in Reads : \A k, v : Snapped(q, k, v) => v = ctx'[q].ver /\ v > 0 /\ k < conf'.len[q]
  BY <1>1, <1>3, <1>4 DEF Snapped
<1>6. UnpostedOK'
  BY <1>1, <1>3 DEF ReturnOK, UnpostedOK
<1>7. ReqOK'
  BY <1>1 DEF ReturnOK, ReqOK
<1>8. VerOK'
  <2>1. rd[p].since <= mem /\ mem <= mem
    BY <1>4 DEF ReturnOK, VerOK
  <2> QED
    BY <1>1, <1>2, <1>3, <1>4, <2>1 DEF ReturnOK, VerOK
<1>9. FramesOK'
  <2>1. /\ \A i \in 1..Len(wire.data) : wire.data[i] \in DataFrame /\ DataOK(wire.data[i])
        /\ \A i \in 1..Len(wire.stat) : StatOK(wire.stat[i])
        /\ rx.pc = "handle" => (rx.f \in DataFrame => DataOK(rx.f)) /\ (rx.f \in StatFrame => StatOK(rx.f))
    <3>1. \A i \in 1..Len(wire.data) : wire.data[i] \in DataFrame
      BY TrueFrames
    <3> QED
      BY <3>1, TrueFrames DEF ReturnOK, FramesOK
  <2>2. \A f \in DataFrame : DataOK(f) => f.ver = ctx'[f.psn].ver /\ f.ver > 0 /\ f.k < conf'.len[f.psn]
    <3>1. \A f \in DataFrame : f.psn \in Reads
      BY DEF DataFrame
    <3> QED
      BY <1>5, <3>1 DEF DataOK
  <2> QED
    BY <1>1, <2>1, <2>2 DEF FramesOK, DataOK, StatOK, Snapped
<1>10. CopiesOK'
  <2>1. \A r \in Reads : \A k \in Ks : k < rd[r].got \/ k \in rd[r].buf => Snapped(r, k, rd[r].data[k])
    BY DEF ReturnOK, CopiesOK
  <2> QED
    BY <1>1, <1>5, <2>1 DEF CopiesOK, Snapped
<1>11. ResultOK' /\ OkInOrder'
  BY <1>1 DEF ReturnOK, ResultOK, OkInOrder
<1> QED
  BY <1>6, <1>7, <1>8, <1>9, <1>10, <1>11 DEF ReturnOK

\* The invariant of the results holds at the start ...
LEMMA InitReturn ==
  ASSUME Init
  PROVE  ReturnOK
<1>1. \A r \in Reads : rd[r] = NoRead /\ ctx[r] = NoCtx /\ work[r] = "none"
  BY DEF Init
<1>2. mem = 1 /\ exp.held = {} /\ wire.req = <<>> /\ wire.data = <<>> /\ wire.stat = <<>> /\ rx.pc = "idle"
  BY DEF Init, IdleRx
<1>3. /\ NoRead.pos = "none" /\ NoRead.res = "none" /\ NoRead.status = "none" /\ NoRead.got = 0
      /\ NoRead.buf = {} /\ NoRead.since = 0 /\ NoRead.ready = FALSE
      /\ NoCtx.ver = 0 /\ NoCtx.refs = 0
  BY DEF NoRead, NoCtx
<1>4. \A k \in Ks : ~(k < 0)
  BY CountFacts DEF Ks
<1>5. UnpostedOK /\ ReqOK /\ FramesOK
  BY <1>1, <1>2, <1>3 DEF UnpostedOK, ReqOK, FramesOK
<1>6. VerOK
  BY <1>1, <1>2, <1>3 DEF VerOK
<1>7. CopiesOK /\ ResultOK /\ OkInOrder
  BY <1>1, <1>3, <1>4 DEF CopiesOK, ResultOK, OkInOrder
<1> QED
  BY <1>5, <1>6, <1>7 DEF ReturnOK

\* ... every step keeps it ...
LEMMA NextReturn ==
  ASSUME Inv, ReturnOK, [Next /\ (PostRefused => rd[post.r].pos = "list")]_vars
  PROVE  ReturnOK'
<1>1. CASE PostReserve
  BY <1>1, PostReserveA, PostReserveR
<1>2. CASE Posting /\ (PostRefused => rd[post.r].pos = "list")
  BY <1>2, PostNoPathR, PostQueueR, PostSendR, PostRefusedR DEF Posting
<1>3. CASE Responses
  BY <1>3, RespHandleR, RespArriveR DEF Responses
<1>4. CASE TimeoutA
  <2>1. CASE TimeoutIdle
    BY <2>1, QuietR DEF TimeoutIdle
  <2> QED
    BY <1>4, <2>1, TimeoutReapR, TimeoutErrorR, TimeoutCompleteR DEF TimeoutA
<1>5. CASE ReqArrive
  BY <1>5, ReqArriveR
<1>6. CASE AckArrive
  BY <1>6, AckArriveR
<1>7. CASE TimeoutB
  <2>1. CASE BTimerIdle
    BY <2>1, QuietR DEF BTimerIdle
  <2> QED
    BY <1>7, <2>1, BTimerReapR, BTimerSendR, BTimerNoteR, BTimerEndR DEF TimeoutB
<1>8. ASSUME NEW r \in Reads, Transmit(r) \/ TxDone(r) \/ TxFails(r) PROVE ReturnOK'
  BY <1>8, TransmitR, TxDoneR, TxFailsR
<1>9. ASSUME NEW p \in Reads, Work(p) PROVE ReturnOK'
  BY <1>9, WorkStatusR, WorkSnapshotR, WorkQueueR, WorkSendR, WorkNoteR DEF Work
<1>10. CASE MemWrite
  BY <1>10, MemWriteR
<1>11. ASSUME NEW w \in Wires, Lose(w) PROVE ReturnOK'
  BY <1>11, LoseR
<1>12. ASSUME NEW e \in Ends, Destroy(e) PROVE ReturnOK'
  <2>1. CASE DestroyStart(e) \/ DestroyStop(e) \/ DestroyTimeout(e)
    BY <2>1, QuietR DEF DestroyStart, DestroyStop, DestroyTimeout
  <2> QED
    BY <1>12, <2>1, DestroyFlushR, DestroyDoneR DEF Destroy
<1>13. CASE UNCHANGED vars
  BY <1>13, QuietR DEF vars
<1> QED
  BY <1>1, <1>2, <1>3, <1>4, <1>5, <1>6, <1>7, <1>8, <1>9, <1>10, <1>11, <1>12, <1>13 DEF Next, Progress

\* ... and it says what the run checks.
LEMMA ReturnMeansRead ==
  ASSUME Inv, ReturnOK
  PROVE  OkMeansRead
<1>1. ASSUME NEW r \in Reads, rd[r].res = "ok", conf.len[r] > 0
      PROVE  \E v \in rd[r].since..mem : \A k \in Frags(r) : rd[r].data[k] = v
  <2>1. rd[r].pos # "none" /\ rd[r].got = conf.len[r]
    BY <1>1 DEF ReturnOK, UnpostedOK, ResultOK
  <2>2. conf.len[r] \in 0..MaxFrags /\ MaxFrags \in Nat
    BY <2>1, EnvFacts, ConfFacts, CountFacts
  <2>3. \A k \in Frags(r) : k \in Ks /\ k < rd[r].got
    BY <2>1, <2>2 DEF Frags, Ks
  <2>4. \A k \in Frags(r) : rd[r].data[k] = ctx[r].ver /\ rd[r].data[k] > 0
    BY <2>3 DEF ReturnOK, CopiesOK, Snapped
  <2>5. 0 \in Frags(r)
    BY <1>1, <2>2 DEF Frags
  <2>6. ctx[r].ver > 0
    BY <2>4, <2>5
  <2>7. rd[r].since <= ctx[r].ver /\ ctx[r].ver <= mem
    BY <2>6 DEF ReturnOK, VerOK
  <2>8. ctx[r].ver \in Int /\ rd[r].since \in Int /\ mem \in Int
    BY CtxFacts, ReadFacts DEF CtxRec, ReadRec, Inv, EnvOK, EnvTypes
  <2>9. ctx[r].ver \in rd[r].since..mem
    BY <2>7, <2>8
  <2> QED
    BY <2>4, <2>9
<1> QED
  BY <1>1 DEF OkMeansRead, OneSnapshot, ReturnOK

\* A read that completes without error holds all its fragments, of one state of
\* the peer's memory no older than the post, and everything posted before it is
\* settled or in the hands of the timeout work, whatever is lost, repeated,
\* delayed, written or destroyed meanwhile.
THEOREM OkMeansReadThm == Spec /\ RefusedInTime => []OkMeansRead
<1>1. Init => Inv /\ ReturnOK
  BY InitInv, InitReturn
<1>2. Inv /\ ReturnOK /\ [Next]_vars /\ [PostRefused => rd[post.r].pos = "list"]_vars => (Inv /\ ReturnOK)'
  BY NextInv, NextReturn
<1>3. Inv /\ ReturnOK => OkMeansRead
  BY ReturnMeansRead
<1> QED
  BY <1>1, <1>2, <1>3, PTL DEF Spec, RefusedInTime
=============================================================================
