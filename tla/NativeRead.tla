----------------------------- MODULE NativeRead -----------------------------
(***************************************************************************)
(* RDMA READ on a native queue pair (kernel/ibdev.c).  The requester "a"   *)
(* sends one request frame per read and never repeats it; the responder    *)
(* "b" takes the requests in PSN order, snapshots the memory, sends the    *)
(* fragments of the response and repeats them until it gets a READ_ACK or  *)
(* has no retries left.  Every context has a reference count and holds a   *)
(* reference on its queue pair, which a destroy waits for.                 *)
(*                                                                         *)
(* Reads are numbered by their PSN.  Data and control frames take separate *)
(* queues of a path; the path itself is in PathTx, SENDs and WRITEs are in *)
(* NativeTx and NativeRx.                                                  *)
(***************************************************************************)
EXTENDS Integers, Sequences, FiniteSets

CONSTANTS MaxReads,    \* largest number of reads of a scenario
          MaxFrags,    \* largest number of response fragments of a read
          Depth,       \* max_send_wr
          MaxRetries,  \* TBV_READ_RESP_MAX_RETRIES
          Confs        \* scenarios, see Conf

ASSUME ReadAssumption == MaxReads \in Nat /\ MaxFrags \in Nat /\ Depth \in Nat /\ MaxRetries \in Nat

Reads == 1..MaxReads
Ends == {"a", "b"}

\* len: the fragments of each read (0: an empty read); deny: reads of memory the
\* peer may not read; destroy: the ends that destroy their queue pair; lossy: the
\* frames that may be lost.  max bounds the lost frames, the timers that expire
\* while an answer is under way, the responses that find no room, the failing
\* paths and the changes of the memory, left is what remains of it.
Bounds == [lose : Nat, slow : Nat, busy : Nat, fails : Nat, writes : Nat]
Wires == {"req", "ack", "data", "stat"}
Conf == [len : UNION {[1..n -> 0..MaxFrags] : n \in 0..MaxReads}, deny : SUBSET Reads,
         destroy : SUBSET Ends, lossy : SUBSET Wires, max : Bounds, left : Bounds]
ASSUME ConfAssumption == Confs \subseteq Conf /\ \A c \in Confs : c.left = c.max

VARIABLES
  conf,  \* the scenario, with what is left of its bounds
  qp,    \* the queue pairs: state, closing, references, queued timeout_work
  rd,    \* struct tbv_read_ctx, by PSN
  slots, \* sendq_count
  post,  \* the thread in tbv_post_rdma_read()
  rx,    \* the requester's receive handler
  ta,    \* the requester's timeout_work
  exp,   \* rx_expected_psn, and the requests behind it in rx_reorder
  work,  \* read_req_work, by PSN
  ctx,   \* struct tbv_read_resp_ctx, by PSN
  tb,    \* the responder's timeout_work
  mem,   \* version of the responder's memory
  wire,  \* requests, READ_ACKs, response fragments and status frames under way
  user   \* destruction of the queue pairs

vars == <<conf, qp, rd, slots, post, rx, ta, exp, work, ctx, tb, mem, wire, user>>

Frags(r) == 0..(conf.len[r] - 1)
NoRead == [pos |-> "none", ready |-> FALSE, status |-> "none", armed |-> FALSE, tx |-> "none",
           got |-> 0, buf |-> {}, data |-> [k \in 0..(MaxFrags - 1) |-> 0], since |-> 0,
           slot |-> FALSE, refs |-> 0, res |-> "none"]
NoCtx == [on |-> FALSE, closing |-> FALSE, armed |-> FALSE, forced |-> FALSE, sent |-> FALSE,
          retries |-> 0, refs |-> 0, ver |-> 0]
IdlePost == [pc |-> "idle", r |-> 0]
IdleRx == [pc |-> "idle", r |-> 0, f |-> [psn |-> 0]]
IdleTb == [pc |-> "idle", todo |-> {}, drop |-> {}, cur |-> 0, was |-> FALSE, ret |-> "none",
           need |-> FALSE]

TypeOK ==
  /\ conf \in Conf
  /\ qp \in [Ends -> [st : {"rts", "err", "gone"}, closing : BOOLEAN, refs : Nat, tw : BOOLEAN]]
  /\ \A r \in Reads :
       /\ rd[r].pos \in {"none", "post", "list", "reap", "off"} /\ rd[r].refs \in Nat
       /\ rd[r].tx \in {"none", "queued", "sent"} /\ rd[r].got \in 0..MaxFrags
       /\ rd[r].res \in {"none", "ok", "error", "timeout", "flush", "rejected"}
       /\ ctx[r].refs \in Nat /\ ctx[r].retries \in 0..MaxRetries
       /\ work[r] \in {"none", "queued", "queue", "send", "ok", "busy", "fail", "done"}
  /\ slots \in 0..Depth
  /\ exp.psn \in 1..(MaxReads + 1) /\ exp.held \subseteq Reads

Init ==
  /\ conf \in Confs
  /\ qp = [e \in Ends |-> [st |-> "rts", closing |-> FALSE, refs |-> 1, tw |-> FALSE]]
  /\ rd = [r \in Reads |-> NoRead] /\ slots = 0
  /\ post = IdlePost /\ rx = IdleRx /\ ta = "idle"
  /\ exp = [psn |-> 1, held |-> {}]
  /\ work = [r \in Reads |-> "none"] /\ ctx = [r \in Reads |-> NoCtx] /\ tb = IdleTb
  /\ mem = 1
  /\ wire = [req |-> <<>>, ack |-> <<>>, data |-> <<>>, stat |-> <<>>]
  /\ user = [e \in Ends |-> "idle"]

-----------------------------------------------------------------------------
(* Helpers.                                                                *)

Spend(what) == conf.left[what] > 0 /\ conf' = [conf EXCEPT !.left[what] = @ - 1]
Schedule(e) == qp[e].tw \/ ~qp[e].closing
Receives(e) == qp[e].st = "rts" /\ ~qp[e].closing
\* Queue a frame; frames to a queue pair that is gone are dropped on arrival.
Send(w, f) == wire' = [wire EXCEPT ![w] = Append(@, f)]
Ack(r, code) == [psn |-> r, code |-> code]

\* The requester's contexts become R: the slots they gave back are free, and
\* the last reference on one takes its reference on the queue pair along.
Freed(R) == {r \in Reads : rd[r].refs > 0 /\ R[r].refs = 0}
SetReads(R) ==
  /\ rd' = R
  /\ slots' = slots - Cardinality({r \in Reads : rd[r].slot /\ ~R[r].slot})
QpAfter(R) == [qp EXCEPT !["a"].refs = @ - Cardinality(Freed(R))]

\* tbv_read_complete(): only the first completion counts.
Complete(c, res) == [c EXCEPT !.res = IF @ = "none" THEN res ELSE @]
PutRead(c) == [c EXCEPT !.refs = @ - 1]
\* tbv_cancel_read_ctx_packets(): a request that is still queued is released.
CancelTx(c) == IF c.tx = "queued" THEN PutRead([c EXCEPT !.tx = "none"]) ELSE c
\* tbv_qp_flush_reads() and the completions
FlushReads(R) ==
  [r \in Reads |-> IF R[r].pos = "list"
                   THEN PutRead(Complete(CancelTx([R[r] EXCEPT !.pos = "off", !.slot = FALSE]),
                                         "flush"))
                   ELSE R[r]]

-----------------------------------------------------------------------------
(* The requester: tbv_post_rdma_read().                                    *)

NextRead == Cardinality({r \in Reads : rd[r].pos # "none"}) + 1

\* tbv_qp_reserve_sendq()
ReserveSendq == Receives("a") /\ slots < Depth

\* tbv_qp_get_live(), tbv_qp_reserve_sendq(), the PSN
PostReserve ==
  /\ post = IdlePost /\ NextRead \in DOMAIN conf.len /\ ReserveSendq
  /\ post' = [pc |-> "queue", r |-> NextRead]
  /\ rd' = [rd EXCEPT ![NextRead] = [NoRead EXCEPT !.pos = "post", !.slot = TRUE, !.refs = 1,
                                                   !.since = mem]]
  /\ slots' = slots + 1
  /\ qp' = [qp EXCEPT !["a"].refs = @ + 1]
  /\ UNCHANGED <<conf, rx, ta, exp, work, ctx, tb, mem, wire, user>>

\* No path: the post is rejected, its PSN is used up.
PostNoPath ==
  /\ post.pc = "queue" /\ Spend("fails") /\ post' = IdlePost
  /\ LET R == [rd EXCEPT ![post.r] = PutRead([@ EXCEPT !.pos = "off", !.slot = FALSE,
                                                       !.res = "rejected"])]
     IN SetReads(R) /\ qp' = QpAfter(R)
  /\ UNCHANGED <<rx, ta, exp, work, ctx, tb, mem, wire, user>>

\* tbv_qp_queue_read(), and a reference for the transmission
PostQueue ==
  /\ post.pc = "queue" /\ post' = [post EXCEPT !.pc = "send"]
  /\ rd' = [rd EXCEPT ![post.r].pos = "list", ![post.r].refs = @ + 1]
  /\ UNCHANGED <<conf, qp, slots, rx, ta, exp, work, ctx, tb, mem, wire, user>>

PostSend ==
  /\ post.pc = "send" /\ post' = IdlePost
  /\ rd' = [rd EXCEPT ![post.r].tx = "queued"]
  /\ UNCHANGED <<conf, qp, slots, rx, ta, exp, work, ctx, tb, mem, wire, user>>

\* The path refuses: both references are given back, whether the read was
\* still on the list or a flush has taken it, and its reference, already.
PostRefused ==
  /\ post.pc = "send" /\ Spend("fails") /\ post' = IdlePost
  /\ LET c == [rd[post.r] EXCEPT !.pos = "off", !.slot = FALSE, !.refs = @ - 2]
         R == [rd EXCEPT ![post.r] = Complete(c, "rejected")]
     IN SetReads(R) /\ qp' = QpAfter(R)
  /\ UNCHANGED <<rx, ta, exp, work, ctx, tb, mem, wire, user>>

\* The request goes out (it may be lost).
Transmit(r) ==
  /\ rd[r].tx = "queued" /\ rd' = [rd EXCEPT ![r].tx = "sent"]
  /\ Send("req", [psn |-> r])
  /\ UNCHANGED <<conf, qp, slots, post, rx, ta, exp, work, ctx, tb, mem, user>>

\* Variant: the timer of the read is not armed.
TxDoneUnarmed(r) ==
  /\ rd[r].tx = "sent"
  /\ LET R == [rd EXCEPT ![r] = PutRead([@ EXCEPT !.tx = "none"])]
     IN SetReads(R) /\ qp' = QpAfter(R)
  /\ UNCHANGED <<conf, post, rx, ta, exp, work, ctx, tb, mem, wire, user>>

\* tbv_read_tx_done(): arms the timer of a read that still waits.
TxDone(r) ==
  /\ rd[r].tx = "sent"
  /\ LET wait == rd[r].pos = "list"
         c == [rd[r] EXCEPT !.tx = "none", !.armed = @ \/ wait]
         R == [rd EXCEPT ![r] = PutRead(c)]
     IN SetReads(R) /\ qp' = [QpAfter(R) EXCEPT !["a"].tw = IF wait THEN Schedule("a") ELSE @]
  /\ UNCHANGED <<conf, post, rx, ta, exp, work, ctx, tb, mem, wire, user>>

\* ... with an error: the read is completed at once, whatever its place.
TxFails(r) ==
  /\ rd[r].tx = "queued" /\ Spend("fails")
  /\ LET c == PutRead([rd[r] EXCEPT !.tx = "none"])
         R == [rd EXCEPT ![r] = IF c.pos = "list"
                                THEN PutRead(Complete([c EXCEPT !.pos = "off", !.slot = FALSE],
                                                      "error"))
                                ELSE c]
     IN SetReads(R) /\ qp' = QpAfter(R)
  /\ UNCHANGED <<post, rx, ta, exp, work, ctx, tb, mem, wire, user>>

-----------------------------------------------------------------------------
(* The requester: tbv_rx_handle_rdma_read_resp().                          *)

\* tbv_qp_complete_read_ordered(): the ready reads at the head of the list.
CompleteOrdered(R, r, status) ==
  IF R[r].pos # "list" THEN R
  ELSE LET M == IF R[r].ready THEN R
                ELSE [R EXCEPT ![r].ready = TRUE, ![r].status = status]
           head == {q \in Reads : M[q].pos = "list" /\
                      \A p \in 1..q : M[p].pos = "list" => M[p].ready}
       IN [q \in Reads |->
             IF q \in head
             THEN PutRead(Complete([M[q] EXCEPT !.pos = "off", !.slot = FALSE], M[q].status))
             ELSE M[q]]

\* The frame is looked up: a read that is not pending is acknowledged again.
RespArrive(w) ==
  /\ w \in {"data", "stat"} /\ wire[w] # <<>> /\ rx = IdleRx
  /\ LET f == Head(wire[w])
         r == f.psn
         rest == [wire EXCEPT ![w] = Tail(@)]
     IN IF ~Receives("a") THEN wire' = rest /\ UNCHANGED <<rx, rd, qp>>
        ELSE IF rd[r].pos = "list"
        THEN /\ wire' = rest /\ rx' = [pc |-> "handle", r |-> r, f |-> f]
             /\ rd' = [rd EXCEPT ![r].refs = @ + 1]
             /\ qp' = [qp EXCEPT !["a"].refs = @ + 1]
        ELSE /\ wire' = [rest EXCEPT !.ack = Append(@, Ack(r, "ok"))]
             /\ UNCHANGED <<rx, rd, qp>>
  /\ UNCHANGED <<conf, slots, post, ta, exp, work, ctx, tb, mem, user>>

\* tbv_read_resp_drain_frags_locked(): the fragments in front.
Contiguous(c) == CHOOSE n \in c.got..MaxFrags :
                   (\A k \in c.got..(n - 1) : k \in c.buf) /\ n \notin c.buf
Copied(c, f) ==
  LET d == [c EXCEPT !.got = @ + 1, !.data[f.k] = f.ver]
  IN [d EXCEPT !.got = Contiguous(d), !.buf = @ \ 0..(Contiguous(d) - 1)]

\* Under read->data_lock.
RespHandle ==
  /\ rx.pc = "handle" /\ rx' = IdleRx
  /\ LET r == rx.r
         f == rx.f
         c == rd[r]
         status == "ok" \in DOMAIN f
         late == ~status /\ f.k < c.got
         gap == ~status /\ f.k > c.got
         next == IF status THEN c
                 ELSE IF late THEN c
                 ELSE IF gap THEN [c EXCEPT !.buf = @ \cup {f.k}, !.data[f.k] = f.ver]
                 ELSE Copied(c, f)
         done == IF status THEN TRUE ELSE ~late /\ ~gap /\ next.got = conf.len[r]
         bad == status /\ ~f.ok
         R == IF done THEN CompleteOrdered([rd EXCEPT ![r] = next], r, IF bad THEN "error" ELSE "ok")
              ELSE [rd EXCEPT ![r] = next]
         P == [R EXCEPT ![r] = PutRead(@)]
     IN /\ SetReads(P) /\ qp' = [QpAfter(P) EXCEPT !["a"].refs = @ - 1]
        /\ IF done THEN Send("ack", Ack(r, IF bad THEN "error" ELSE "ok"))
           ELSE IF gap THEN Send("ack", Ack(r, "retry")) ELSE UNCHANGED wire
  /\ UNCHANGED <<conf, post, ta, exp, work, ctx, tb, mem, user>>

-----------------------------------------------------------------------------
(* The requester: tbv_qp_timeout_work().                                   *)

InFlight(r) ==
  \/ \E w \in DOMAIN wire : \E i \in DOMAIN wire[w] : wire[w][i].psn = r
  \/ rx.pc = "handle" /\ rx.r = r
\* Nothing will answer the read any more.
Hopeless(r) ==
  /\ rd[r].tx = "none" /\ ~InFlight(r) /\ work[r] \in {"none", "done"} /\ ~ctx[r].on
  /\ r \in exp.held => wire.req = <<>> /\ post = IdlePost /\ \A q \in Reads : rd[q].tx # "queued"

Waiting == {r \in Reads : rd[r].pos = "list" /\ ~rd[r].ready /\ rd[r].armed}
\* tbv_qp_timeout_reap_tx(): the reads that have expired leave the list.
Reap(S) ==
  [r \in Reads |-> IF r \in S THEN [rd[r] EXCEPT !.pos = "reap", !.slot = FALSE] ELSE rd[r]]
TimeoutReap ==
  /\ ta = "idle" /\ qp["a"].tw /\ ta' = "error"
  /\ \E S \in SUBSET Waiting \ {{}} :
       /\ IF \A r \in S : Hopeless(r) THEN UNCHANGED conf ELSE Spend("slow")
       /\ SetReads(Reap(S))
  /\ qp' = [qp EXCEPT !["a"].tw = FALSE]
  /\ UNCHANGED <<post, rx, exp, work, ctx, tb, mem, wire, user>>

\* A scan that finds nothing on the list is the last one.
TimeoutIdle ==
  /\ ta = "idle" /\ qp["a"].tw /\ \A r \in Reads : rd[r].pos # "list"
  /\ qp' = [qp EXCEPT !["a"].tw = FALSE]
  /\ UNCHANGED <<conf, rd, slots, post, rx, ta, exp, work, ctx, tb, mem, wire, user>>

\* tbv_qp_mark_error(): the queue pair fails before its reads complete.
TimeoutError ==
  /\ ta = "error" /\ ta' = "complete"
  /\ IF Receives("a")
     THEN LET R == FlushReads(rd)
          IN SetReads(R) /\ qp' = [QpAfter(R) EXCEPT !["a"].st = "err"]
     ELSE UNCHANGED <<rd, slots, qp>>
  /\ UNCHANGED <<conf, post, rx, exp, work, ctx, tb, mem, wire, user>>

TimeoutComplete ==
  /\ ta = "complete" /\ ta' = "idle"
  /\ LET R == [r \in Reads |-> IF rd[r].pos = "reap"
                               THEN PutRead(Complete(CancelTx([rd[r] EXCEPT !.pos = "off"]), "timeout"))
                               ELSE rd[r]]
     IN SetReads(R) /\ qp' = QpAfter(R)
  /\ UNCHANGED <<conf, post, rx, exp, work, ctx, tb, mem, wire, user>>

-----------------------------------------------------------------------------
(* The responder: the request and its work.                                *)

\* tbv_rx_buffer_read_req_locked(): the window is never full, no request is
\* repeated.
BufferReadReq(p) == [exp EXCEPT !.held = @ \cup {p}]
\* tbv_rx_deliver_reorder_read_req_locked(): the buffered requests p makes room for.
Delivered(p) == {q \in exp.held : q > p /\ (p + 1)..q \subseteq exp.held}

\* tbv_rx_handle_rdma_read_req(): a request ahead of its turn is buffered, one
\* in turn is queued to the workqueue with those that follow it.
ReqArrive ==
  /\ wire.req # <<>> /\ wire' = [wire EXCEPT !.req = Tail(@)]
  /\ LET p == Head(wire.req).psn
         turn == {p} \cup Delivered(p)
     IN IF ~Receives("b") THEN UNCHANGED <<exp, work, qp>>
        ELSE IF p = exp.psn
        THEN /\ exp' = [psn |-> p + Cardinality(turn), held |-> exp.held \ turn]
             /\ work' = [q \in Reads |-> IF q \in turn THEN "queued" ELSE work[q]]
             /\ qp' = [qp EXCEPT !["b"].refs = @ + Cardinality(turn)]
        ELSE /\ exp' = BufferReadReq(p)
             /\ qp' = [qp EXCEPT !["b"].tw = Schedule("b")]
             /\ UNCHANGED work
  /\ UNCHANGED <<conf, rd, slots, post, rx, ta, ctx, tb, mem, user>>

\* The responder's contexts become C.
QpOf(C) == [qp EXCEPT !["b"].refs = @ - Cardinality({p \in Reads : ctx[p].refs > 0 /\ C[p].refs = 0})]
PutCtx(c) == [c EXCEPT !.refs = @ - 1]
\* tbv_qp_take_read_resp(), and the put of the list's reference
Take(c) == IF c.on THEN PutCtx([c EXCEPT !.on = FALSE, !.closing = TRUE]) ELSE c
TakeAll(C) == [p \in Reads |-> Take(C[p])]
Response(p, n) == [k \in 1..n |-> [psn |-> p, k |-> k - 1, ver |-> ctx[p].ver]]

\* tbv_send_read_status_on_path()
ReadStatus(p, ok) == Send("stat", [psn |-> p, ok |-> ok])

\* tbv_read_req_workfn(): answered by a status frame at once ...
WorkStatus(p) ==
  /\ work[p] = "queued" /\ work' = [work EXCEPT ![p] = "done"]
  /\ p \in conf.deny \/ conf.len[p] = 0 \/ qp["b"].closing
  /\ ReadStatus(p, p \notin conf.deny /\ conf.len[p] = 0)
  /\ qp' = [qp EXCEPT !["b"].refs = @ - 1]
  /\ UNCHANGED <<conf, rd, slots, post, rx, ta, exp, ctx, tb, mem, user>>

\* ... or tbv_read_resp_ctx_alloc(): the memory is copied.
WorkSnapshot(p) ==
  /\ work[p] = "queued" /\ p \notin conf.deny /\ conf.len[p] > 0 /\ ~qp["b"].closing
  /\ work' = [work EXCEPT ![p] = "queue"]
  /\ ctx' = [ctx EXCEPT ![p] = [NoCtx EXCEPT !.refs = 1, !.ver = mem]]
  /\ qp' = [qp EXCEPT !["b"].refs = @ + 1]
  /\ UNCHANGED <<conf, rd, slots, post, rx, ta, exp, tb, mem, wire, user>>

\* tbv_qp_queue_read_resp()
WorkQueue(p) ==
  /\ work[p] = "queue" /\ work' = [work EXCEPT ![p] = "send"]
  /\ ctx' = [ctx EXCEPT ![p].on = TRUE, ![p].refs = @ + 1]
  /\ UNCHANGED <<conf, qp, rd, slots, post, rx, ta, exp, tb, mem, wire, user>>

\* tbv_send_read_response_ctx(): all fragments, or an error after the first n.
SendResponse(p, ret) ==
  \/ /\ ret = "ok" /\ UNCHANGED conf
     /\ wire' = [wire EXCEPT !.data = @ \o Response(p, conf.len[p])]
  \/ \E n \in 0..(conf.len[p] - 1) :
       /\ (ret = "busy" /\ Spend("busy")) \/ (ret = "fail" /\ Spend("fails"))
       /\ wire' = [wire EXCEPT !.data = @ \o Response(p, n)]

WorkSend(p) ==
  /\ work[p] = "send"
  /\ \E ret \in {"ok", "busy", "fail"} : SendResponse(p, ret) /\ work' = [work EXCEPT ![p] = ret]
  /\ UNCHANGED <<qp, rd, slots, post, rx, ta, exp, ctx, tb, mem, user>>

\* Variant: a response that found no room does not arm the timer.
NoteBusyUnarmed(c, ret) ==
  CASE ret = "ok" -> IF c.on /\ ~c.closing THEN [c EXCEPT !.sent = TRUE, !.armed = TRUE] ELSE c
    [] ret = "busy" -> c
    [] ret = "fail" -> Take(c)
\* tbv_qp_note_read_resp_sent(), tbv_qp_arm_read_resp_timeout() or take
Note(c, ret) ==
  CASE ret = "ok" -> IF c.on /\ ~c.closing THEN [c EXCEPT !.sent = TRUE, !.armed = TRUE] ELSE c
    [] ret = "busy" -> IF c.on THEN [c EXCEPT !.armed = TRUE] ELSE c
    [] ret = "fail" -> Take(c)

\* Variant: the worker keeps its reference on a response that failed.
WorkNoteKeeps(p) ==
  /\ work[p] \in {"ok", "busy", "fail"} /\ work' = [work EXCEPT ![p] = "done"]
  /\ LET c == Note(ctx[p], work[p])
         C == [ctx EXCEPT ![p] = IF work[p] = "fail" THEN c ELSE PutCtx(c)]
     IN /\ ctx' = C
        /\ qp' = [QpOf(C) EXCEPT !["b"].refs = @ - 1,
                                 !["b"].tw = IF c.on /\ c.armed THEN Schedule("b") ELSE @]
  /\ IF work[p] = "fail" THEN ReadStatus(p, FALSE) ELSE UNCHANGED wire
  /\ UNCHANGED <<conf, rd, slots, post, rx, ta, exp, tb, mem, user>>

WorkNote(p) ==
  /\ work[p] \in {"ok", "busy", "fail"} /\ work' = [work EXCEPT ![p] = "done"]
  /\ LET c == Note(ctx[p], work[p])
         C == [ctx EXCEPT ![p] = PutCtx(c)]
     IN /\ ctx' = C
        /\ qp' = [QpOf(C) EXCEPT !["b"].refs = @ - 1,
                                 !["b"].tw = IF c.on /\ c.armed THEN Schedule("b") ELSE @]
  /\ IF work[p] = "fail" THEN ReadStatus(p, FALSE) ELSE UNCHANGED wire
  /\ UNCHANGED <<conf, rd, slots, post, rx, ta, exp, tb, mem, user>>

\* tbv_qp_retry_read_resp()
RetryResp(c) == [c EXCEPT !.armed = TRUE, !.forced = TRUE]

\* READ_ACK: RETRY expires the timer at once, anything else ends the response.
AckArrive ==
  /\ wire.ack # <<>> /\ wire' = [wire EXCEPT !.ack = Tail(@)]
  /\ LET a == Head(wire.ack)
         c == ctx[a.psn]
         again == a.code = "retry"
         C == [ctx EXCEPT ![a.psn] = IF again THEN RetryResp(c) ELSE Take(c)]
     IN IF ~Receives("b") \/ ~c.on THEN UNCHANGED <<ctx, qp>>
        ELSE /\ ctx' = C
             /\ qp' = [QpOf(C) EXCEPT !["b"].tw = @ \/ again]
  /\ UNCHANGED <<conf, rd, slots, post, rx, ta, exp, work, tb, mem, user>>

-----------------------------------------------------------------------------
(* The responder: tbv_qp_timeout_work().                                   *)

Doomed(p) == ctx[p].retries >= MaxRetries \/ ~Receives("b")

\* tbv_qp_timeout_reap_read_resps(): S has expired.
BTimerReap(S) ==
  /\ tb.pc = "idle" /\ qp["b"].tw /\ S # {}
  /\ S \subseteq {p \in Reads : ctx[p].on /\ ctx[p].armed}
  /\ IF \A p \in S : ctx[p].forced \/ ~InFlight(p) THEN UNCHANGED conf ELSE Spend("slow")
  /\ LET drop == {p \in S : Doomed(p)}
     IN /\ ctx' = [p \in Reads |-> IF p \in drop THEN [ctx[p] EXCEPT !.on = FALSE, !.closing = TRUE]
                                   ELSE IF p \in S THEN [ctx[p] EXCEPT !.forced = FALSE, !.refs = @ + 1]
                                   ELSE ctx[p]]
        /\ tb' = [IdleTb EXCEPT !.pc = "send", !.todo = S \ drop, !.drop = drop,
                                !.need = \E p \in Reads \ drop : ctx[p].on]
  /\ qp' = [qp EXCEPT !["b"].tw = FALSE]
  /\ UNCHANGED <<rd, slots, post, rx, ta, exp, work, mem, wire, user>>

\* Variant: the memory is read again for a retransmission.
BTimerSendRereads(p) ==
  /\ tb.pc = "send" /\ p \in tb.todo
  /\ IF ctx[p].closing THEN UNCHANGED wire
     ELSE wire' = [wire EXCEPT !.data =
            @ \o [k \in 1..conf.len[p] |-> [psn |-> p, k |-> k - 1, ver |-> mem]]]
  /\ tb' = [tb EXCEPT !.pc = "note", !.todo = @ \ {p}, !.cur = p, !.was = ctx[p].sent, !.ret = "ok"]
  /\ UNCHANGED <<conf, qp, rd, slots, post, rx, ta, exp, work, ctx, mem, user>>

\* The response is sent again, from its snapshot, unless it has ended.
BTimerSend(p) ==
  /\ tb.pc = "send" /\ p \in tb.todo
  /\ \E ret \in {"ok", "busy", "fail"} :
       /\ IF ctx[p].closing THEN ret = "ok" /\ UNCHANGED <<wire, conf>> ELSE SendResponse(p, ret)
       /\ tb' = [tb EXCEPT !.pc = "note", !.todo = @ \ {p}, !.cur = p, !.was = ctx[p].sent,
                           !.ret = ret]
  /\ UNCHANGED <<qp, rd, slots, post, rx, ta, exp, work, ctx, mem, user>>

BTimerNote ==
  /\ tb.pc = "note"
  /\ LET c == ctx[tb.cur]
         n == IF c.closing THEN c
              ELSE [c EXCEPT !.armed = TRUE, !.forced = FALSE, !.sent = @ \/ tb.ret = "ok",
                             !.retries = IF (tb.ret = "ok" /\ tb.was) \/ tb.ret = "fail"
                                         THEN @ + 1 ELSE @]
         C == [ctx EXCEPT ![tb.cur] = PutCtx(n)]
     IN /\ ctx' = C /\ qp' = QpOf(C)
        /\ tb' = [tb EXCEPT !.pc = "send", !.cur = 0, !.ret = "none", !.was = FALSE,
                            !.need = @ \/ ~c.closing]
  /\ UNCHANGED <<conf, rd, slots, post, rx, ta, exp, work, mem, wire, user>>

\* The responses dropped fail the queue pair (tbv_qp_mark_error()).
BTimerEnd ==
  /\ tb.pc = "send" /\ tb.todo = {} /\ tb' = IdleTb
  /\ LET D == [p \in Reads |-> IF p \in tb.drop THEN PutCtx(ctx[p]) ELSE ctx[p]]
         err == tb.drop # {} /\ Receives("b")
         C == IF err THEN TakeAll(D) ELSE D
         held == IF err THEN {} ELSE exp.held
     IN /\ ctx' = C /\ exp' = [exp EXCEPT !.held = held]
        /\ qp' = [QpOf(C) EXCEPT !["b"].st = IF err THEN "err" ELSE @,
                                 !["b"].tw = IF tb.need \/ held # {} THEN Schedule("b") ELSE @]
  /\ UNCHANGED <<conf, rd, slots, post, rx, ta, work, mem, wire, user>>

\* A scan that finds nothing to wait for is the last one.
BTimerIdle ==
  /\ tb.pc = "idle" /\ qp["b"].tw /\ exp.held = {} /\ \A p \in Reads : ~ctx[p].on
  /\ qp' = [qp EXCEPT !["b"].tw = FALSE]
  /\ UNCHANGED <<conf, rd, slots, post, rx, ta, exp, work, ctx, tb, mem, wire, user>>

-----------------------------------------------------------------------------
(* The environment: lost frames, the application that writes the memory.   *)

Lose(w) ==
  /\ w \in conf.lossy /\ wire[w] # <<>> /\ Spend("lose")
  /\ wire' = [wire EXCEPT ![w] = Tail(@)]
  /\ UNCHANGED <<qp, rd, slots, post, rx, ta, exp, work, ctx, tb, mem, user>>

MemWrite ==
  /\ Spend("writes") /\ mem' = mem + 1
  /\ UNCHANGED <<qp, rd, slots, post, rx, ta, exp, work, ctx, tb, wire, user>>

-----------------------------------------------------------------------------
(* tbv_destroy_qp() of a native queue pair.                                *)

DestroyStart(e) ==
  /\ user[e] = "idle" /\ e \in conf.destroy /\ qp[e].st # "gone" /\ (e = "a" => post = IdlePost)
  /\ user' = [user EXCEPT ![e] = "stop"]
  /\ qp' = [qp EXCEPT ![e].closing = TRUE]
  /\ UNCHANGED <<conf, rd, slots, post, rx, ta, exp, work, ctx, tb, mem, wire>>

\* cancel_delayed_work_sync()
DestroyStop(e) ==
  /\ user[e] = "stop" /\ IF e = "a" THEN ta = "idle" ELSE tb.pc = "idle"
  /\ user' = [user EXCEPT ![e] = "flush"]
  /\ qp' = [qp EXCEPT ![e].tw = FALSE]
  /\ UNCHANGED <<conf, rd, slots, post, rx, ta, exp, work, ctx, tb, mem, wire>>

\* Variant: the responses of the peer's reads are not cancelled.
DestroyFlushReadsOnly(e) ==
  /\ user[e] = "flush" /\ user' = [user EXCEPT ![e] = "wait"]
  /\ IF e = "a" THEN SetReads(FlushReads(rd)) /\ qp' = QpAfter(FlushReads(rd)) /\ UNCHANGED ctx
     ELSE UNCHANGED <<rd, slots, qp, ctx>>
  /\ UNCHANGED <<conf, post, rx, ta, exp, work, tb, mem, wire>>

\* tbv_qp_stop_producers(), after the works
DestroyFlush(e) ==
  /\ user[e] = "flush" /\ user' = [user EXCEPT ![e] = "wait"]
  /\ IF e = "a" THEN SetReads(FlushReads(rd)) /\ qp' = QpAfter(FlushReads(rd)) /\ UNCHANGED ctx
     ELSE ctx' = TakeAll(ctx) /\ qp' = QpOf(TakeAll(ctx)) /\ UNCHANGED <<rd, slots>>
  /\ UNCHANGED <<conf, post, rx, ta, exp, work, tb, mem, wire>>

\* tbv_qp_wait_refs(): the last user has left ...
DestroyDone(e) ==
  /\ user[e] = "wait" /\ qp[e].refs = 1 /\ user' = [user EXCEPT ![e] = "idle"]
  /\ qp' = [qp EXCEPT ![e].st = "gone", ![e].refs = 0]
  /\ exp' = [exp EXCEPT !.held = IF e = "b" THEN {} ELSE @]
  /\ UNCHANGED <<conf, rd, slots, post, rx, ta, work, ctx, tb, mem, wire>>

\* ... or -ETIMEDOUT: the caller tries again.
DestroyTimeout(e) ==
  /\ user[e] = "wait" /\ qp[e].refs > 1 /\ user' = [user EXCEPT ![e] = "idle"]
  /\ UNCHANGED <<conf, qp, rd, slots, post, rx, ta, exp, work, ctx, tb, mem, wire>>

Destroy(e) == DestroyStart(e) \/ DestroyStop(e) \/ DestroyFlush(e) \/ DestroyDone(e) \/ DestroyTimeout(e)

-----------------------------------------------------------------------------

Posting == PostNoPath \/ PostQueue \/ PostSend \/ PostRefused
Responses == RespHandle \/ \E w \in {"data", "stat"} : RespArrive(w)
TimeoutA == TimeoutReap \/ TimeoutIdle \/ TimeoutError \/ TimeoutComplete
Work(p) == WorkStatus(p) \/ WorkSnapshot(p) \/ WorkQueue(p) \/ WorkSend(p) \/ WorkNote(p)
TimeoutB == (\E S \in SUBSET Reads : BTimerReap(S)) \/ (\E p \in Reads : BTimerSend(p))
            \/ BTimerNote \/ BTimerEnd \/ BTimerIdle

\* Steps of threads that have started, of frames, queued works and timers.
Progress ==
  \/ Posting \/ Responses \/ TimeoutA \/ ReqArrive \/ AckArrive \/ TimeoutB
  \/ \E r \in Reads : Transmit(r) \/ TxDone(r) \/ Work(r)

Next ==
  \/ PostReserve \/ Progress \/ MemWrite
  \/ \E r \in Reads : TxFails(r)
  \/ \E w \in Wires : Lose(w)
  \/ \E e \in Ends : Destroy(e)

Spec == Init /\ [][Next]_vars

\* Those go on, and a destroy that timed out is tried again.
Fairness == WF_vars(Progress) /\ WF_vars(\E e \in Ends : Destroy(e))

FairSpec == Spec /\ Fairness

-----------------------------------------------------------------------------
(* Properties.                                                             *)

\* A read that completes without error holds all its fragments, and they are
\* of one state of the peer's memory, no older than the post: a retransmission
\* sends the snapshot, not the memory ("retries must not re-read the MR").
OneSnapshot ==
  \A r \in Reads : rd[r].res = "ok" /\ conf.len[r] > 0 =>
    \E v \in rd[r].since..mem : \A k \in Frags(r) : rd[r].data[k] = v

\* sendq_count is the number of reads that are posted and not yet completed
\* or reaped, so the send queue neither fills up for ever nor overflows.
SlotsExact == slots = Cardinality({r \in Reads : rd[r].pos \in {"post", "list"}})

\* Every reference has a holder: a read is held by its poster, the list or the
\* reaper, the transmission and the receive handler, a response by its worker,
\* the list and the timer, and a queue pair by its reads, responses, queued
\* works and handler.  A queue pair that is gone is held by nobody.
B(x) == IF x THEN 1 ELSE 0
ReadHolders(r) ==
  B(rd[r].pos \in {"post", "list", "reap"}) + B(post.pc = "send" /\ post.r = r)
  + B(rd[r].tx # "none") + B(rx.pc = "handle" /\ rx.r = r)
CtxHolders(p) ==
  B(work[p] \in {"queue", "send", "ok", "busy", "fail"}) + B(ctx[p].on) + B(p \in tb.drop)
  + B(p \in tb.todo) + B(tb.pc = "note" /\ tb.cur = p)
RefsExact ==
  /\ \A r \in Reads : rd[r].refs = ReadHolders(r) /\ ctx[r].refs = CtxHolders(r)
  /\ qp["a"].refs = B(qp["a"].st # "gone") + B(rx.pc = "handle")
                    + Cardinality({r \in Reads : rd[r].refs > 0})
  /\ qp["b"].refs = B(qp["b"].st # "gone") + Cardinality({p \in Reads : ctx[p].refs > 0})
                    + Cardinality({p \in Reads : work[p] \notin {"none", "done"}})

\* Slots and references are exact, whoever completes, refuses, reaps, flushes
\* or destroys.
AccountsExact == TypeOK /\ SlotsExact /\ RefsExact

\* Reads succeed in the order they were posted: one that is complete before an
\* earlier one waits for it (or is flushed with it), unless the timeout work
\* has just taken the earlier one off the list and will complete it.
OkInOrder ==
  \A r, q \in Reads : q < r /\ rd[r].res = "ok" => rd[q].res # "none" \/ rd[q].pos = "reap"

\* A success is true: the data is one snapshot, and everything before it is
\* settled.
OkMeansRead == OneSnapshot /\ OkInOrder

\* The reads that were posted complete, whatever is lost and whoever fails
\* or destroys its queue pair.
Posted == {r \in Reads : rd[r].pos # "none"}
ReadsSettle == (\E r \in Posted : rd[r].res = "none") ~> (\A r \in Posted : rd[r].res # "none")

\* Only responses and their READ_ACKs are lost, no more often than the responder
\* retries, and nobody fails, is slow or closes.
Clean ==
  /\ conf.destroy = {} /\ conf.deny = {} /\ conf.lossy \subseteq {"data", "ack"}
  /\ conf.max.slow = 0 /\ conf.max.fails = 0 /\ conf.max.lose <= MaxRetries

\* Then no queue pair fails: the retries the responder allows are enough, the
\* ones that the requester asks for with RETRY at every gap included (when a
\* READ_ACK may be lost, with one read at a time: a response that is repeated is
\* not acknowledged while its read waits for an earlier one) ...
CleanStaysUp ==
  Clean /\ (Len(conf.len) = 1 \/ "ack" \notin conf.lossy) =>
    \A e \in Ends : qp[e].st = "rts"

\* ... and every read succeeds.
ReadsSucceed == (Clean /\ Posted # {}) ~> (\A r \in Posted : rd[r].res = "ok")

\* A clean run succeeds and leaves both queue pairs up.
CleanRuns == []CleanStaysUp /\ ReadsSucceed

\* A destroy that is retried ends: nothing keeps a closing queue pair for ever.
DestroyTerminates ==
  (\E e \in Ends : qp[e].closing) ~> (\A e \in Ends : qp[e].closing => qp[e].st = "gone")
====
