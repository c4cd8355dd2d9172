------------------------------ MODULE NativeTx ------------------------------
(***************************************************************************)
(* The requester half of a native queue pair (kernel/ibdev.c): posting,    *)
(* the list of pending sends, the TX completions of the paths, the ACKs of *)
(* the peer, and the timeout work that retransmits or gives up.            *)
(*                                                                         *)
(* Every critical section of tqp->lock is one action; the sends that leave *)
(* the list are completed by a later action of the same thread, without    *)
(* the lock.  Time is abstracted: a timer that is armed may have expired   *)
(* whenever the timeout work runs.                                         *)
(***************************************************************************)
EXTENDS NativeWire, SequencesExt

CONSTANT MaxRetries \* tbv_qp_send_max_retries(), TBV_UC_WIRE_MAX_RETRIES
ASSUME TxAssumption == MaxRetries \in Nat \ {0}

VARIABLES
  snd,   \* the queue pair: st, psn (requests that took a PSN), list
         \* (pending_sends), sqn (sendq_count), cred (remote_recv_credits),
         \* cq (send CQ, as a log), c (the send contexts), q (frames queued
         \* on the paths), rej (posts that returned an error)
  un,    \* un[r]: owners of the frames of rail r posted to the ring
  post,  \* the post_send in progress
  wk,    \* the timeout work
  fin,   \* fin[t]: sends that thread t took off the list and has to complete
  off,   \* the work's list cursor left pending_sends
  fails  \* failures so far
txvars == <<snd, un, post, wk, fin, off, fails>>

Statuses == {"none", "ok", "io", "again", "timeout", "cancel"}
Ctx == [ready : BOOLEAN, stat : Statuses, retr : BOOLEAN, rnrw : BOOLEAN,
        why : {"timeout", "rnr"}, rt : Nat, rn : Nat, txp : Nat,
        armed : BOOLEAN, done : BOOLEAN, cnt : BOOLEAN]
NewCtx == [ready |-> FALSE, stat |-> "none", retr |-> FALSE, rnrw |-> FALSE,
           why |-> "timeout", rt |-> 0, rn |-> 0, txp |-> 0,
           armed |-> FALSE, done |-> FALSE, cnt |-> FALSE]
PostIdle == [pc |-> "idle", m |-> 0, cred |-> FALSE, sub |-> 0]
\* The receive and the transmit completion contexts of the rails.
Threads == {"rx", "tx"} \X RailIds
FinIdle == [ms |-> <<>>, err |-> FALSE]
WorkIdle == [pc |-> "idle", todo |-> <<>>, comp |-> <<>>, fail |-> FALSE, sub |-> 0]

TxTypeOK ==
  /\ snd \in [st : {"rts", "err"}, psn : Nat, list : Seq(Msgs), sqn : Nat, cred : Nat,
              cq : Seq([m : Msgs, s : Statuses]), c : [Msgs -> Ctx],
              q : [RailIds -> Seq(Frame)], rej : SUBSET Msgs]
  /\ un \in [RailIds -> Seq(Msgs)]
  /\ post \in [pc : {"idle", "queue", "frames", "sub"}, m : Nat, cred : BOOLEAN, sub : Nat]
  /\ wk \in [pc : {"idle", "check", "post", "sub", "bump"}, todo : Seq(Msgs), comp : Seq(Msgs),
             fail : BOOLEAN, sub : Nat]
  /\ fin \in [Threads -> [ms : Seq(Msgs), err : BOOLEAN]]
  /\ off \in BOOLEAN /\ fails \in 0..conf.max.fails

TxInit ==
  /\ snd = [st |-> "rts", psn |-> 0, list |-> <<>>, sqn |-> 0, cred |-> 0, cq |-> <<>>,
            c |-> [m \in Msgs |-> NewCtx], q |-> [r \in RailIds |-> <<>>], rej |-> {}]
  /\ un = [r \in RailIds |-> <<>>]
  /\ post = PostIdle /\ wk = WorkIdle /\ fin = [t \in Threads |-> FinIdle] /\ off = FALSE /\ fails = 0

-----------------------------------------------------------------------------
(* The list of pending sends; S stands for a value of snd.                 *)

Pending(S, m) == m \in Range(S.list)
RecvCreditRequired(m) == Kind(m) # "write"
Armed(S, m) == IF Pending(S, m) THEN [S EXCEPT !.c[m].armed = TRUE] ELSE S

\* tbv_qp_release_sendq_counted_locked()
ReleaseSlot(S, m) == IF S.c[m].cnt THEN [S EXCEPT !.sqn = @ - 1, !.c[m].cnt = FALSE] ELSE S

\* A send leaves the list: no retry, its slot is released.
Leave(S, m) ==
  ReleaseSlot([S EXCEPT !.list = SelectSeq(@, LAMBDA x : x # m),
                        !.c[m].retr = FALSE, !.c[m].rnrw = FALSE], m)

\* The first status a send is given stays.
MarkReady(S, m, s) ==
  IF S.c[m].ready THEN S
  ELSE [S EXCEPT !.c[m].ready = TRUE, !.c[m].stat = s, !.c[m].retr = FALSE,
                 !.c[m].rnrw = FALSE]

\* Variant: every send that is ready is drained, whatever is before it.
ReadyAnywhere(S) == SelectSeq(S.list, LAMBDA m : S.c[m].ready)

\* tbv_qp_drain_ready_sends_locked(): the ready sends at the head of the list.
ReadyHead(S) ==
  LET n == CHOOSE k \in 0..Len(S.list) :
             /\ \A i \in 1..k : S.c[S.list[i]].ready
             /\ k < Len(S.list) => ~S.c[S.list[k + 1]].ready
  IN SubSeq(S.list, 1, n)
DrainReady(S) == FoldLeft(Leave, S, ReadyHead(S))

\* Variant: the frames are dropped without their completion callback.
CancelSilently(S, m) ==
  [S EXCEPT !.q = [r \in RailIds |-> SelectSeq(@[r], LAMBDA fr : fr.m # m)]]

\* tbv_cancel_send_ctx_packets(): frames still queued on the paths come back
\* through tbv_send_tx_done() with an error; the send is off the list by then.
Cancel(S, m) ==
  LET n == SumFunction([r \in RailIds |-> Len(SelectSeq(S.q[r], LAMBDA fr : fr.m = m))])
  IN [S EXCEPT !.c[m].txp = @ - n,
               !.q = [r \in RailIds |-> SelectSeq(@[r], LAMBDA fr : fr.m # m)]]

\* tbv_send_complete(): the completion is reported once.
SendComplete(S, m, s) ==
  IF S.c[m].done THEN S
  ELSE Cancel([S EXCEPT !.c[m].done = TRUE, !.cq = Append(@, [m |-> m, s |-> s])], m)
CompleteAll(S, ms) == FoldLeft(LAMBDA T, m : SendComplete(T, m, T.c[m].stat), S, ms)

\* tbv_qp_mark_error(), tbv_qp_flush_error(), tbv_qp_flush_sends()
MarkError(S) ==
  LET flush == S.list
      E == FoldLeft(LAMBDA T, m : Leave(MarkReady(T, m, "cancel"), m), [S EXCEPT !.st = "err"],
                    flush)
  IN IF S.st = "err" THEN S ELSE CompleteAll(FoldLeft(Cancel, E, flush), flush)

\* tbv_qp_complete_send_ordered(): the send is ready, and the sends that leave
\* the list are for the caller to complete, without the lock.
CompleteOrdered(S, m, s) ==
  LET R == MarkReady(S, m, s) IN [S |-> DrainReady(R), out |-> ReadyHead(R)]

\* ... which the caller does before it looks at another frame.  One of them
\* with an error moves the QP to ERR when the cause was an ACK of the peer.
Idle(t) == fin[t] = FinIdle
Finish(t) ==
  LET C == CompleteAll(snd, fin[t].ms) IN
  /\ ~off /\ ~Idle(t)
  /\ snd' = IF fin[t].err THEN MarkError(C) ELSE C
  /\ fin' = [fin EXCEPT ![t] = FinIdle]
  /\ UNCHANGED <<un, post, wk, off, fails, conf, wire, ctl, lost>>

-----------------------------------------------------------------------------
(* tbv_post_send_one(): one posting thread, requests in order.             *)

\* A receive credit is taken when there is one, and a send-queue slot.
PostReserve ==
  LET m == snd.psn + 1
      take == RecvCreditRequired(m) /\ snd.cred > 0
  IN
  /\ ~off /\ post.pc = "idle" /\ m \in Msgs
  /\ snd.st = "rts" /\ snd.sqn < conf.sq
  /\ snd' = [snd EXCEPT !.cred = IF take THEN @ - 1 ELSE @, !.sqn = @ + 1, !.c[m].cnt = TRUE]
  /\ post' = [pc |-> "queue", m |-> m, cred |-> take, sub |-> 0]
  /\ UNCHANGED <<un, wk, fin, off, fails, conf, wire, ctl, lost>>

\* The PSN is allocated and the send joins the list, whatever the state of
\* the queue pair is by now; a UC send is armed at once.
PostQueue ==
  LET m == post.m IN
  /\ ~off /\ post.pc = "queue"
  /\ snd' = [snd EXCEPT !.psn = @ + 1, !.list = Append(@, m), !.c[m].armed = ~conf.rc]
  /\ post' = [post EXCEPT !.pc = "frames"]
  /\ UNCHANGED <<un, wk, fin, off, fails, conf, wire, ctl, lost>>

\* tbv_native_send_ctx_post_frames(): fragment f of m travels on this rail.
RailOf(m, f) ==
  IF conf.stripe /\ Kind(m) = "send" THEN ((Psn(m) + f) % conf.rails) + 1 ELSE 1
FramesOn(S, m, r) ==
  [i \in 1..Cardinality({f \in Frags(m) : RailOf(m, f) = r}) |->
     [m |-> m, bad |-> S.c[m].done,
      f |-> CHOOSE f \in Frags(m) : /\ RailOf(m, f) = r
                                    /\ Cardinality({g \in 0..f : RailOf(m, g) = r}) = i]]
\* The frames are counted in tx_pending first and then given to the rails in
\* turn; the first of the refusing rails ends the loop.  Acc are the rails
\* that accepted, and Refused the frames to be subtracted again.
Accepting(m) ==
  LET used == {r \in RailIds : \E f \in Frags(m) : RailOf(m, f) = r}
  IN {Acc \in SUBSET used : \A r \in Acc, s \in used : s < r => s \in Acc}
Refused(m, Acc) == Cardinality({f \in Frags(m) : RailOf(m, f) \notin Acc})
Enqueue(S, m, Acc) ==
  IF Acc = {} THEN S
  ELSE [S EXCEPT !.c[m].txp = @ + conf.ops[m].n,
                 !.q = [r \in RailIds |-> IF r \in Acc THEN @[r] \o FramesOn(S, m, r) ELSE @[r]]]

\* tbv_qp_unqueue_send() after nothing could be enqueued
Unqueue(S, m, cred) ==
  LET R == [S EXCEPT !.rej = @ \cup {m}] IN
  IF ~Pending(S, m) THEN R
  ELSE Leave([R EXCEPT !.cred = IF cred /\ S.st # "err" THEN @ + 1 ELSE @], m)

PostFrames ==
  LET m == post.m IN
  /\ ~off /\ post.pc = "frames"
  /\ \E Acc \in Accepting(m) :
       LET sub == Refused(m, Acc) IN
       /\ sub > 0 => fails < conf.max.fails
       /\ fails' = IF sub > 0 THEN fails + 1 ELSE fails
       /\ snd' = IF Acc = {} THEN Unqueue(snd, m, post.cred) ELSE Enqueue(snd, m, Acc)
       /\ post' = IF Acc = {} \/ sub = 0 THEN PostIdle
                  ELSE [post EXCEPT !.pc = "sub", !.sub = sub]
  /\ UNCHANGED <<un, wk, fin, off, conf, wire, ctl, lost>>

\* The frames the refusing rail and its successors did not get.
PostSub ==
  /\ ~off /\ post.pc = "sub"
  /\ snd' = [snd EXCEPT !.c[post.m].txp = @ - post.sub]
  /\ post' = PostIdle
  /\ UNCHANGED <<un, wk, fin, off, fails, conf, wire, ctl, lost>>

-----------------------------------------------------------------------------
(* The paths, and the TX completion of a frame.                            *)

\* A frame is posted to the ring and goes over the wire, or is lost there.
Transmit(r) ==
  LET fr == Head(snd.q[r]) IN
  /\ snd.q[r] # <<>>
  /\ snd' = [snd EXCEPT !.q[r] = Tail(@)]
  /\ un' = [un EXCEPT ![r] = Append(@, fr.m)]
  /\ \/ wire' = [wire EXCEPT ![r] = Append(@, fr)] /\ UNCHANGED lost
     \/ lost < conf.max.lost /\ lost' = lost + 1 /\ UNCHANGED wire
  /\ UNCHANGED <<post, wk, fin, off, fails, conf, ctl>>

\* Variant: the last frame of a retransmission leaves the send marked as being
\* retransmitted, and no timer is armed.
TxDrainedUnarmed(S, m, ok) == [S EXCEPT !.c[m].txp = @ - 1]

\* The first half of tbv_send_tx_done(), under the lock.
TxDrained(S, m, ok) ==
  LET n == S.c[m].txp - 1
      D == [S EXCEPT !.c[m].txp = n, !.c[m].retr = @ /\ n > 0]
  IN IF n = 0 /\ conf.rc /\ ok /\ ~S.c[m].rnrw THEN Armed(D, m) ELSE D

\* Variant: an RC send gives its slot back at the local drain, too.
TxDoneReleases(r) ==
  LET m == Head(un[r])
      D == TxDrained(snd, m, TRUE)
      C == IF conf.rc THEN D ELSE SendComplete(D, m, "ok")
  IN
  /\ ~off /\ un[r] # <<>> /\ Idle(<<"tx", r>>)
  /\ un' = [un EXCEPT ![r] = Tail(@)]
  /\ snd' = IF D.c[m].txp = 0 THEN ReleaseSlot(C, m) ELSE D
  /\ UNCHANGED <<post, wk, fin, off, fails, conf, wire, ctl, lost>>

\* tbv_send_tx_done() without an error: a UC send is completed and gives its
\* slot back when its last frame drained; it stays on the list until the ACK.
TxDone(r) ==
  LET m == Head(un[r])
      D == TxDrained(snd, m, TRUE)
  IN
  /\ ~off /\ un[r] # <<>> /\ Idle(<<"tx", r>>)
  /\ un' = [un EXCEPT ![r] = Tail(@)]
  /\ snd' = IF D.c[m].txp = 0 /\ ~conf.rc THEN ReleaseSlot(SendComplete(D, m, "ok"), m) ELSE D
  /\ UNCHANGED <<post, wk, fin, off, fails, conf, wire, ctl, lost>>

\* tbv_send_tx_done() with an error: the send is ready, the QP stays as it is.
TxAbort(r) ==
  LET m == Head(un[r])
      D == TxDrained(snd, m, FALSE)
      O == CompleteOrdered(D, m, "cancel")
  IN
  /\ ~off /\ un[r] # <<>> /\ Idle(<<"tx", r>>) /\ fails < conf.max.fails
  /\ fails' = fails + 1
  /\ un' = [un EXCEPT ![r] = Tail(@)]
  /\ snd' = IF Pending(D, m) THEN O.S ELSE D
  /\ fin' = IF Pending(D, m) THEN [fin EXCEPT ![<<"tx", r>>].ms = O.out] ELSE fin
  /\ UNCHANGED <<post, wk, off, conf, wire, ctl, lost>>

-----------------------------------------------------------------------------
(* Control frames of the peer; a QP in error ignores them.                 *)

Receive(r, a) == /\ ~off /\ Idle(<<"rx", r>>) /\ BagIn(a, ctl)
                 /\ ctl' = ctl (-) SetToBag({a})
Matched(a) == {m \in Range(snd.list) : Psn(m) = a.v}

\* The ACK branch of tbv_ibdev_rx_native_frame().
Settle(r, O) ==
  /\ snd' = O.S
  /\ fin' = [fin EXCEPT ![<<"rx", r>>] =
              [ms |-> O.out, err |-> \E m \in Range(O.out) : O.S.c[m].stat # "ok"]]

RxAck(r, a) ==
  /\ a.op \in {"ok", "err"} /\ Receive(r, a)
  /\ \/ /\ snd.st = "rts"
        /\ \E m \in Matched(a) :
             Settle(r, CompleteOrdered(snd, m, IF a.op = "ok" THEN "ok" ELSE "io"))
     \/ (snd.st = "err" \/ Matched(a) = {}) /\ UNCHANGED <<snd, fin>>
  /\ UNCHANGED <<un, post, wk, off, fails, conf, wire, lost>>

RnrExhausted(S, m) == conf.rnr # Infinite /\ S.c[m].rn >= conf.rnr

\* tbv_qp_note_rnr_ack()
RxRnr(r, a) ==
  /\ a.op = "rnr" /\ Receive(r, a)
  /\ \/ /\ snd.st = "rts"
        /\ \E m \in Matched(a) :
             IF RnrExhausted(snd, m) THEN Settle(r, CompleteOrdered(snd, m, "again"))
             ELSE /\ snd' = [snd EXCEPT !.c[m].rnrw = TRUE, !.c[m].retr = FALSE,
                                        !.c[m].armed = TRUE]
                  /\ UNCHANGED fin
     \/ (snd.st = "err" \/ Matched(a) = {}) /\ UNCHANGED <<snd, fin>>
  /\ UNCHANGED <<un, post, wk, off, fails, conf, wire, lost>>

\* tbv_qp_accept_recv_credit()
RxCredit(r, a) ==
  /\ a.op = "credit" /\ Receive(r, a)
  /\ snd' = [snd EXCEPT !.cred = IF snd.st = "rts" THEN @ + a.v ELSE @]
  /\ UNCHANGED <<un, post, wk, fin, off, fails, conf, wire, lost>>

-----------------------------------------------------------------------------
(* tbv_qp_timeout_work().                                                  *)

\* What the scan does with a send that is not ready.  E are the sends whose
\* current timer expired, F those whose full timeout expired.
CreditReady(S, m) == RecvCreditRequired(m) /\ S.cred > 0
ScanSkips(S, m, E, F) ==
  LET c == S.c[m] IN
  \/ c.ready
  \/ /\ c.rnrw /\ ~CreditReady(S, m)
     /\ (RecvCreditRequired(m) /\ conf.rnr = Infinite) \/ m \notin E
  \/ /\ ~c.rnrw
     /\ \/ ~c.armed \/ m \notin E
        \/ conf.rc /\ c.txp > 0
        \/ conf.rc /\ c.retr /\ m \notin F
ScanRetries(S, m) ==
  LET c == S.c[m] IN
  /\ ~c.retr /\ c.txp = 0 /\ S.st = "rts"
  /\ IF c.rnrw THEN ~RnrExhausted(S, m) ELSE c.rt < MaxRetries

\* One turn of the loop over L, the list as it was: W is [S, todo, comp, fail,
\* off].  When the drain of a failed send takes the next one along, the cursor
\* saved by list_for_each_entry_safe() is no longer on pending_sends.
ScanOne(W, i, L, E, F) ==
  LET m == L[i]
      S == W.S
      R == MarkReady(S, m, IF S.c[m].rnrw THEN "again" ELSE "timeout")
  IN
  IF W.off \/ ScanSkips(S, m, E, F) THEN W
  ELSE IF ScanRetries(S, m)
  THEN [W EXCEPT !.todo = Append(@, m),
                 !.S = [S EXCEPT !.c[m].retr = TRUE, !.c[m].rnrw = FALSE,
                                 !.c[m].why = IF S.c[m].rnrw THEN "rnr" ELSE "timeout",
                                 !.cred = IF S.c[m].rnrw /\ CreditReady(S, m) THEN @ - 1 ELSE @]]
  ELSE [W EXCEPT !.S = DrainReady(R), !.comp = @ \o ReadyHead(R), !.fail = TRUE,
                 !.off = i < Len(L) /\ L[i + 1] \in Range(ReadyHead(R))]

\* tbv_qp_timeout_reap_tx()
ReapTx(E, F) ==
  LET L == snd.list
      W == FoldLeft(LAMBDA V, i : ScanOne(V, i, L, E, F),
                    [S |-> snd, todo |-> <<>>, comp |-> <<>>, fail |-> FALSE, off |-> FALSE],
                    [i \in 1..Len(L) |-> i])
  IN
  /\ ~off /\ wk.pc = "idle" /\ (W.todo # <<>> \/ W.fail)
  /\ snd' = W.S /\ off' = W.off
  /\ wk' = [pc |-> "check", todo |-> W.todo, comp |-> W.comp, fail |-> W.fail, sub |-> 0]
  /\ UNCHANGED <<un, post, fin, fails, conf, wire, ctl, lost>>

Reap == \E E \in SUBSET Range(snd.list) : \E F \in SUBSET E : ReapTx(E, F)

\* tbv_qp_send_retry_pending(): is the retransmission still due.
WorkCheck ==
  LET m == Head(wk.todo)
      due == Pending(snd, m) /\ snd.st = "rts" /\ ~snd.c[m].rnrw /\ snd.c[m].txp = 0
  IN
  /\ ~off /\ wk.pc = "check" /\ wk.todo # <<>>
  /\ wk' = IF due THEN [wk EXCEPT !.pc = "post"] ELSE [wk EXCEPT !.todo = Tail(@)]
  /\ snd' = IF due THEN snd ELSE [snd EXCEPT !.c[m].retr = FALSE]
  /\ UNCHANGED <<un, post, fin, off, fails, conf, wire, ctl, lost>>

\* The retransmission was enqueued: the retry is counted, if it still matters.
Bump(S, m) ==
  IF ~Pending(S, m) \/ S.st = "err" THEN [S EXCEPT !.c[m].retr = FALSE]
  ELSE IF S.c[m].why = "rnr" THEN [S EXCEPT !.c[m].rn = @ + 1, !.c[m].armed = TRUE]
  ELSE [S EXCEPT !.c[m].rt = @ + 1, !.c[m].armed = TRUE]
NextTodo == [wk EXCEPT !.pc = "check", !.todo = Tail(@)]

WorkPost ==
  LET m == Head(wk.todo) IN
  /\ ~off /\ wk.pc = "post"
  /\ \E Acc \in Accepting(m) \ {{}} :
       LET sub == Refused(m, Acc) IN
       /\ sub > 0 => fails < conf.max.fails
       /\ fails' = IF sub > 0 THEN fails + 1 ELSE fails
       /\ snd' = Enqueue(snd, m, Acc)
       /\ wk' = [wk EXCEPT !.pc = IF sub > 0 THEN "sub" ELSE "bump", !.sub = sub]
  /\ UNCHANGED <<un, post, fin, off, conf, wire, ctl, lost>>

WorkSub ==
  /\ ~off /\ wk.pc = "sub"
  /\ snd' = [snd EXCEPT !.c[Head(wk.todo)].txp = @ - wk.sub]
  /\ wk' = [wk EXCEPT !.pc = "bump", !.sub = 0]
  /\ UNCHANGED <<un, post, fin, off, fails, conf, wire, ctl, lost>>

WorkBump ==
  /\ ~off /\ wk.pc = "bump"
  /\ snd' = Bump(snd, Head(wk.todo))
  /\ wk' = NextTodo
  /\ UNCHANGED <<un, post, fin, off, fails, conf, wire, ctl, lost>>

\* Nothing was enqueued: no memory and no path are tried again, and only the
\* latter counts; any other error is final.
WorkPostFails ==
  LET m == Head(wk.todo)
      live == Pending(snd, m) /\ snd.st = "rts"
      again == [snd EXCEPT !.c[m].armed = TRUE, !.c[m].retr = FALSE]
      R == MarkReady(snd, m, "timeout")
  IN
  /\ ~off /\ wk.pc = "post" /\ fails < conf.max.fails /\ fails' = fails + 1
  /\ \/ /\ ~live
        /\ snd' = [snd EXCEPT !.c[m].retr = FALSE] /\ wk' = NextTodo
     \/ /\ live
        /\ snd' \in {again, [again EXCEPT !.c[m].rt = @ + 1]}  \* -ENOMEM, -ENOTCONN
        /\ wk' = NextTodo
     \/ /\ live
        /\ snd' = DrainReady(R)
        /\ wk' = [NextTodo EXCEPT !.comp = @ \o ReadyHead(R), !.fail = TRUE]
  /\ UNCHANGED <<un, post, fin, off, conf, wire, ctl, lost>>

\* The QP moves to ERR before the sends that timed out are completed.
WorkEnd ==
  LET S == IF wk.fail THEN MarkError(snd) ELSE snd IN
  /\ ~off /\ wk.pc = "check" /\ wk.todo = <<>>
  /\ snd' = CompleteAll(FoldLeft(Cancel, S, wk.comp), wk.comp)
  /\ wk' = WorkIdle
  /\ UNCHANGED <<un, post, fin, off, fails, conf, wire, ctl, lost>>

Post == PostReserve \/ PostQueue \/ PostFrames \/ PostSub
Work == WorkCheck \/ WorkPost \/ WorkSub \/ WorkBump \/ WorkPostFails \/ WorkEnd
Paths == \E r \in RailIds : Transmit(r) \/ TxDone(r) \/ TxAbort(r)
RxControl ==
  \E r \in RailIds, a \in BagToSet(ctl) : RxAck(r, a) \/ RxRnr(r, a) \/ RxCredit(r, a)
Completions == \E t \in Threads : Finish(t)
TxNext == Post \/ Paths \/ RxControl \/ Completions \/ Reap \/ Work
=============================================================================
