------------------------------ MODULE AppleTx ------------------------------
(***************************************************************************)
(* The send side of an Apple queue pair (kernel/ibdev.c, proto/apple_tx.h):*)
(* post_send() with its send-queue slot, the SQ worker with the transmit   *)
(* window and its frame groups, the frames on the rail's path, ordered and *)
(* delayed completions, the timeout work and the flushes.                  *)
(*                                                                         *)
(* Everything guarded by tqp->lock, and the path, is the record tx; the    *)
(* operators map one value of it to the next, so that the flush, the       *)
(* quiesce and the callbacks share them.  A frame is <<w, e>>: a frame of  *)
(* the work request w that was handed to the path in the epoch e.          *)
(***************************************************************************)
EXTENDS Integers, Sequences, FiniteSets, SequencesExt

CONSTANTS Conf, MaxWr, MaxQp

WR == 1..MaxWr

\* Sizes and limits are naturals, switches are Booleans, modify_qp leaves the
\* transport states for RESET or ERR.
ASSUME SizeAssumption == MaxWr \in Nat /\ MaxQp \in Nat
ASSUME ConfAssumption ==
  \A c \in Conf :
    /\ c.len \in [WR -> Nat] /\ c.group \in Nat /\ c.wrs \in Nat /\ c.slots \in Nat
    /\ c.pipeline \in BOOLEAN /\ c.delay \in BOOLEAN /\ c.badrestart \in BOOLEAN
    /\ c.qps \in 0..MaxQp /\ c.remotes \in Nat /\ c.downs \subseteq {"RESET", "ERR"}

\* A message of the peer's stream (AppleRx) is one frame or more.
ASSUME PeerAssumption == \A c \in Conf : c.peer \in Seq(Nat \ {0})

VARIABLES
  conf,    \* module parameters and bounds of this behaviour
  qp,      \* the queue pair: incarnation, state, closing, binding, tunnel
  tx,      \* sends, lists, path, window, slots, completions
  wk,      \* the SQ worker: pc, its entry, its context reference
  kicked,  \* apple_sq_work is queued
  poster,  \* a thread in tbv_post_apple_send(): pc and work request
  timer,   \* the timeout work and the sends it has taken off the list
  freed    \* a context was touched after its last reference was dropped

NoSend == [qp |-> 0, ep |-> 0, ready |-> FALSE, ok |-> FALSE, done |-> FALSE,
           counted |-> FALSE, win |-> FALSE, left |-> 0, armed |-> FALSE, sent |-> 0,
           expired |-> FALSE]
TxInit == [snd |-> [w \in WR |-> NoSend], list |-> <<>>, sq |-> <<>>, pq |-> <<>>,
           ring |-> <<>>, wrs |-> 0, frm |-> 0, out |-> 0, late |-> {}, cq |-> <<>>]
IdleWorker == [pc |-> "idle", w |-> 0, posted |-> 0, group |-> 0, ref |-> FALSE]
IdlePoster == [pc |-> "idle", w |-> 0]
IdleTimer == [pc |-> "idle", taken |-> <<>>]

\* list_del() of an entry; the frames of w in a queue; the frames of the others.
Drop(s, x) == RemoveAt(s, CHOOSE k \in DOMAIN s : s[k] = x)
FramesOf(s, w) == Cardinality({k \in DOMAIN s : s[k][1] = w})
KeepOther(w, kept, f) == IF f[1] = w THEN kept ELSE Append(kept, f)
Keeping == INSTANCE SeqLoop WITH Body <- KeepOther
Without(s, w) == Keeping!Run(w, <<>>, s)

UsesTransport(st) == st \in {"RTR", "RTS"}
Stopping == qp.closing \/ ~UsesTransport(qp.st)

-----------------------------------------------------------------------------
(* The transmit window.                                                    *)
Exclusive == ~conf.pipeline
\* No limit is configured: nothing is charged and the state is not looked at.
Unlimited == ~Exclusive /\ conf.wrs = 0 /\ conf.budget = 0
FrameCharge(w) ==
  IF conf.group = 0 \/ Unlimited THEN 0
  ELSE IF conf.len[w] < conf.group THEN conf.len[w] ELSE conf.group
WindowOk(w) ==
  /\ IF Exclusive THEN tx.wrs = 0 /\ tx.frm = 0
     ELSE conf.wrs = 0 \/ tx.wrs < conf.wrs
  /\ conf.budget = 0 \/ tx.frm + FrameCharge(w) <= conf.budget
TakesWr == Exclusive \/ conf.wrs > 0
AcquireWindow(w) ==
  tx' = [tx EXCEPT !.wrs = @ + (IF TakesWr THEN 1 ELSE 0), !.frm = @ + FrameCharge(w)]
ReleaseWindow(T, w) ==
  [T EXCEPT !.wrs = @ - (IF TakesWr THEN 1 ELSE 0), !.frm = @ - FrameCharge(w)]

-----------------------------------------------------------------------------
(* Completion.                                                             *)

\* tbv_send_complete(): once; the frames still queued are cancelled, slot and
\* window are given back, the completion is pushed.
SendComplete(T, w, ok) ==
  IF T.snd[w].done THEN T
  ELSE LET U == IF T.snd[w].win THEN ReleaseWindow(T, w) ELSE T
           s == [T.snd[w] EXCEPT !.done = TRUE, !.counted = FALSE, !.win = FALSE,
                                 !.left = @ - FramesOf(T.pq, w)]
       IN [U EXCEPT !.snd[w] = s, !.pq = Without(T.pq, w),
                    !.out = @ - (IF T.snd[w].counted THEN 1 ELSE 0),
                    !.cq = Append(@, [w |-> w, ok |-> ok])]

\* The ready sends at the head of pending_sends.
ReadyPrefix(T) ==
  LET n == CHOOSE k \in 0..Len(T.list) :
             /\ \A i \in 1..k : T.snd[T.list[i]].ready
             /\ k = Len(T.list) \/ ~T.snd[T.list[k + 1]].ready
  IN SubSeq(T.list, 1, n)

Ready(T, w, ok) ==
  IF T.snd[w].ready THEN T
  ELSE [T EXCEPT !.snd[w].ready = TRUE, !.snd[w].ok = ok]

\* tbv_apple_complete_ordered_sends(): successes may be put off to a delayed
\* work item of their own.
CompleteOrdered(delay, T, w) ==
  IF T.snd[w].ok /\ delay THEN [T EXCEPT !.late = @ \cup {w}]
  ELSE SendComplete(T, w, T.snd[w].ok)
Ordered == INSTANCE SeqLoop WITH Body <- CompleteOrdered

\* Variant: the first frame completes the send.
TxDoneFirst(T, w, ok) ==
  LET V == Ready([T EXCEPT !.snd[w].left = @ - 1], w, ok)
  IN IF ~Contains(T.list, w) THEN V
     ELSE CompleteOrdered(conf.delay, [V EXCEPT !.list = Drop(@, w)], w)

\* tbv_apple_send_tx_done(): one frame of w left the path.
TxDone(T, w, ok) ==
  LET U == [T EXCEPT !.snd[w].left = @ - 1]
      V == Ready(U, w, ok)
      W == [V EXCEPT !.list = SubSeq(@, Len(ReadyPrefix(V)) + 1, Len(@))]
  IN IF (ok /\ U.snd[w].left # 0) \/ ~Contains(T.list, w) THEN U
     ELSE Ordered!Run(conf.delay, W, ReadyPrefix(V))

\* tbv_apple_send_tx_done() of frames that leave the path together.
FrameDone(ok, T, f) == TxDone(T, f[1], ok)
Frames == INSTANCE SeqLoop WITH Body <- FrameDone

\* tbv_qp_unqueue_send() and, when it found the send, its completion.
Unqueue(ok, T, w) ==
  IF ~Contains(T.list, w) THEN T
  ELSE SendComplete([T EXCEPT !.list = Drop(@, w)], w, ok)
Entries == INSTANCE SeqLoop WITH Body <- Unqueue
FlushAppleSq(T) == Entries!Run(FALSE, [T EXCEPT !.sq = <<>>], T.sq)

\* Sends off the list are completed with the status they have, or with ok when
\* they were not ready.
Finish(ok, T, w) == SendComplete(T, w, IF T.snd[w].ready THEN T.snd[w].ok ELSE ok)
Sends == INSTANCE SeqLoop WITH Body <- Finish
FlushSends(T) == Sends!Run(FALSE, [T EXCEPT !.list = <<>>], T.list)
Flush(T) == FlushSends(FlushAppleSq(T))

\* A context lives while a list, a frame, the worker, the timeout work or a
\* delayed completion holds a reference.
Alive(w) ==
  \/ Contains(tx.list, w) \/ w \in tx.late
  \/ FramesOf(tx.pq, w) + FramesOf(tx.ring, w) > 0
  \/ wk.ref /\ wk.w = w
  \/ Contains(timer.taken, w)
  \/ poster.pc \in {"slot", "queue"} /\ poster.w = w
Contexts(n) == {w \in WR : tx.snd[w].qp = n /\ Alive(w)}

-----------------------------------------------------------------------------
(* tbv_post_apple_send().                                                  *)

\* The queue pair is in RTS and not closing: a reference is taken.
PostGetLive(w) ==
  /\ poster = IdlePoster
  /\ tx.snd[w].qp = 0 /\ \A v \in 1..(w - 1) : tx.snd[v].qp # 0
  /\ conf.len[w] > 0 /\ qp.st = "RTS" /\ ~qp.closing
  /\ poster' = [pc |-> "slot", w |-> w]
  /\ tx' = [tx EXCEPT !.snd[w].qp = qp.inc, !.snd[w].ep = qp.ep]
  /\ UNCHANGED <<conf, qp, wk, kicked, timer, freed>>

\* tbv_apple_sq_reserve_slot(): an error or a full queue refuses the request.
PostSlot ==
  LET w == poster.w IN
  /\ poster.pc = "slot"
  /\ IF qp.closing \/ qp.st = "ERR" \/ tx.out >= conf.slots
     THEN poster' = IdlePoster /\ tx' = [tx EXCEPT !.snd[w].done = TRUE]
     ELSE /\ tx' = [tx EXCEPT !.snd[w].counted = TRUE, !.out = @ + 1]
          /\ poster' = [poster EXCEPT !.pc = "queue"]
  /\ UNCHANGED <<conf, qp, wk, kicked, timer, freed>>

\* Sequence number and tbv_qp_queue_send(), whatever the state is by now.
PostQueueSend ==
  /\ poster.pc = "queue"
  /\ tx' = [tx EXCEPT !.list = Append(@, poster.w)]
  /\ poster' = [poster EXCEPT !.pc = "entry"]
  /\ UNCHANGED <<conf, qp, wk, kicked, timer, freed>>

\* The entry goes to the SQ worker.  The list owns the only reference by now:
\* a flush in between has freed the context the entry points to.
PostQueueEntry ==
  /\ poster.pc = "entry"
  /\ tx' = [tx EXCEPT !.sq = Append(@, poster.w)]
  /\ kicked' = TRUE /\ poster' = IdlePoster
  /\ freed' = ~Alive(poster.w)
  /\ UNCHANGED <<conf, qp, wk, timer>>

-----------------------------------------------------------------------------
(* tbv_apple_sq_work().                                                    *)
WorkerPop ==
  /\ \/ wk.pc = "top"
     \/ wk.pc = "idle" /\ kicked
  /\ kicked' = (kicked /\ wk.pc = "top")
  /\ IF tx.sq = <<>> THEN wk' = IdleWorker /\ UNCHANGED tx
     ELSE /\ wk' = [IdleWorker EXCEPT !.pc = "popped", !.w = Head(tx.sq)]
          /\ tx' = [tx EXCEPT !.sq = Tail(@)]
  /\ UNCHANGED <<conf, qp, poster, timer, freed>>

\* The worker takes its reference after it left tqp->lock.
WorkerGet ==
  /\ wk.pc = "popped"
  /\ wk' = [wk EXCEPT !.pc = "path", !.ref = TRUE]
  /\ freed' = ~Alive(wk.w)
  /\ UNCHANGED <<conf, qp, tx, kicked, poster, timer>>

\* tbv_first_active_apple_path_for_qp_locked(); "bound" is decided by RailBind.
WorkerPath(bound) ==
  /\ wk.pc = "path"
  /\ wk' = [wk EXCEPT !.pc = IF Stopping \/ ~bound THEN "fail" ELSE "window"]
  /\ UNCHANGED <<conf, qp, tx, kicked, poster, timer, freed>>

WorkerWindow ==
  /\ wk.pc = "window"
  /\ \/ Stopping /\ ~Unlimited /\ wk' = [wk EXCEPT !.pc = "fail"] /\ UNCHANGED tx
     \/ (Unlimited \/ ~Stopping) /\ WindowOk(wk.w)
        /\ AcquireWindow(wk.w) /\ wk' = [wk EXCEPT !.pc = "reserve"]
  /\ UNCHANGED <<conf, qp, kicked, poster, timer, freed>>

\* tbv_path_reserve_data(): a closed path fails the send, a full queue sends
\* the worker round again; either way the window is given back.
WorkerReserve(closed) ==
  /\ wk.pc = "reserve"
  /\ \/ closed /\ tx' = ReleaseWindow(tx, wk.w) /\ wk' = [wk EXCEPT !.pc = "fail"]
     \/ ~closed /\ wk' = [wk EXCEPT !.pc = "set"] /\ UNCHANGED tx
     \/ ~closed /\ tx.pq # <<>> /\ tx' = ReleaseWindow(tx, wk.w)
        /\ wk' = [wk EXCEPT !.pc = "path"]
  /\ UNCHANGED <<conf, qp, kicked, poster, timer, freed>>

\* Variant: the timeout is not armed.
WorkerSetUnarmed ==
  /\ wk.pc = "set"
  /\ tx' = [tx EXCEPT !.snd[wk.w].win = TRUE, !.snd[wk.w].left = conf.len[wk.w]]
  /\ wk' = [wk EXCEPT !.pc = "post"]
  /\ UNCHANGED <<conf, qp, kicked, poster, timer, freed>>

\* The window is written into the context, the timeout armed.  A context that
\* was completed in the meantime never gives this window back.
WorkerSet ==
  LET w == wk.w IN
  /\ wk.pc = "set"
  /\ tx' = [tx EXCEPT !.snd[w].win = TRUE, !.snd[w].left = conf.len[w],
                      !.snd[w].armed = Contains(tx.list, w)]
  /\ wk' = [wk EXCEPT !.pc = "post"]
  /\ UNCHANGED <<conf, qp, kicked, poster, timer, freed>>

\* The state is checked, then one frame goes to the path unless it refuses;
\* after a whole group the worker waits for it.
WorkerCheck ==
  /\ wk.pc = "post"
  /\ wk' = [wk EXCEPT !.pc = IF Stopping THEN "fail" ELSE "frame"]
  /\ UNCHANGED <<conf, qp, tx, kicked, poster, timer, freed>>

WorkerPost(closed) ==
  LET w == wk.w
      g == wk.group + 1
      whole == conf.group > 0 /\ g >= conf.group
      more == wk.posted + 1 < conf.len[w]
  IN
  /\ wk.pc = "frame"
  /\ IF closed
     THEN wk' = [wk EXCEPT !.pc = "fail"] /\ UNCHANGED tx
     ELSE /\ tx' = [tx EXCEPT !.pq = Append(@, <<w, qp.ep>>)]
          /\ wk' = [wk EXCEPT !.posted = @ + 1, !.group = IF whole THEN 0 ELSE g,
                              !.pc = IF ~more THEN "end" ELSE IF whole THEN "group" ELSE "post"]
  /\ UNCHANGED <<conf, qp, kicked, poster, timer, freed>>

WorkerGroup ==
  LET s == tx.snd[wk.w]
      drained == s.left <= conf.len[wk.w] - wk.posted
  IN
  /\ wk.pc = "group" /\ (drained \/ s.done \/ Stopping)
  /\ wk' = [wk EXCEPT !.pc = IF drained THEN "post" ELSE "fail"]
  /\ UNCHANGED <<conf, qp, tx, kicked, poster, timer, freed>>

WorkerEnd ==
  /\ wk.pc \in {"end", "fail"}
  /\ tx' = IF wk.pc = "fail" THEN Unqueue(FALSE, tx, wk.w) ELSE tx
  /\ wk' = [IdleWorker EXCEPT !.pc = "top"]
  /\ UNCHANGED <<conf, qp, kicked, poster, timer, freed>>

-----------------------------------------------------------------------------
(* Path, delayed completion, timeout work.                                 *)

\* The scheduler hands the next frame to the NHI (PathTx has the detail).
PathSchedule(closed) ==
  /\ tx.pq # <<>> /\ ~closed
  /\ tx' = [tx EXCEPT !.ring = Append(@, Head(tx.pq)), !.pq = Tail(@)]
  /\ UNCHANGED <<conf, qp, wk, kicked, poster, timer, freed>>

\* The NHI transmits the oldest frame and its callback runs.
NhiSend ==
  /\ tx.ring # <<>>
  /\ LET w == Head(tx.ring)[1]
     IN tx' = TxDone([tx EXCEPT !.ring = Tail(@), !.snd[w].sent = @ + 1], w, TRUE)
  /\ UNCHANGED <<conf, qp, wk, kicked, poster, timer, freed>>

SendCompleteWork(w) ==
  /\ w \in tx.late
  /\ tx' = [SendComplete(tx, w, TRUE) EXCEPT !.late = @ \ {w}]
  /\ UNCHANGED <<conf, qp, wk, kicked, poster, timer, freed>>

\* The scan fails an armed send; those that are ready at the head leave the
\* list with it.  (Its retransmissions find no native path and only pass time.)
TimerExpire(w) ==
  /\ timer.pc = "idle" /\ Contains(tx.list, w) /\ tx.snd[w].armed /\ ~tx.snd[w].ready
  /\ conf.expires
  /\ LET V == [Ready(tx, w, FALSE) EXCEPT !.snd[w].expired = TRUE]
     IN /\ timer' = [pc |-> "err", taken |-> ReadyPrefix(V)]
        /\ tx' = [V EXCEPT !.list = SubSeq(@, Len(ReadyPrefix(V)) + 1, Len(@))]
  /\ UNCHANGED <<conf, qp, wk, kicked, poster, freed>>

\* Variant: the sends are completed and the queue pair stays in RTS.
TimerKeepsRts ==
  /\ timer.pc = "err"
  /\ tx' = Sends!Run(FALSE, tx, timer.taken)
  /\ timer' = IdleTimer
  /\ UNCHANGED <<conf, qp, wk, kicked, poster, freed>>

\* tbv_qp_mark_error() before the completions.
TimerError ==
  /\ timer.pc = "err"
  /\ IF qp.closing \/ qp.st = "ERR"
     THEN timer' = [timer EXCEPT !.pc = "complete"] /\ UNCHANGED qp
     ELSE timer' = [timer EXCEPT !.pc = "flush"] /\ qp' = [qp EXCEPT !.st = "ERR"]
  /\ UNCHANGED <<conf, tx, wk, kicked, poster, freed>>

TimerComplete ==
  /\ timer.pc = "complete"
  /\ tx' = Sends!Run(FALSE, tx, timer.taken)
  /\ timer' = IdleTimer
  /\ UNCHANGED <<conf, qp, wk, kicked, poster, freed>>
=============================================================================
