------------------------------ MODULE AppleQp ------------------------------
(***************************************************************************)
(* An Apple queue pair on its rail: the send side (AppleTx), the binding   *)
(* and the quiesce (RailBind) and the receive side (AppleRx), with the     *)
(* flushes, which touch all of them.                                       *)
(*                                                                         *)
(* A behaviour ends when a context is used after its last reference was    *)
(* dropped (freed): what the kernel does from there on is undefined.       *)
(***************************************************************************)
EXTENDS AppleRx

railVars == <<rail, qz, user, wd, rm>>
rxVars == <<rx, rxh, peer>>
vars == <<conf, qp, tx, wk, kicked, poster, timer, freed, railVars, rxVars>>

Init ==
  /\ conf \in Conf
  /\ qp = NoQp /\ tx = TxInit /\ wk = IdleWorker /\ kicked = FALSE
  /\ poster = IdlePoster /\ timer = IdleTimer /\ freed = FALSE
  /\ rail = RailInit /\ qz = IdleQz /\ user = IdleUser
  /\ wd = IdleThread /\ rm = IdleThread
  /\ rx = RxInit /\ rxh = IdleRx /\ peer = PeerInit

-----------------------------------------------------------------------------
\* tbv_qp_flush_error(), reached by the timeout work, by a quiesce that took
\* the queue pair over and by modify_qp.
FlushError == tx' = Flush(tx) /\ rx' = RxFlush(rx)
flushOthers == <<conf, qp, wk, kicked, poster, freed, rail, wd, rm, rxh, peer>>

TimerFlush ==
  /\ timer.pc = "flush" /\ FlushError
  /\ timer' = [timer EXCEPT !.pc = "complete"]
  /\ UNCHANGED <<flushOthers, qz, user>>
QFlush ==
  /\ qz.pc = "flush" /\ FlushError
  /\ qz' = [qz EXCEPT !.pc = "worker"]
  /\ UNCHANGED <<flushOthers, timer, user>>
ModifyFlush ==
  /\ user.pc = "flush" /\ FlushError
  /\ ModifyFlushed
  /\ UNCHANGED <<flushOthers, timer, qz>>

\* What holds a reference to the queue pair besides contexts: the receive
\* handler that looked it up.
RxHolds == rxh.pc = "deliver"

Destroyed ==
  /\ DestroyFree(RxHolds)
  /\ rx' = RxFlush(rx)
  /\ UNCHANGED <<rxh, peer>>

-----------------------------------------------------------------------------
Worker ==
  /\ \/ WorkerPop \/ WorkerGet \/ WorkerPath(BoundTo) \/ WorkerWindow
     \/ WorkerReserve(rail.closed) \/ WorkerSet \/ WorkerCheck
     \/ WorkerPost(rail.closed) \/ WorkerGroup \/ WorkerEnd
  /\ UNCHANGED <<railVars, rxVars>>
PostStep == (PostSlot \/ PostQueueSend \/ PostQueueEntry) /\ UNCHANGED <<railVars, rxVars>>
Post == (\E w \in WR : PostGetLive(w)) /\ UNCHANGED <<railVars, rxVars>>
Path == PathSchedule(rail.closed) /\ UNCHANGED <<railVars, rxVars>>
Nhi == ~rail.stopped /\ NhiSend /\ UNCHANGED <<railVars, rxVars>>
Late == (\E w \in tx.late : SendCompleteWork(w)) /\ UNCHANGED <<railVars, rxVars>>
Expire == (\E w \in WR : TimerExpire(w)) /\ UNCHANGED <<railVars, rxVars>>
TimerStep == (TimerError \/ TimerComplete) /\ UNCHANGED <<railVars, rxVars>>

Create == CreateQp /\ UNCHANGED rxVars
Modify ==
  /\ \/ \E r \in 1..conf.remotes : ModifyUp("RTR", r)
     \/ ModifyUp("RTS", 0)
     \/ \E next \in conf.downs : ModifyDown(next)
  /\ UNCHANGED rxVars
ModifyStep == (Bind \/ Commit \/ ModifyJoin \/ ModifyEnd) /\ UNCHANGED rxVars
Destroy == DestroyQp /\ UNCHANGED rxVars
Watchdog == WatchdogFail /\ UNCHANGED rxVars
RemoveRail == (\E how \in {"remove", "exit"} : RemoveStart(how)) /\ UNCHANGED rxVars
Quiesce ==
  /\ \/ \E t \in {"user", "wd", "rm"} : QClose(t)
     \/ QMark \/ QCancelWorker \/ QStop \/ QCancel \/ QDrained
     \/ QRefs(RxHolds) \/ QEnd
  /\ UNCHANGED rxVars
Barrier == QBarrier /\ UNCHANGED rxVars

Next ==
  /\ ~freed
  /\ \/ Post \/ PostStep \/ Worker \/ Path \/ Nhi \/ Late
     \/ Expire \/ TimerStep \/ TimerFlush
     \/ Create \/ Modify \/ ModifyStep \/ ModifyFlush \/ Destroy \/ Destroyed
     \/ Watchdog \/ RemoveRail \/ Quiesce \/ QFlush \/ Barrier
     \/ RxCheck \/ RxLookup \/ RxDeliver \/ PostRecv

Spec == Init /\ [][Next]_vars

\* Work items and system calls that are under way run on.  Neither the NHI nor
\* the peer owes anything; a failed destroy is repeated.
FairSpec ==
  /\ Spec
  /\ WF_vars(~freed /\ Worker) /\ WF_vars(~freed /\ PostStep)
  /\ WF_vars(~freed /\ Late) /\ WF_vars(~freed /\ Expire)
  /\ WF_vars(~freed /\ (TimerStep \/ TimerFlush))
  /\ WF_vars(~freed /\ (ModifyStep \/ ModifyFlush \/ Destroyed))
  /\ WF_vars(~freed /\ (Quiesce \/ QFlush)) /\ WF_vars(~freed /\ Barrier)
  /\ WF_vars(~freed /\ qp.closing /\ Destroy)
  /\ WF_vars(~freed /\ (RxLookup \/ RxDeliver))

-----------------------------------------------------------------------------
OnPath == tx.ring \o tx.pq

TypeOK ==
  /\ conf \in Conf
  /\ qp.st \in {"NONE", "RESET", "RTR", "RTS", "ERR"} /\ qp.inc \in 0..MaxQp
  /\ rail.st \in {"UNBOUND", "BOUND", "QUIESCING", "QUARANTINED"}
  /\ rail.qp \in 0..MaxQp /\ rail.tunqps = IF qp.tun THEN 1 ELSE 0
  /\ tx.wrs \in 0..MaxWr /\ tx.out \in 0..conf.slots
  /\ \A w \in WR : tx.snd[w].left \in 0..conf.len[w]
  /\ wk.w \in 0..MaxWr /\ poster.w \in 0..MaxWr
  /\ freed \in BOOLEAN /\ kicked \in BOOLEAN

\* A bound rail carries frames of its own epoch only, and, unless a quiesce gave
\* up waiting for the last references, of sends that were posted in it: nothing
\* of a predecessor is left for the successor's peer
\* (tbv_apple_path_quiesce(), tbv_first_active_apple_path_for_qp_locked()).
OneEpochOnPath ==
  rail.st = "BOUND" =>
    \A k \in DOMAIN OnPath :
      /\ OnPath[k][2] = rail.ep
      /\ ~conf.deadline => tx.snd[OnPath[k][1]].ep = rail.ep

\* A rail that is bound to no queue pair, quarantined or not, has nothing left
\* that the NHI could transmit (tbv_path_cancel_queued_tx(),
\* tbv_path_ring_barrier()).
UnboundPathEmpty == rail.qp = 0 => OnPath = <<>>

\* A queue pair that is freed has no context, no queued entry and no work item
\* that could still reach it (tbv_destroy_qp()).
FreedQpQuiet ==
  ~Exists =>
    /\ Contexts(qp.inc) = {} /\ tx.sq = <<>> /\ OnPath = <<>>
    /\ wk.pc = "idle" /\ ~kicked /\ timer.pc = "idle" /\ rail.qp = 0

\* A send reported as successful had every frame transmitted, is reported once,
\* and no later send was reported as successful before it
\* (tbv_qp_complete_send_ordered(), tbv_send_complete()).
OkMeansSent ==
  /\ \A k \in DOMAIN tx.cq : tx.cq[k].ok => tx.snd[tx.cq[k].w].sent = conf.len[tx.cq[k].w]
  /\ \A j, k \in DOMAIN tx.cq : j # k => tx.cq[j].w # tx.cq[k].w
  /\ ~conf.delay => \A j, k \in DOMAIN tx.cq :
                      j < k /\ tx.cq[j].ok /\ tx.cq[k].ok => tx.cq[j].w < tx.cq[k].w

\* Without apple_tx_pipeline the path never holds frames of two sends that are
\* both unfinished: the peer could not tell their messages apart
\* (tbv_apple_tx_requires_exclusive_window()).
OneMessageAtATime ==
  ~conf.pipeline =>
    \A j, k \in DOMAIN OnPath :
      OnPath[j][1] = OnPath[k][1] \/ tx.snd[OnPath[j][1]].done \/ tx.snd[OnPath[k][1]].done

\* What is on the path is the bound queue pair's to send, and one message of it
\* at a time: bind, quiesce, barrier, destroy and the SQ worker never leave the
\* frames of two owners for the peer to tell apart.
PathHasOneOwner == TypeOK /\ OneEpochOnPath /\ UnboundPathEmpty /\ OneMessageAtATime

\* Once a send has timed out, no other send of its epoch reaches the path
\* (tbv_qp_timeout_work() moves the queue pair to ERR before it completes).  The
\* epoch is used again where modify_qp takes a queue pair that is still bound out
\* of ERR; its sends outlive it where a quiesce gives up waiting for them.  With
\* apple_tx_pipeline a send may be past the window when the one before it expires.
TimeoutStopsAdmission ==
  [][\A w \in WR :
       FramesOf(tx'.pq, w) > FramesOf(tx.pq, w)
         /\ ~conf.pipeline /\ ~conf.recycle /\ ~conf.deadline =>
           \A v \in WR : tx.snd[v].expired => v = w \/ tx.snd[v].ep # tx.snd[w].ep]_vars

\* A receive completed without error holds one message of the peer, all of it
\* and in order, unless frames of that message were dropped where the rail had
\* no bound queue pair, was retiring or was flushed (tbv_ibdev_rx_apple_frame()).
RxWhole ==
  \A k \in DOMAIN rx.got :
    LET fs == rx.got[k].frames
        ms == {fs[j].m : j \in DOMAIN fs}
    IN rx.got[k].ok /\ ms \cap rx.cut = {} =>
         \E m \in ms : fs = [j \in 1..conf.peer[m] |-> [m |-> m, i |-> j]]

\* Receives are completed in the order of the peer's messages, and no frame is
\* delivered twice.
RxOrder ==
  \A j, k \in DOMAIN rx.got :
    j < k => \A a \in DOMAIN rx.got[j].frames, b \in DOMAIN rx.got[k].frames :
               rx.got[j].frames[a].m < rx.got[k].frames[b].m

\* Receives hold whole messages, in their order.
RxExact == RxWhole /\ RxOrder

\* destroy_qp ends, even if the NHI never completes another descriptor.
DestroyTerminates == (qp.closing /\ Exists) ~> (~Exists \/ freed)

\* Every accepted send is completed, even if the NHI never completes another
\* descriptor.
SendsComplete == \A w \in WR : (conf.expires /\ tx.snd[w].qp # 0) ~> (tx.snd[w].done \/ freed)
=============================================================================
