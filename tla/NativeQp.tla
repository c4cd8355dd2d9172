------------------------------ MODULE NativeQp ------------------------------
(***************************************************************************)
(* A native queue pair: requester (NativeTx), responder (NativeRx) and the *)
(* rails between them (NativeWire).                                        *)
(***************************************************************************)
EXTENDS NativeTx, NativeRx

vars == <<conf, wire, ctl, lost, txvars, rxvars>>

\* Every variable keeps its type: the send-queue and receive counts of
\* tbv_qp_release_sendq_counted_locked() and tbv_qp_pop_recv() never underflow.
TypeOK == WireTypeOK /\ TxTypeOK /\ RxTypeOK
Init == WireInit /\ TxInit /\ RxInit
Next ==
  \/ TxNext /\ UNCHANGED rxvars
  \/ RxNext /\ UNCHANGED txvars
  \/ LoseControl /\ UNCHANGED <<txvars, rxvars>>
Spec == Init /\ [][Next]_vars

\* Fairness: the workqueues, the rings and the rails make progress, a timer
\* that is armed expires, and the posting thread posts on; losses, failures and
\* the receives of the peer's user owe nothing.  Where TLC finds ENABLED of an
\* action too slow to compute, weak fairness is spelled out with its guard.
ControlWaits == ~off /\ ctl # EmptyBag /\ \E r \in RailIds : Idle(<<"rx", r>>)
BatchWaits == ~off /\ \E t \in Threads : ~Idle(t)
TimeoutDue ==
  /\ ~off /\ wk.pc = "idle"
  /\ \E m \in Range(snd.list) : ~ScanSkips(snd, m, Range(snd.list), Range(snd.list))
WorkRuns == ~off /\ wk.pc # "idle"
DataWaits == \E r \in RailIds : wire[r] # <<>>
ReapExpired == ReapTx(Range(snd.list), Range(snd.list))
RxFrame == \E r \in RailIds : RxData(r)
Fairness ==
  /\ WF_vars(Post /\ UNCHANGED rxvars)
  /\ WF_vars(Paths /\ UNCHANGED rxvars)
  /\ []<>~ControlWaits \/ []<><<RxControl>>_vars
  /\ []<>~BatchWaits \/ []<><<Completions>>_vars
  /\ []<>~TimeoutDue \/ []<><<ReapExpired>>_vars
  /\ []<>~WorkRuns \/ []<><<Work>>_vars
  /\ []<>~DataWaits \/ []<><<RxFrame>>_vars
FairSpec == Spec /\ Fairness

\* Every request is posted, unless the queue pair fails, and every request that
\* was accepted is completed, with a success or an error: none waits for ever
\* (unless the timeout scan leaves the list, see ScanStaysOnList).
EveryPostSettles ==
  <>[](off \/ /\ snd.list = <<>>
              /\ snd.st = "err" \/ snd.psn = Len(conf.ops)
              /\ \A m \in 1..snd.psn : snd.c[m].done \/ m \in snd.rej)

\* An RC request that is reported as a success was delivered, undamaged: the
\* ACK history never turns the refusal of a request into a success.
OkMeansDelivered ==
  conf.rc => \A d \in Range(snd.cq) :
    d.s = "ok" => \E e \in Range(rcv.dlv) : e.m = d.m /\ e.ok /\ ~e.bad

\* The queue pair implements the channel its users see: whatever is lost,
\* reordered, retransmitted, refused or flushed, a request is finished at most
\* once and in PSN order at the responder, is completed at most once at the
\* requester, an RC success is reported for a delivery only and, with one rail,
\* in order.  (With several, the ACK handlers of two rails complete what they
\* took off the list without the lock, and may overtake each other.)
Channel == INSTANCE QpChannel WITH
  reliable <- conf.rc, ordered <- conf.rc /\ conf.rails = 1, sent <- snd.psn,
  got <- [i \in DOMAIN rcv.dlv |-> [m |-> rcv.dlv[i].m, ok |-> rcv.dlv[i].ok]],
  done <- [i \in DOMAIN snd.cq |-> [m |-> snd.cq[i].m, ok |-> snd.cq[i].s = "ok"]]
ImplementsChannel == Channel!Spec

\* tx_pending counts the frames of a send that the paths hold, plus those a
\* refused enqueue has still to subtract.
InPaths(m) ==
  SumFunction([r \in RailIds |-> Len(SelectSeq(snd.q[r], LAMBDA fr : fr.m = m)) +
                                 Len(SelectSeq(un[r], LAMBDA x : x = m))])
TxPendingExact ==
  \A m \in Msgs :
    snd.c[m].txp = InPaths(m) + (IF post.pc = "sub" /\ post.m = m THEN post.sub ELSE 0)
                              + (IF wk.pc = "sub" /\ Head(wk.todo) = m THEN wk.sub ELSE 0)

\* The send queue leaks no slot: an RC slot is held by a send on the list or
\* by the post in progress, and by nothing else.
SlotsExact ==
  LET posting == IF post.pc = "queue" THEN 1 ELSE 0 IN
  /\ snd.sqn <= Len(snd.list) + posting
  /\ conf.rc => snd.sqn = Len(snd.list) + posting

\* Every receive that was posted is queued, in use or completed, once.
RecvsConserved ==
  conf.rq + recvs = Len(rcv.rq) + rcv.wcs + (IF rcv.act # None THEN 1 ELSE 0)
          + (IF rcv.wr # None /\ Kind(rcv.wr.m) = "wimm" THEN 1 ELSE 0)

\* What the two ends account for is exact, whatever is refused, retransmitted,
\* timed out or flushed.
AccountsExact == TypeOK /\ TxPendingExact /\ SlotsExact /\ RecvsConserved

\* The reorder window covers every request the send queue admits.
WindowCoversPosts == conf.rc /\ snd.rej = {} => ~rcv.win

\* The timeout scan stays on pending_sends.
ScanStaysOnList == ~off
=============================================================================
