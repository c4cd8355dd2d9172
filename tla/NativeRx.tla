------------------------------ MODULE NativeRx ------------------------------
(***************************************************************************)
(* The responder half of a native queue pair (kernel/ibdev.c): reassembly  *)
(* of SEND and WRITE fragments, the reorder window, the history of ACKs,   *)
(* receiver-not-ready, receive credits and the watchdog.  A handler holds  *)
(* rx_lock from end to end and is one action.                              *)
(*                                                                         *)
(* A frame of one PSN always carries the header of the request that owns   *)
(* the PSN, so the branches for malformed or contradicting headers are     *)
(* left out; the completion queues are as large as they have to be, and    *)
(* allocations succeed.                                                    *)
(***************************************************************************)
EXTENDS NativeWire, SequencesExt

CONSTANTS RqDepth,    \* max_recv_wr
          Window,     \* TBV_RX_REORDER_MAX_MESSAGES
          History,    \* TBV_ACK_HISTORY_SIZE
          RoCap       \* TBV_RX_REORDER_MAX_BYTES, in fragments
ASSUME RxAssumption ==
  /\ RqDepth \in Nat \ {0} /\ Window \in Nat \ {0} /\ History \in Nat \ {0} /\ RoCap \in Nat

VARIABLES
  rcv,   \* the queue pair: st, exp (rx_expected_psn), act (rx_msg), wr
         \* (rx_write), ro (rx_reorder, by PSN), hist (ack_history), rnr
         \* (rx_rnr_*), rq (recvq), adv (recv_credits_advertised), dlv (the
         \* messages finished, as a log), wcs (receive completions), win
         \* (a request was refused by the window), out (ACKs to send)
  recvs, \* receives posted so far
  shorts, \* receives posted that are too short for a SEND
  expires \* timeouts and errors of the responder so far
rxvars == <<rcv, recvs, shorts, expires>>

\* A message being assembled: the fragments it has, and which of them are bad.
Assembly == [m : Msgs, got : SUBSET Nat, bad : SUBSET Nat, fits : BOOLEAN]
Assemble(m, fits) == [m |-> m, got |-> {}, bad |-> {}, fits |-> fits]
AddFrag(a, fr) ==
  IF fr.f \in a.got THEN a
  ELSE [a EXCEPT !.got = @ \cup {fr.f}, !.bad = IF fr.bad THEN @ \cup {fr.f} ELSE @]
Whole(a) == a.got = Frags(a.m)
Received(a) == Cardinality(a.got)

RxTypeOK ==
  /\ rcv.st \in {"rts", "err"} /\ rcv.exp \in 0..PsnMod - 1
  /\ rcv.act \in Assembly \cup {None} /\ rcv.wr \in Assembly \cup {None}
  /\ DOMAIN rcv.ro \subseteq 0..PsnMod - 1 /\ \A p \in DOMAIN rcv.ro : rcv.ro[p] \in Assembly
  /\ rcv.hist \in [0..History - 1 -> {None} \cup [p : 0..PsnMod - 1, s : {"ok", "err"}]]
  /\ rcv.rnr \in {None} \cup [p : 0..PsnMod - 1, f : Nat]
  /\ rcv.rq \in Seq(BOOLEAN) /\ rcv.adv \in 0..RqDepth /\ rcv.wcs \in Nat
  /\ rcv.dlv \in Seq([m : Msgs, ok : BOOLEAN, bad : BOOLEAN])
  /\ rcv.win \in BOOLEAN /\ rcv.out = EmptyBag
  /\ recvs \in 0..conf.max.recvs /\ shorts \in 0..conf.max.shorts
  /\ expires \in 0..conf.max.expires

RxInit ==
  /\ rcv = [st |-> "rts", exp |-> FirstPsn, act |-> None, wr |-> None, ro |-> <<>>,
            hist |-> [i \in 0..History - 1 |-> None], rnr |-> None,
            rq |-> [i \in 1..conf.rq |-> TRUE], adv |-> conf.rq, dlv |-> <<>>, wcs |-> 0, win |-> FALSE, out |-> EmptyBag]
  /\ recvs = 0 /\ shorts = 0 /\ expires = 0

-----------------------------------------------------------------------------
(* Helpers; R stands for a value of rcv.                                   *)

Tell(R, s, p) == [R EXCEPT !.out = @ (+) Copies(Ack(s, p))]
Ahead(R, p) == PsnDelta(p, R.exp)

\* tbv_qp_pop_recv()
HasRecv(R) == R.rq # <<>>
PopRecv(R) == [R EXCEPT !.rq = Tail(@), !.adv = IF @ > 0 THEN @ - 1 ELSE 0]

\* Variant: a duplicate is always acknowledged as a success.
ReackOk(R, p) == Tell(R, "ok", p)

\* tbv_rx_reack_duplicate_locked(): the status in the history or, when it was
\* overwritten, success.
Reack(R, p) ==
  LET h == R.hist[p % History]
  IN Tell(R, IF h # None /\ h.p = p THEN h.s ELSE "ok", p)

\* The expected PSN is consumed with a status that the history remembers.
Consume(R, s) ==
  [R EXCEPT !.exp = PsnNext(@), !.hist[R.exp % History] = [p |-> R.exp, s |-> s]]

\* What is pushed for a finished message: every SEND and every WRITE_IMM
\* uses up a receive.
Record(R, a, ok) ==
  [R EXCEPT !.dlv = Append(@, [m |-> a.m, ok |-> ok, bad |-> a.bad # {}]),
            !.wcs = IF Kind(a.m) = "write" THEN @ ELSE @ + 1]
Status(ok) == IF ok THEN "ok" ELSE "err"

\* tbv_rx_reorder_unlink_msg_locked()
Unlink(R, p) == [R EXCEPT !.ro = [x \in DOMAIN @ \ {p} |-> @[x]]]
Held(R) == SumFunction([p \in DOMAIN R.ro |-> Received(R.ro[p])])

\* tbv_rx_prune_stale_reorder_locked()
Prune(R) ==
  LET stale == {p \in DOMAIN R.ro : Ahead(R, p) < 0}
  IN FoldSet(LAMBDA p, Q : Unlink(Reack(Q, p), p), R, stale)

\* One message of tbv_rx_drain_reorder_locked(): it is delivered, or the peer
\* is told that there is no receive.
DeliverHead(R) ==
  LET p == R.exp
      a == R.ro[p]
      fits == IF Kind(a.m) = "send" THEN Head(R.rq) ELSE conf.ops[a.m].ok
      Q == IF Kind(a.m) = "send" THEN PopRecv(R) ELSE R
  IN IF Kind(a.m) = "send" /\ ~HasRecv(R) THEN Tell(R, "rnr", p)
     ELSE Tell(Consume(Record(Unlink(Q, p), a, fits), Status(fits)), Status(fits), p)

\* tbv_rx_drain_reorder_locked(): the loop ends at an incomplete head or for
\* want of a receive; a step that leaves the expected PSN is the last.
DrainStep(R) ==
  LET Q == Prune(R) IN
  IF R.act # None \/ R.wr # None THEN R
  ELSE IF Q.exp \in DOMAIN Q.ro /\ Whole(Q.ro[Q.exp]) THEN DeliverHead(Q) ELSE Q
Drain(R) ==
  LET step[n \in 0..PsnMod] ==
        IF n = 0 THEN [R |-> R, go |-> TRUE]
        ELSE LET D == step[n - 1] IN
             IF ~D.go THEN D
             ELSE [R |-> DrainStep(D.R), go |-> DrainStep(D.R).exp # D.R.exp]
  IN step[Cardinality(DOMAIN R.ro) + 1].R

\* tbv_rx_finish_send()
FinishSend(R, ok) ==
  LET good == ok /\ R.act.fits IN
  Tell(Consume([Record(R, R.act, good) EXCEPT !.act = None], Status(good)), Status(good), R.exp)

\* tbv_rx_finish_write_locked(): the PSN is consumed and the window drained
\* before the ACK is sent.
FinishWrite(R, ok) ==
  Tell(Drain(Consume([Record(R, R.wr, ok) EXCEPT !.wr = None], Status(ok))), Status(ok), R.exp)

-----------------------------------------------------------------------------
(* Data frames.                                                            *)

\* tbv_rx_reorder_fragment_matches_locked(): a repeated fragment has the same data.
FragmentMatches(a, fr) == (fr.f \in a.bad) = fr.bad

\* A fragment ahead of its turn goes to the reorder window; Full is what is
\* left when there is no space for it.
Buffer(R, fr, Full) ==
  LET p == Psn(fr.m)
      known == p \in DOMAIN R.ro
      old == IF known THEN R.ro[p] ELSE Assemble(fr.m, TRUE)
      new == [R EXCEPT !.ro = (p :> AddFrag(old, fr)) @@ @]
  IN
  IF Ahead(R, p) < 0 THEN Reack(R, p)
  ELSE IF Ahead(R, p) >= Window \/ (~known /\ Cardinality(DOMAIN R.ro) >= Window)
  THEN [Tell(R, "err", p) EXCEPT !.win = TRUE]
  ELSE IF fr.f \in old.got
  THEN IF ~FragmentMatches(old, fr) THEN Tell(Unlink(R, p), "err", p)
       ELSE IF Whole(old) THEN Drain(R) ELSE R
  ELSE IF Held(R) >= RoCap THEN Full
  ELSE IF Whole(new.ro[p]) THEN Drain(new) ELSE new

\* tbv_rx_buffer_fragment_locked(): out of space a SEND is dropped silently.
BufferFrag(R, fr) == Buffer(R, fr, Unlink(R, Psn(fr.m)))
\* tbv_rx_buffer_write_fragment_locked(): ... a WRITE with an error.
BufferWriteFrag(R, fr) == Buffer(R, fr, Tell(Unlink(R, Psn(fr.m)), "err", Psn(fr.m)))

\* tbv_rx_mark_rnr_locked(): until the same fragment comes again, the rest of
\* the transmission is ignored.
RefuseRnr(R, fr) ==
  Tell([R EXCEPT !.rnr = [p |-> Psn(fr.m), f |-> fr.f]], "rnr", Psn(fr.m))
RnrMatches(R, fr) == R.rnr # None /\ R.rnr.p = Psn(fr.m)
RnrSuppresses(R, fr) == RnrMatches(R, fr) /\ R.rnr.f # fr.f

\* The fragment joins the active SEND, which is finished by the last one.
TakeSend(R, fr) ==
  LET Q == [R EXCEPT !.act = AddFrag(@, fr)] IN
  IF Whole(Q.act) THEN Drain(FinishSend(Q, TRUE)) ELSE Q
StartSend(R, fr) ==
  IF ~HasRecv(R) THEN RefuseRnr(R, fr)
  ELSE TakeSend([PopRecv(R) EXCEPT !.act = Assemble(fr.m, Head(R.rq))], fr)

\* tbv_rx_handle_send_fragment() with native_fragment_striping: fragments of
\* the expected PSN in any order.
RxSendStriped(R, fr) ==
  LET p == Psn(fr.m) IN
  IF Ahead(R, p) # 0 \/ (R.act = None /\ p \in DOMAIN R.ro) THEN BufferFrag(R, fr)
  ELSE IF R.act = None THEN StartSend(R, fr)
  ELSE TakeSend(R, fr)

\* ... and without: in order only, a gap waits for the retransmission.
RxSendInOrder(R, fr) ==
  LET p == Psn(fr.m) IN
  IF R.act # None
  THEN IF R.act.m = fr.m
       THEN IF Received(R.act) = fr.f THEN TakeSend(R, fr) ELSE R
       ELSE BufferFrag(R, fr)
  ELSE IF p \in DOMAIN R.ro \/ p # R.exp \/ fr.f > 0 THEN BufferFrag(R, fr)
  ELSE StartSend(R, fr)

\* tbv_rx_handle_rdma_write_fragment(): WRITE fragments that cannot be placed
\* are buffered, those of a WRITE_IMM are ignored; a WRITE_IMM of the expected
\* PSN that does not begin with its first fragment is refused.
TakeWrite(R, fr) ==
  LET Q == [R EXCEPT !.wr = AddFrag(@, fr)] IN
  IF ~conf.ops[fr.m].ok THEN FinishWrite(R, FALSE)
  ELSE IF Whole(Q.wr) THEN FinishWrite(Q, TRUE) ELSE Q
RxWrite(R, fr) ==
  LET p == Psn(fr.m)
      imm == Kind(fr.m) = "wimm"
      Elsewhere == IF imm THEN R ELSE BufferWriteFrag(R, fr)
  IN
  IF Ahead(R, p) < 0 THEN Reack(R, p)
  ELSE IF R.wr # None
  THEN IF R.wr.m = fr.m /\ Received(R.wr) = fr.f THEN TakeWrite(R, fr)
       ELSE IF R.wr.m = fr.m /\ Received(R.wr) > fr.f THEN R
       ELSE Elsewhere
  ELSE IF p # R.exp \/ (~imm /\ (p \in DOMAIN R.ro \/ fr.f > 0)) THEN Elsewhere
  ELSE IF fr.f > 0 THEN Tell(R, "err", p)
  ELSE IF imm /\ ~HasRecv(R) THEN RefuseRnr(R, fr)
  ELSE TakeWrite([IF imm THEN PopRecv(R) ELSE R EXCEPT !.wr = Assemble(fr.m, TRUE)], fr)

\* A handler's result becomes the state and its ACKs are sent.
Commit(R) ==
  /\ rcv' = [R EXCEPT !.out = EmptyBag]
  /\ ctl' = ctl (+) R.out

\* tbv_ibdev_rx_native_frame(): a queue pair in error takes no frames.
RxData(r) ==
  LET fr == Head(wire[r])
      R == IF RnrMatches(rcv, fr) THEN [rcv EXCEPT !.rnr = None] ELSE rcv
  IN
  /\ wire[r] # <<>>
  /\ wire' = [wire EXCEPT ![r] = Tail(@)]
  /\ Commit(IF rcv.st = "err" \/ RnrSuppresses(rcv, fr) THEN rcv
            ELSE IF Kind(fr.m) # "send" THEN RxWrite(R, fr)
            ELSE IF conf.stripe THEN RxSendStriped(R, fr)
            ELSE RxSendInOrder(R, fr))
  /\ UNCHANGED <<conf, lost, recvs, shorts, expires>>

-----------------------------------------------------------------------------
(* Receives, the watchdog and errors.                                      *)

\* tbv_post_recv(): the receive is queued and advertised, and the window is
\* drained.
PostRecv(fits, told) ==
  LET rq == Append(rcv.rq, fits)
      n == Len(rq) - rcv.adv
      Q == [rcv EXCEPT !.rq = rq]
  IN
  /\ rcv.st = "rts" /\ Len(rcv.rq) < RqDepth
  /\ recvs < conf.max.recvs /\ recvs' = recvs + 1
  /\ ~fits => shorts < conf.max.shorts
  /\ shorts' = IF fits THEN shorts ELSE shorts + 1
  /\ ~told => lost < conf.max.lost
  /\ lost' = IF told THEN lost ELSE lost + 1
  /\ Commit(Drain(IF told THEN [Q EXCEPT !.adv = Len(rq), !.out = Copies(Credit(n))] ELSE Q))
  /\ UNCHANGED <<conf, wire, expires>>

\* tbv_qp_mark_error(), tbv_qp_flush_error(): the active messages fail, the
\* window is discarded and the receives are flushed.
RxMarkError(R) ==
  LET A == IF R.act # None THEN FinishSend([R EXCEPT !.st = "err"], FALSE)
           ELSE [R EXCEPT !.st = "err"]
      W == IF A.wr # None THEN FinishWrite(A, FALSE) ELSE A
  IN IF R.st = "err" THEN R
     ELSE [W EXCEPT !.ro = <<>>, !.wcs = @ + Len(W.rq), !.rq = <<>>,
                    !.adv = IF @ > Len(W.rq) THEN @ - Len(W.rq) ELSE 0]

\* tbv_qp_timeout_reap_rx(): entries of the window that expired at the expected
\* PSN are dropped without a word to the peer; the history refuses them should
\* they come again.
ExpireHeads(R, E) ==
  LET drop[n \in 0..PsnMod] ==
        IF n = 0 THEN R
        ELSE LET D == drop[n - 1] IN
             IF D.exp \in E \cap DOMAIN D.ro THEN Drain(Consume(Unlink(D, D.exp), "err")) ELSE D
  IN drop[Cardinality(E)]

\* An active message that timed out fails and takes the queue pair with it.
ReapRx(active, E) ==
  LET A == IF active /\ rcv.act # None THEN FinishSend(rcv, FALSE) ELSE rcv
      W == IF active /\ A.wr # None THEN FinishWrite(A, FALSE) ELSE A
      H == ExpireHeads(W, E)
  IN
  /\ expires < conf.max.expires /\ expires' = expires + 1
  /\ active => rcv.act # None \/ rcv.wr # None
  /\ active \/ rcv.exp \in E
  /\ Commit(IF active THEN RxMarkError(H) ELSE H)
  /\ UNCHANGED <<conf, wire, lost, recvs, shorts>>

\* The queue pair fails for another reason: tbv_qp_error_work() after a CQ
\* overflow, its own requests, or the removal of its rail.
RxQpError ==
  /\ rcv.st = "rts"
  /\ expires < conf.max.expires /\ expires' = expires + 1
  /\ Commit(RxMarkError(rcv))
  /\ UNCHANGED <<conf, wire, lost, recvs, shorts>>

RxNext ==
  \/ \E r \in RailIds : RxData(r)
  \/ \E fits \in BOOLEAN, told \in BOOLEAN : PostRecv(fits, told)
  \/ \E active \in BOOLEAN, E \in SUBSET DOMAIN rcv.ro : ReapRx(active, E)
  \/ RxQpError
=============================================================================
