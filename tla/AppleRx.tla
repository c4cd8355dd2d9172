------------------------------ MODULE AppleRx ------------------------------
(***************************************************************************)
(* The receive side of an Apple queue pair (kernel/ibdev.c): frames of the *)
(* peer's stream are assembled in pending slots, one message at a time,    *)
(* and drained into posted receives.  Frames carry neither a queue pair    *)
(* number nor a sequence number: what separates two messages is EOF=3, and *)
(* what separates two epochs is the state of the rail's binding.           *)
(*                                                                         *)
(* conf.peer is the peer's stream: its messages' lengths in frames.  SOF   *)
(* marks the first frame of a message of several frames, EOF=3 the last    *)
(* frame of every message (macOS).  A slot keeps the frames it holds.      *)
(***************************************************************************)
EXTENDS RailBind

VARIABLES
  rx,      \* receives, slots, active slot, resync flag, completions
  rxh,     \* tbv_ibdev_rx_apple_frame(): pc and the frame it handles
  peer     \* the next frame of the peer's stream

NoSlot == [live |-> FALSE, frames |-> <<>>, err |-> FALSE]
RxInit == [rq |-> 0, posted |-> 0, ready |-> <<>>, act |-> NoSlot, discard |-> FALSE,
           got |-> <<>>, cut |-> {}]
PeerInit == [m |-> 1, i |-> 1]
IdleRx == [pc |-> "idle", m |-> 0, i |-> 0]

Sof(f) == f.i = 1 /\ conf.peer[f.m] > 1
Eof3(f) == f.i = conf.peer[f.m]

-----------------------------------------------------------------------------
\* tbv_apple_rx_drain_pending_locked(): a receive for every ready message.  A
\* message longer than its receive is cut and reported as a length error.
Drain(R) ==
  LET n == IF qp.closing THEN 0
           ELSE IF R.rq < Len(R.ready) THEN R.rq ELSE Len(R.ready)
      Wc(s) == [frames |-> s.frames, ok |-> ~s.err /\ Len(s.frames) <= conf.rlen]
  IN [R EXCEPT !.rq = @ - n, !.ready = SubSeq(@, n + 1, Len(@)),
               !.got = @ \o [k \in 1..n |-> Wc(R.ready[k])]]

\* The message the stream is in the middle of, in the handler or after it.
Midway == {m \in {peer.m} : peer.i > 1} \cup {m \in {rxh.m} : rxh.pc # "idle"}

\* tbv_qp_flush_apple_pending() and tbv_qp_flush_recv_wqes().  The resync flag
\* goes too: a message some of whose frames were handled before is cut.
RxFlush(R) ==
  [R EXCEPT !.ready = <<>>, !.act = NoSlot, !.discard = FALSE, !.rq = 0,
            !.cut = @ \cup Midway]

Held(R) == FoldLeft(LAMBDA n, s : n + Len(s.frames), Len(R.act.frames), R.ready)

\* Variant: a message start that finds no slot is dropped without resync.
DeliverNoResync(R, f) ==
  IF Len(R.ready) >= conf.rslots /\ ~R.act.live THEN R
  ELSE LET S == [R EXCEPT !.act = [live |-> TRUE, frames |-> Append(@.frames, f), err |-> @.err]]
       IN IF Eof3(f) THEN Drain([S EXCEPT !.ready = Append(@, S.act), !.act = NoSlot]) ELSE S

\* The locked part of the handler for the frame f.
Deliver(R0, f) ==
  LET R == Drain(R0)
      full == Len(R.ready) >= conf.rslots
      fits == Len(R.act.frames) < conf.rbytes /\ Held(R) < conf.rtotal
      S == [R EXCEPT !.act = [live |-> TRUE, err |-> @.err \/ ~fits,
                              frames |-> IF fits THEN Append(@.frames, f) ELSE @.frames]]
  IN IF R.discard THEN [R EXCEPT !.discard = ~Eof3(f)]
     ELSE IF ~R.act.live /\ ~(Sof(f) \/ Eof3(f)) THEN R
     ELSE IF ~R.act.live /\ full THEN [R EXCEPT !.discard = ~Eof3(f)]
     ELSE IF ~Eof3(f) THEN S
     ELSE Drain([S EXCEPT !.ready = Append(@, S.act), !.act = NoSlot])

-----------------------------------------------------------------------------
rxOthers == <<conf, qp, tx, wk, kicked, poster, timer, freed, qz, user, wd, rm>>

Cut(R, f) == [R EXCEPT !.cut = @ \cup {f.m}]

\* A frame arrives.  The state of the binding is read without a lock; a frame
\* that arrives on a retiring or quarantined rail is dropped.
RxCheck ==
  LET f == [m |-> peer.m, i |-> peer.i]
      drop == rail.st \in {"QUIESCING", "QUARANTINED"}
  IN
  /\ rxh.pc = "idle" /\ peer.m <= Len(conf.peer) /\ ~rail.stopped
  /\ peer' = IF Eof3(f) THEN [m |-> peer.m + 1, i |-> 1] ELSE [peer EXCEPT !.i = @ + 1]
  /\ rail' = [rail EXCEPT !.noisy = @ \/ rail.st = "QUARANTINED"]
  /\ rxh' = IF drop \/ ~rail.reg THEN rxh ELSE [pc |-> "lookup", m |-> f.m, i |-> f.i]
  /\ rx' = IF drop \/ ~rail.reg THEN Cut(rx, f) ELSE rx
  /\ UNCHANGED rxOthers

\* tbv_qp_get_by_num(): a reference, unless the queue pair is closing.
RxLookup ==
  /\ rxh.pc = "lookup"
  /\ IF Live
     THEN rxh' = [rxh EXCEPT !.pc = "deliver"] /\ UNCHANGED rx
     ELSE rxh' = IdleRx /\ rx' = Cut(rx, rxh)
  /\ UNCHANGED <<rxOthers, rail, peer>>

RxDeliver ==
  /\ rxh.pc = "deliver"
  /\ rx' = Deliver(rx, [m |-> rxh.m, i |-> rxh.i])
  /\ rxh' = IdleRx
  /\ UNCHANGED <<rxOthers, rail, peer>>

\* tbv_post_recv(), with the drain of what is ready.
PostRecv ==
  /\ Live /\ qp.st \in {"RTR", "RTS"} /\ rx.posted < conf.recvs
  /\ rx' = Drain([rx EXCEPT !.rq = @ + 1, !.posted = @ + 1])
  /\ UNCHANGED <<rxOthers, rail, rxh, peer>>
=============================================================================
