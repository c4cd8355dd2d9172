------------------------------- MODULE PathTx -------------------------------
(***************************************************************************)
(* The transmit engine of one path (kernel/path.c): the control and data   *)
(* software queues, the reservations taken against the data queue, the     *)
(* scheduler tbv_path_schedule_tx() that moves packets to the NHI ring,    *)
(* the completion callbacks, per-owner cancellation and, on Apple rails,   *)
(* the quiesce sequence (close, cancel, drain, ring barrier, reopen).      *)
(*                                                                         *)
(* A message is what one owner hands to the path; its packets are its      *)
(* frames.  One action is one tx_lock critical section (or one atomic      *)
(* operation outside the lock); what a thread holds between two of them is *)
(* a variable.  schedule_tx() is called from many contexts, but the        *)
(* tx_scheduling flag lets one thread into its loop: the calls that are    *)
(* about to be made are counted in kicks, the loop is the record sched.    *)
(***************************************************************************)
EXTENDS Integers, Sequences, FiniteSets

CONSTANTS Rails,         \* the rails to consider, see Rail
          NoMsg,
          CreditBatch,   \* TBV_NATIVE_DATA_CREDIT_BATCH
          MaxThreads     \* bound: threads about to call schedule_tx(), inside
                         \* a completion callback, or past a requeue

Kinds == {"control", "data", "start", "page", "end"}
Modes == {"control", "one", "list", "reserved", "each", "resp"}

\* The frames of tbv_path_send_page_stream(): a header, then at least one page.
IsStream(s) ==
  /\ Len(s) > 1 /\ s[1] = "start" /\ s[Len(s)] = "end"
  /\ \A i \in 2..(Len(s) - 1) : s[i] = "page"

\* What is fixed for the life of a path: the messages (an owner_ctx and its
\* frames), the kinds of their frames and the entry points they are posted
\* through (page streams are native RDMA WRITEs), and the limits.
IsRail(r) ==
  /\ IsFiniteSet(r.msg) /\ NoMsg \notin r.msg
  /\ r.shape \in [r.msg -> Seq(Kinds)] /\ \A m \in r.msg : Len(r.shape[m]) > 0
  /\ r.mode \in [r.msg -> Modes]
  /\ \A m \in r.msg : r.mode[m] \in {"control", "one"} => Len(r.shape[m]) = 1
  /\ \A m \in r.msg : \A i \in 1..Len(r.shape[m]) :
       r.shape[m][i] = "control" <=> r.mode[m] = "control"
  /\ \A m \in r.msg :
       IF r.mode[m] = "list" THEN IsStream(r.shape[m]) /\ ~r.quiesces
       ELSE \A i \in 1..Len(r.shape[m]) : r.shape[m][i] \in {"control", "data"}
  /\ r.frames \in Nat \ {0} /\ r.qlimit \in Nat \ {0}
  /\ {r.inflight, r.credits, r.posts} \subseteq Nat
  /\ {r.refuses, r.quiesces} \subseteq BOOLEAN

ASSUME PathTxAssumption ==
  /\ \A r \in Rails : IsRail(r)
  /\ CreditBatch \in Nat \ {0} /\ MaxThreads \in Nat \ {0}

VARIABLE rail            \* the rail of this path
Msg == rail.msg
Shape == rail.shape
Mode == rail.mode
FrameCount == rail.frames      \* tx_frame_count, staging frames of the TX ring
InflightLimit == rail.inflight \* tbv_path_tx_inflight_limit(), 0 = no limit
QueueLimit == rail.qlimit      \* tx_data_queue_limit
CreditMax == rail.credits      \* tx_remote_data_credit_max, 0 = no credit scheme
RingRefuses == rail.refuses    \* may tb_ring_tx() answer -ENOMEM on a running ring
Quiesces == rail.quiesces      \* an Apple rail: the path is quiesced and reopened
MaxPosts == rail.posts         \* bound: times each message is posted, 0 = no bound

\* A packet is a message's frame: struct tbv_tx_packet with its owner_ctx.
Packet == UNION {{m} \X (1..Len(Shape[m])) : m \in Msg}
OwnerOf(p) == p[1]
KindOf(p) == Shape[p[1]][p[2]]
PacketsOf(m) == {m} \X (1..Len(Shape[m]))
IsControl(p) == KindOf(p) = "control"
Zcopy(p) == KindOf(p) \in {"page", "end"}
Tracked(p) == Mode[p[1]] \notin {"control", "resp"} \* has done() and owner_ctx
NoPacket == <<NoMsg, 0>>

VARIABLES
  closed,      \* tx_closed
  ctlq, dataq, \* tx_control_queue, tx_data_queue
  reserved,    \* tx_data_reserved
  holds,       \* holds[m]: frames m's poster still believes it has reserved
  pst,         \* where each packet is
  canceled,    \* packet->canceled
  group,       \* packet->start_credit_group_frames
  counted,     \* packet->raw_stream_counted
  raw,         \* tx_raw_stream_{active,owner,end_seen,inflight}
  free,        \* number of frames on tx_free
  inflight,    \* tx_inflight
  credits,     \* tx_remote_data_credits
  held,        \* frames submitted and not yet credited by the peer (ghost)
  scheduling,  \* tx_scheduling
  sched,       \* the thread inside the loop of schedule_tx()
  kicks,       \* calls of schedule_tx() about to be made
  decs,        \* atomic_dec(tx_inflight) still owed by requeueing schedulers
  retiring,    \* callbacks between packet release and tx_retire_one()
  ring,        \* descriptors owned by the NHI, oldest first
  hwdone,      \* how many of them carry RING_DESC_COMPLETED
  running,     \* ring->running
  q,           \* the quiescing thread
  order,       \* data packets accepted and not yet retired, in order (ghost)
  wire,        \* the raw stream the ring has begun and not ended (ghost)
  posts        \* posts[m]: times m was posted (bound)

queues == <<ctlq, dataq, reserved, holds, group, order, posts>>
rawvars == <<raw, counted>>
cvars == <<credits, held>>
svars == <<scheduling, sched, kicks, decs>>
hwvars == <<ring, hwdone, running, wire>>
vars == <<rail, closed, pst, canceled, free, inflight, retiring, q,
          queues, rawvars, cvars, svars, hwvars>>

NoRaw == [active |-> FALSE, owner |-> NoMsg, end |-> FALSE, inflight |-> 0]
IdleSched == [pc |-> "idle", p |-> NoPacket, group |-> 0, raw |-> NoRaw]

PStates == {"idle", "queued", "hand", "attached", "hw", "completing", "failing"}
SchedPcs == {"idle", "loop", "take", "ring", "errdec", "errrel", "errexit"}
RawStates == [active : BOOLEAN, owner : Msg \cup {NoMsg}, end : BOOLEAN, inflight : Nat]
QStates == {"open", "cancel", "drain", "stopping", "failed", "quarantined"}

QueueTypes ==
  /\ {ctlq, dataq, order} \subseteq Seq(Packet)
  /\ reserved \in Nat /\ holds \in [Msg -> Nat] /\ posts \in [Msg -> Nat]
  /\ group \in [Packet -> Nat]
PacketTypes ==
  /\ pst \in [Packet -> PStates] /\ {canceled, counted} \subseteq [Packet -> BOOLEAN]
SchedTypes ==
  /\ scheduling \in BOOLEAN /\ raw \in RawStates
  /\ sched \in [pc : SchedPcs, p : Packet \cup {NoPacket}, group : Nat, raw : RawStates]
CountTypes ==
  /\ free \in 0..FrameCount /\ credits \in 0..CreditMax
  /\ {inflight, held, kicks, decs, retiring} \subseteq Nat
RingTypes ==
  /\ ring \in Seq(Packet) /\ hwdone \in 0..Len(ring)
  /\ running \in BOOLEAN /\ wire \in Msg \cup {NoMsg}
TypeOK ==
  /\ rail \in Rails /\ closed \in BOOLEAN /\ q \in QStates
  /\ QueueTypes /\ PacketTypes /\ SchedTypes /\ CountTypes /\ RingTypes

Init ==
  /\ rail \in Rails
  /\ closed = FALSE /\ ctlq = <<>> /\ dataq = <<>> /\ order = <<>>
  /\ reserved = 0 /\ holds = [m \in Msg |-> 0] /\ posts = [m \in Msg |-> 0]
  /\ pst = [p \in Packet |-> "idle"]
  /\ canceled = [p \in Packet |-> FALSE] /\ counted = [p \in Packet |-> FALSE]
  /\ group = [p \in Packet |-> 0] /\ raw = NoRaw
  /\ free = FrameCount /\ inflight = 0
  /\ credits = CreditMax /\ held = 0
  /\ scheduling = FALSE /\ sched = IdleSched
  /\ kicks = 0 /\ decs = 0 /\ retiring = 0
  /\ ring = <<>> /\ hwdone = 0 /\ running = TRUE /\ wire = NoMsg
  /\ q = "open"

-----------------------------------------------------------------------------
(* Bounds computed by the code.                                            *)
Lesser(a, b) == IF a <= b THEN a ELSE b
Greater(a, b) == IF a >= b THEN a ELSE b

\* tbv_path_tx_control_frame_reserve(): a quarter of the staging frames,
\* clamped to 1..TBV_DATA_CREDIT_CONTROL_RESERVE.
CONTROL_RESERVE_MAX == 256
ControlFrameReserve ==
  IF FrameCount <= 1 THEN 0
  ELSE Lesser(Greater(FrameCount \div 4, 1), CONTROL_RESERVE_MAX)

\* tbv_native_data_credit_return_threshold()
ReturnThreshold ==
  IF CreditMax > 0 /\ CreditMax < CreditBatch THEN CreditMax ELSE CreditBatch

\* tbv_native_data_start_credit_required()
StartCreditRequired(frames) ==
  IF CreditMax = 0 THEN 0 ELSE Lesser(frames, ReturnThreshold)

\* The calling thread leaves its critical section and is about to call
\* tbv_path_schedule_tx(); at most MaxThreads threads are at that point.
Kick == kicks < MaxThreads /\ kicks' = kicks + 1

Admits == ~closed
Fresh(m) == /\ holds[m] = 0
            /\ \A p \in PacketsOf(m) : pst[p] = "idle"
            /\ MaxPosts = 0 \/ posts[m] < MaxPosts
Counted(m) == posts' = IF MaxPosts = 0 THEN posts ELSE [posts EXCEPT ![m] = @ + 1]
Frames(m) == [i \in 1..Len(Shape[m]) |-> <<m, i>>]
Indices(s) == 1..Len(s)
\* What is left of s without the elements of S, in its order: the k-th place
\* is taken by the k-th index that stays.
Rank(I, i) == Cardinality({j \in I : j <= i})
Kept(s, I) == [k \in 1..Cardinality(I) |-> s[CHOOSE i \in I : Rank(I, i) = k]]
Without(s, S) == Kept(s, {i \in Indices(s) : s[i] \notin S})
InState(S) == {p \in Packet : pst[p] \in S}
InSeq(s) == {s[i] : i \in Indices(s)}

-----------------------------------------------------------------------------
(* Posting.                                                                *)

\* The data queue takes the packets of s; the first one carries the group.
Accept(s) ==
  /\ dataq' = dataq \o s
  /\ order' = order \o s
  /\ pst' = [p \in Packet |-> IF p \in InSeq(s) THEN "queued" ELSE pst[p]]
  /\ group' = [p \in Packet |-> IF p \notin InSeq(s) THEN group[p]
                                ELSE IF p = s[1] THEN Len(s) ELSE 0]

EnqueueControl(m) ==
  /\ Mode[m] = "control" /\ Fresh(m) /\ Admits
  /\ ctlq' = Append(ctlq, <<m, 1>>)
  /\ pst' = [pst EXCEPT ![<<m, 1>>] = "queued"]
  /\ Kick
  /\ Counted(m)
  /\ UNCHANGED <<closed, dataq, reserved, holds, group, order, canceled,
                 rawvars, free, inflight, cvars, scheduling, sched, decs,
                 retiring, hwvars, q>>

\* What tbv_path_enqueue_data() does to tx_data_reserved, or refuses.
TakesSlot == \/ reserved > 0 /\ reserved' = reserved - 1
             \/ reserved = 0 /\ Len(dataq) < QueueLimit /\ UNCHANGED reserved

\* A single frame posted without a reservation (read request, GSI send).
EnqueueData(m) ==
  /\ Mode[m] = "one" /\ Fresh(m) /\ Admits
  /\ TakesSlot
  /\ Accept(Frames(m))
  /\ Kick
  /\ Counted(m)
  /\ UNCHANGED <<closed, ctlq, holds, canceled, rawvars, free, inflight,
                 cvars, scheduling, sched, decs, retiring, hwvars, q>>

\* Room for n more frames beside what is queued and reserved.
RoomFor(n) == n <= QueueLimit /\ Len(dataq) + reserved <= QueueLimit - n

\* tbv_path_send_page_stream() through tbv_path_enqueue_data_list().
EnqueueDataList(m) ==
  /\ Mode[m] = "list" /\ Fresh(m) /\ Admits
  /\ RoomFor(Len(Shape[m]))
  /\ Accept(Frames(m))
  /\ Kick
  /\ Counted(m)
  /\ UNCHANGED <<closed, ctlq, reserved, holds, canceled, rawvars, free,
                 inflight, cvars, scheduling, sched, decs, retiring, hwvars, q>>

ReserveData(m) ==
  /\ Mode[m] \in {"reserved", "each", "resp"} /\ Fresh(m) /\ Admits
  /\ RoomFor(Len(Shape[m]))
  /\ reserved' = reserved + Len(Shape[m])
  /\ holds' = [holds EXCEPT ![m] = Len(Shape[m])]
  /\ Counted(m)
  /\ UNCHANGED <<closed, ctlq, dataq, group, order, pst, canceled, rawvars,
                 free, inflight, cvars, svars, retiring, hwvars, q>>

\* tbv_path_enqueue_prepared_reserved() of the whole list.
EnqueueReservedDataList(m) ==
  /\ Mode[m] = "reserved" /\ holds[m] > 0 /\ Admits
  /\ reserved >= Len(Shape[m])
  /\ reserved' = reserved - Len(Shape[m])
  /\ holds' = [holds EXCEPT ![m] = 0]
  /\ Accept(Frames(m))
  /\ Kick
  /\ UNCHANGED <<closed, ctlq, posts, canceled, rawvars, free, inflight,
                 cvars, scheduling, sched, decs, retiring, hwvars, q>>

\* A poster that reserved all its frames enqueues them one by one: the Apple
\* SQ worker, or the RDMA READ responder, whose frames have neither done() nor
\* owner.  Scheduling is deferred to the last frame; the SQ worker also kicks
\* at the end of each frame group.
EnqueueReservedOne(m) ==
  /\ Mode[m] \in {"each", "resp"} /\ holds[m] > 0 /\ Admits
  /\ TakesSlot
  /\ holds' = [holds EXCEPT ![m] = @ - 1]
  /\ Accept(<<<<m, Len(Shape[m]) - holds[m] + 1>>>>)
  /\ \/ Kick /\ (holds[m] = 1 \/ Mode[m] = "each")
     \/ UNCHANGED kicks /\ holds[m] > 1
  /\ UNCHANGED <<closed, ctlq, posts, canceled, rawvars, free, inflight,
                 cvars, scheduling, sched, decs, retiring, hwvars, q>>

\* The poster gives up (its enqueue was refused, or it failed before it):
\* tbv_path_release_data_reservation() of what it still holds.
ReleaseDataReservation(m) ==
  /\ holds[m] > 0
  /\ reserved' = IF reserved >= holds[m] THEN reserved - holds[m] ELSE 0
  /\ holds' = [holds EXCEPT ![m] = 0]
  /\ IF holds[m] < Len(Shape[m]) THEN Kick ELSE UNCHANGED kicks
  /\ UNCHANGED <<closed, ctlq, dataq, group, order, posts, pst, canceled,
                 rawvars, free, inflight, cvars, scheduling, sched, decs,
                 retiring, hwvars, q>>

-----------------------------------------------------------------------------
(* tbv_path_schedule_tx().                                                 *)

\* A second caller finds tx_scheduling set and returns.
ScheduleTxEnter ==
  /\ kicks > 0
  /\ kicks' = kicks - 1
  /\ IF scheduling THEN UNCHANGED <<scheduling, sched>>
     ELSE scheduling' = TRUE /\ sched' = [IdleSched EXCEPT !.pc = "loop"]
  /\ UNCHANGED <<closed, queues, pst, canceled, rawvars, free, inflight,
                 cvars, decs, retiring, hwvars, q>>

\* Variant: the loop does not look at the raw stream.
CandidateAny ==
  IF ctlq # <<>> THEN Head(ctlq) ELSE IF dataq # <<>> THEN Head(dataq) ELSE NoPacket

\* The packet the loop looks at: inside a raw stream only its own pages,
\* otherwise control before data.
Candidate ==
  IF raw.active
  THEN IF dataq # <<>> /\ Zcopy(Head(dataq)) /\ OwnerOf(Head(dataq)) = raw.owner
       THEN Head(dataq) ELSE NoPacket
  ELSE IF ctlq # <<>> THEN Head(ctlq)
  ELSE IF dataq # <<>> THEN Head(dataq) ELSE NoPacket

UnderInflightLimit(p) ==
  IsControl(p) \/ InflightLimit = 0 \/ inflight < InflightLimit
HasStaging(p) ==
  Zcopy(p) \/ /\ free > 0
              /\ IsControl(p) \/ FrameCount - inflight > ControlFrameReserve
Charged(p) == ~IsControl(p) /\ CreditMax > 0
HasCredit(p) == Charged(p) => credits >= Greater(1, StartCreditRequired(group[p]))

Sendable ==
  /\ Admits /\ Candidate # NoPacket
  /\ UnderInflightLimit(Candidate)
  /\ HasStaging(Candidate)
  /\ HasCredit(Candidate)

\* Every early exit of the loop clears tx_scheduling in the critical section
\* that decided to leave.
ScheduleTxStop ==
  /\ sched.pc = "loop" /\ ~Sendable
  /\ scheduling' = FALSE /\ sched' = IdleSched
  /\ UNCHANGED <<closed, queues, pst, canceled, rawvars, free, inflight,
                 cvars, kicks, decs, retiring, hwvars, q>>

\* tbv_path_count_raw_stream_locked()
RawAfter(p) ==
  LET r == IF KindOf(p) = "start"
           THEN [active |-> TRUE, owner |-> OwnerOf(p), end |-> FALSE, inflight |-> 0]
           ELSE raw
  IN  IF r.active /\ OwnerOf(p) = r.owner
      THEN [r EXCEPT !.inflight = @ + 1] ELSE r
CountsRaw(p) == RawAfter(p).active /\ OwnerOf(p) = RawAfter(p).owner

ScheduleTxTake ==
  LET p == Candidate IN
  /\ sched.pc = "loop" /\ Sendable
  /\ credits' = IF Charged(p) THEN credits - 1 ELSE credits
  /\ ctlq' = IF IsControl(p) THEN Tail(ctlq) ELSE ctlq
  /\ dataq' = IF IsControl(p) THEN dataq ELSE Tail(dataq)
  /\ group' = [group EXCEPT ![p] = 0]
  /\ raw' = RawAfter(p)
  /\ counted' = [counted EXCEPT ![p] = @ \/ CountsRaw(p)]
  /\ free' = IF Zcopy(p) THEN free ELSE free - 1
  /\ inflight' = inflight + 1
  /\ pst' = [pst EXCEPT ![p] = "hand"]
  /\ sched' = [pc |-> "take", p |-> p, group |-> group[p], raw |-> raw]
  /\ UNCHANGED <<closed, reserved, holds, order, posts, canceled, held,
                 scheduling, kicks, decs, retiring, hwvars, q>>

\* The packet becomes visible to cancellation: on tx_zcopy_inflight, or as
\* the packet of its staging frame.
ScheduleTxAttach ==
  /\ sched.pc = "take"
  /\ pst' = [pst EXCEPT ![sched.p] = "attached"]
  /\ sched' = [sched EXCEPT !.pc = "ring"]
  /\ UNCHANGED <<closed, queues, canceled, rawvars, free, inflight, cvars,
                 scheduling, kicks, decs, retiring, hwvars, q>>

\* The pages of m's stream wait behind its header (not canceled meanwhile).
StreamWhole(m) == \A i \in 2..Len(Shape[m]) : pst[<<m, i>>] = "queued"

\* tb_ring_tx() took the descriptor.
ScheduleTxPosted ==
  LET p == sched.p IN
  /\ sched.pc = "ring" /\ running
  /\ ring' = Append(ring, p)
  /\ wire' = CASE KindOf(p) = "start" /\ StreamWhole(OwnerOf(p)) -> OwnerOf(p)
               [] KindOf(p) = "end" /\ wire = OwnerOf(p) -> NoMsg
               [] OTHER -> wire
  /\ pst' = [pst EXCEPT ![p] = "hw"]
  /\ held' = IF Charged(p) THEN held + 1 ELSE held
  /\ sched' = [IdleSched EXCEPT !.pc = "loop"]
  /\ UNCHANGED <<closed, queues, canceled, rawvars, free, inflight, credits,
                 scheduling, kicks, decs, retiring, hwdone, running, q>>

\* What both failure exits give back: staging frame, raw-stream snapshot and
\* credit.
Undo(p) ==
  /\ free' = IF Zcopy(p) THEN free ELSE free + 1
  /\ raw' = sched.raw
  /\ counted' = [counted EXCEPT ![p] = FALSE]
  /\ credits' = IF Charged(p) THEN Lesser(credits + 1, CreditMax) ELSE credits

\* Variant: the refused packet goes to the tail of its queue.
ScheduleTxRequeueTail ==
  LET p == sched.p IN
  /\ sched.pc = "ring" /\ running /\ RingRefuses
  /\ IsControl(p) \/ Tracked(p)
  /\ decs < MaxThreads
  /\ Undo(p)
  /\ ctlq' = IF IsControl(p) THEN Append(ctlq, p) ELSE ctlq
  /\ dataq' = IF IsControl(p) THEN dataq ELSE Append(dataq, p)
  /\ group' = IF IsControl(p) THEN group ELSE [group EXCEPT ![p] = sched.group]
  /\ pst' = [pst EXCEPT ![p] = "queued"]
  /\ scheduling' = FALSE /\ sched' = IdleSched
  /\ decs' = decs + 1
  /\ UNCHANGED <<closed, reserved, holds, order, posts, canceled, inflight,
                 held, kicks, retiring, hwvars, q>>

\* -ENOMEM: the packet goes back to the head of its queue, the loop is left.
ScheduleTxRequeue ==
  LET p == sched.p IN
  /\ sched.pc = "ring" /\ running /\ RingRefuses
  /\ IsControl(p) \/ Tracked(p)
  /\ decs < MaxThreads
  /\ Undo(p)
  /\ ctlq' = IF IsControl(p) THEN <<p>> \o ctlq ELSE ctlq
  /\ dataq' = IF IsControl(p) THEN dataq ELSE <<p>> \o dataq
  /\ group' = IF IsControl(p) THEN group ELSE [group EXCEPT ![p] = sched.group]
  /\ pst' = [pst EXCEPT ![p] = "queued"]
  /\ scheduling' = FALSE /\ sched' = IdleSched
  /\ decs' = decs + 1
  /\ UNCHANGED <<closed, reserved, holds, order, posts, canceled, inflight,
                 held, kicks, retiring, hwvars, q>>

\* Variant: the requeueing thread keeps its tx_inflight count.
RequeueNoDec ==
  /\ decs > 0
  /\ decs' = decs - 1
  /\ UNCHANGED <<closed, queues, pst, canceled, rawvars, free, inflight, cvars,
                 scheduling, sched, kicks, retiring, hwvars, q>>

\* The requeueing thread drops its tx_inflight count after the unlock.
RequeueDec ==
  /\ decs > 0
  /\ decs' = decs - 1
  /\ inflight' = inflight - 1
  /\ UNCHANGED <<closed, queues, pst, canceled, rawvars, free, cvars,
                 scheduling, sched, kicks, retiring, hwvars, q>>

\* Any other error (the ring is stopped), or a refused packet that nobody
\* tracks: the packet is released.
ScheduleTxFail ==
  LET p == sched.p IN
  /\ sched.pc = "ring"
  /\ ~running \/ (RingRefuses /\ ~IsControl(p) /\ ~Tracked(p))
  /\ Undo(p)
  /\ pst' = [pst EXCEPT ![p] = "failing"]
  /\ sched' = [sched EXCEPT !.pc = "errdec"]
  /\ UNCHANGED <<closed, queues, canceled, inflight, held, scheduling, kicks,
                 decs, retiring, hwvars, q>>

FailDec ==
  /\ sched.pc = "errdec"
  /\ inflight' = inflight - 1
  /\ sched' = [sched EXCEPT !.pc = "errrel"]
  /\ UNCHANGED <<closed, queues, pst, canceled, rawvars, free, cvars,
                 scheduling, kicks, decs, retiring, hwvars, q>>

FailRelease ==
  /\ sched.pc = "errrel"
  /\ pst' = [pst EXCEPT ![sched.p] = "idle"]
  /\ canceled' = [canceled EXCEPT ![sched.p] = FALSE]
  /\ order' = Without(order, {sched.p})
  /\ sched' = [sched EXCEPT !.pc = "errexit"]
  /\ UNCHANGED <<closed, ctlq, dataq, reserved, holds, group, posts, rawvars,
                 free, inflight, cvars, scheduling, kicks, decs, retiring,
                 hwvars, q>>

FailExit ==
  /\ sched.pc = "errexit"
  /\ scheduling' = FALSE /\ sched' = IdleSched
  /\ UNCHANGED <<closed, queues, pst, canceled, rawvars, free, inflight,
                 cvars, kicks, decs, retiring, hwvars, q>>

-----------------------------------------------------------------------------
(* The NHI and its callbacks.                                              *)

\* The NHI transmits the next descriptor and marks it completed.
HwConsume ==
  /\ running /\ hwdone < Len(ring)
  /\ hwdone' = hwdone + 1
  /\ UNCHANGED <<closed, queues, pst, canceled, rawvars, free, inflight,
                 cvars, svars, retiring, ring, running, wire, q>>

\* A completion callback (interrupt, poll work or reap) has taken the oldest
\* completed frame off the ring and detached its packet under tx_lock.
TxComplete ==
  LET p == Head(ring) IN
  /\ running /\ hwdone > 0
  /\ Cardinality(InState({"completing"})) + retiring < MaxThreads
  /\ ring' = Tail(ring) /\ hwdone' = hwdone - 1
  /\ free' = IF Zcopy(p) THEN free ELSE free + 1
  /\ pst' = [pst EXCEPT ![p] = "completing"]
  /\ UNCHANGED <<closed, queues, canceled, rawvars, inflight, cvars, svars,
                 retiring, running, wire, q>>

\* tbv_path_finish_raw_stream_if_needed()
RawFinished(p) ==
  IF ~counted[p] THEN raw
  ELSE LET n == IF raw.inflight > 0 THEN raw.inflight - 1 ELSE 0
           e == raw.end \/ KindOf(p) = "end"
           r == IF raw.owner # OwnerOf(p) THEN raw
                ELSE [raw EXCEPT !.end = e, !.inflight = n]
       IN IF ~r.active \/ (raw.owner = OwnerOf(p) /\ e /\ n = 0) THEN NoRaw ELSE r

\* The callback finishes the raw stream and releases the packet: done() runs.
TxCompleteRelease(p) ==
  /\ pst[p] = "completing"
  /\ raw' = RawFinished(p)
  /\ counted' = [counted EXCEPT ![p] = FALSE]
  /\ pst' = [pst EXCEPT ![p] = "idle"]
  /\ canceled' = [canceled EXCEPT ![p] = FALSE]
  /\ order' = Without(order, {p})
  /\ retiring' = retiring + 1
  /\ UNCHANGED <<closed, ctlq, dataq, reserved, holds, group, posts, free,
                 inflight, cvars, svars, hwvars, q>>

\* Variant: the callback does not call schedule_tx() again.
TxRetireNoKick ==
  /\ retiring > 0
  /\ retiring' = retiring - 1
  /\ inflight' = inflight - 1
  /\ UNCHANGED <<closed, queues, pst, canceled, rawvars, free, cvars,
                 svars, hwvars, q>>

\* tbv_path_tx_retire_one(), then the callback is about to call schedule_tx().
TxRetireOne ==
  /\ retiring > 0
  /\ retiring' = retiring - 1
  /\ inflight' = inflight - 1
  /\ Kick
  /\ UNCHANGED <<closed, queues, pst, canceled, rawvars, free, cvars,
                 scheduling, sched, decs, hwvars, q>>

\* A PATH_CREDIT frame from the peer, who returns at least a threshold.
AddRemoteRxCredits(n) ==
  /\ CreditMax > 0 /\ n \in ReturnThreshold..held
  /\ credits' = Lesser(credits + n, CreditMax)
  /\ held' = held - n
  /\ Kick
  /\ UNCHANGED <<closed, queues, pst, canceled, rawvars, free, inflight,
                 scheduling, sched, decs, retiring, hwvars, q>>

-----------------------------------------------------------------------------
(* Cancellation and quiesce.                                               *)

\* Variant: cancellation also releases what the NHI still reads.
CancelReleasesAll(m) ==
  LET gone == {p \in PacketsOf(m) : Tracked(p) /\ pst[p] # "idle"} IN
  /\ gone # {}
  /\ dataq' = Without(dataq, gone)
  /\ order' = Without(order, gone)
  /\ pst' = [p \in Packet |-> IF p \in gone THEN "idle" ELSE pst[p]]
  /\ UNCHANGED <<closed, ctlq, reserved, holds, group, posts, canceled, rawvars,
                 free, inflight, cvars, svars, retiring, hwvars, q>>

\* tbv_path_cancel_data_match() for one owner: what is queued is released,
\* what is attached to a descriptor is only marked.
CancelDataOwner(m) ==
  LET mine == {p \in PacketsOf(m) : Tracked(p)}
      gone == {p \in mine : pst[p] = "queued"}
      reset == raw.active /\ raw.owner = m
  IN
  /\ \E p \in mine : pst[p] # "idle"
  /\ raw' = IF reset THEN NoRaw ELSE raw
  /\ dataq' = Without(dataq, gone)
  /\ order' = Without(order, gone)
  /\ pst' = [p \in Packet |-> IF p \in gone THEN "idle" ELSE pst[p]]
  /\ group' = [p \in Packet |-> IF p \in gone THEN 0 ELSE group[p]]
  /\ canceled' = [p \in Packet |->
       IF p \in gone THEN FALSE
       ELSE canceled[p] \/ (p \in mine /\ pst[p] \in {"attached", "hw"})]
  /\ wire' = IF wire = m THEN NoMsg ELSE wire
  /\ IF reset THEN Kick ELSE UNCHANGED kicks
  /\ UNCHANGED <<closed, ctlq, reserved, holds, posts, counted, free,
                 inflight, cvars, scheduling, sched, decs, retiring, ring,
                 hwdone, running, q>>

QuiesceClose ==
  /\ Quiesces /\ q = "open"
  /\ closed' = TRUE /\ q' = "cancel"
  /\ UNCHANGED <<queues, pst, canceled, rawvars, free, inflight, cvars, svars,
                 retiring, hwvars>>

\* tbv_path_cancel_queued_tx(), once the producers have stopped and dropped
\* what they had reserved.
QuiesceCancelQueued ==
  LET gone == InSeq(ctlq) \cup InSeq(dataq) IN
  /\ q = "cancel" /\ \A m \in Msg : holds[m] = 0
  /\ ctlq' = <<>> /\ dataq' = <<>> /\ reserved' = 0
  /\ raw' = NoRaw
  /\ order' = Without(order, gone)
  /\ pst' = [p \in Packet |-> IF p \in gone THEN "idle" ELSE pst[p]]
  /\ group' = [p \in Packet |-> IF p \in gone THEN 0 ELSE group[p]]
  /\ canceled' = [p \in Packet |-> p \notin gone /\ canceled[p]]
  /\ q' = "drain"
  /\ UNCHANGED <<closed, holds, posts, counted, free, inflight, cvars, svars,
                 retiring, hwvars>>

\* tbv_path_tx_retired()
TxRetired == inflight = 0 /\ ctlq = <<>> /\ dataq = <<>>

\* tbv_path_drain_tx() succeeded: the rail is unbound and TX reopened.
QuiesceDrained ==
  /\ q = "drain" /\ TxRetired
  /\ closed' = FALSE /\ q' = "open"
  /\ Kick
  /\ UNCHANGED <<queues, pst, canceled, rawvars, free, inflight, cvars,
                 scheduling, sched, decs, retiring, hwvars>>

\* The drain timed out (a verdict that may be stale by now):
\* tbv_path_ring_barrier() stops the ring pair.
QuiesceBarrierStop ==
  /\ q = "drain"
  /\ running' = FALSE /\ q' = "stopping"
  /\ UNCHANGED <<closed, queues, pst, canceled, rawvars, free, inflight,
                 cvars, svars, retiring, ring, hwdone, wire>>

\* tb_ring_stop() runs the callback of every frame with canceled = TRUE.
RingStopCallback ==
  LET p == Head(ring) IN
  /\ q = "stopping" /\ ring # <<>>
  /\ ring' = Tail(ring) /\ hwdone' = Greater(hwdone - 1, 0)
  /\ free' = IF Zcopy(p) THEN free ELSE free + 1
  /\ raw' = RawFinished(p)
  /\ counted' = [counted EXCEPT ![p] = FALSE]
  /\ pst' = [pst EXCEPT ![p] = "idle"]
  /\ canceled' = [canceled EXCEPT ![p] = FALSE]
  /\ order' = Without(order, {p})
  /\ inflight' = inflight - 1
  /\ Kick
  /\ UNCHANGED <<closed, ctlq, dataq, reserved, holds, group, posts, cvars,
                 scheduling, sched, decs, retiring, running, wire, q>>

\* Variant: the barrier trusts tb_ring_stop() and does not look at tx_inflight.
QuiesceBarrierUnchecked ==
  /\ q = "stopping" /\ ring = <<>>
  /\ q' = "quarantined" /\ running' = TRUE /\ wire' = NoMsg
  /\ UNCHANGED <<closed, queues, pst, canceled, rawvars, free, inflight,
                 cvars, svars, retiring, ring, hwdone>>

\* The barrier's verdict: frames still counted mean -EIO, otherwise the pair
\* is restarted and the rail quarantined.
QuiesceBarrier ==
  /\ q = "stopping" /\ ring = <<>>
  /\ IF inflight # 0 THEN q' = "failed" /\ UNCHANGED <<running, wire>>
     ELSE q' = "quarantined" /\ running' = TRUE /\ wire' = NoMsg
  /\ UNCHANGED <<closed, queues, pst, canceled, rawvars, free, inflight,
                 cvars, svars, retiring, ring, hwdone>>

\* A new peer session lifts the quarantine (tbv_rail_apple_admit_locked()).
QuarantineLift ==
  /\ q = "quarantined" /\ inflight = 0
  /\ closed' = FALSE /\ q' = "open"
  /\ Kick
  /\ UNCHANGED <<queues, pst, canceled, rawvars, free, inflight, cvars,
                 scheduling, sched, decs, retiring, hwvars>>

-----------------------------------------------------------------------------
\* The entry points build the packets and take the queue of their class.
Post == \E m \in Msg : \/ EnqueueControl(m) \/ EnqueueData(m)
                       \/ EnqueueDataList(m) \/ ReserveData(m)
                       \/ EnqueueReservedDataList(m) \/ EnqueueReservedOne(m)
                       \/ ReleaseDataReservation(m)
Scheduler == \/ ScheduleTxEnter \/ ScheduleTxStop \/ ScheduleTxTake
             \/ ScheduleTxAttach \/ ScheduleTxPosted
             \/ RequeueDec \/ ScheduleTxFail
             \/ FailDec \/ FailRelease \/ FailExit
Callback == TxComplete \/ TxRetireOne \/ \E p \in Packet : TxCompleteRelease(p)
PeerCredit == \E n \in 1..CreditMax : AddRemoteRxCredits(n)
Quiesce == \/ QuiesceClose \/ QuiesceCancelQueued \/ QuiesceDrained
           \/ QuiesceBarrierStop \/ RingStopCallback \/ QuiesceBarrier
           \/ QuarantineLift
Cancel == \E m \in Msg : CancelDataOwner(m)

Step == \/ Post \/ Scheduler \/ ScheduleTxRequeue \/ Callback \/ HwConsume
        \/ PeerCredit \/ Cancel \/ Quiesce
Next == UNCHANGED rail /\ Step

Spec == Init /\ [][Next]_vars

\* Every thread that is inside the path goes on; the NHI consumes what it was
\* given; the peer returns credits; a poster finishes what it reserved for.
LoopStep == \/ ScheduleTxStop \/ ScheduleTxTake \/ ScheduleTxAttach
            \/ ScheduleTxPosted \/ ScheduleTxFail
            \/ FailDec \/ FailRelease \/ FailExit
Release(p) == p \in Packet /\ TxCompleteRelease(p)
Finish(m) == m \in Msg /\ (EnqueueReservedOne(m) \/ EnqueueReservedDataList(m)
                             \/ ReleaseDataReservation(m))
AllMsg == UNION {r.msg : r \in Rails}
AllPackets == UNION {UNION {{m} \X Indices(r.shape[m]) : m \in r.msg} : r \in Rails}
Fairness ==
  /\ WF_vars(UNCHANGED rail /\ ScheduleTxEnter) /\ WF_vars(UNCHANGED rail /\ LoopStep)
  /\ WF_vars(UNCHANGED rail /\ RequeueDec) /\ WF_vars(UNCHANGED rail /\ HwConsume)
  /\ WF_vars(UNCHANGED rail /\ TxComplete) /\ WF_vars(UNCHANGED rail /\ TxRetireOne)
  /\ \A p \in AllPackets : WF_vars(UNCHANGED rail /\ Release(p))
  /\ WF_vars(UNCHANGED rail /\ PeerCredit)
  /\ \A m \in AllMsg : WF_vars(UNCHANGED rail /\ Finish(m))
FairSpec == Spec /\ Fairness
-----------------------------------------------------------------------------
(* Properties.                                                             *)

\* tx_inflight counts exactly the packets between the scheduler's dequeue and
\* the end of their completion callback, and the decrements still owed by
\* threads that have left their critical section: a count that is ever short
\* lets a drain or a barrier report an empty ring that is not empty.
InflightAccounting ==
  inflight = Cardinality(InState({"hand", "attached", "hw", "completing"}))
             + (IF sched.pc = "errdec" THEN 1 ELSE 0) + decs + retiring

\* Staging frames are conserved, and data never takes the frames that
\* tbv_path_tx_control_frame_reserve() keeps for control packets, whatever the
\* order of completions and failed submissions.
StagingConservation ==
  LET staged == {p \in InState({"hand", "attached", "hw"}) : ~Zcopy(p)}
      data == {p \in staged : ~IsControl(p)}
  IN /\ free + Cardinality(staged) = FrameCount
     /\ Cardinality(data) <= FrameCount - ControlFrameReserve

\* A packet whose descriptor is in the NHI ring still has its done() and its
\* owner reference: cancellation never releases it early (the comment on
\* tbv_path_cancel_data_match()).
DmaKeepsOwner == \A i \in Indices(ring) : pst[ring[i]] = "hw"

\* When tbv_path_tx_retired() holds, no packet can still reach the wire: none
\* is queued, in the scheduler's hands or in the ring.
RetiredIsQuiet ==
  TxRetired => InState({"queued", "hand", "attached", "hw", "completing"}) = {}

\* The software queue and the reservations against it never exceed the limit,
\* or only by the one packet a refused submission puts back.
QueueBound ==
  Len(dataq) + reserved <= QueueLimit + (IF RingRefuses THEN 1 ELSE 0)

\* No credit is lost or invented by the scheduler: what the sender may still
\* use, what it has charged for the packet in its hands and what the peer has
\* to give back add up to the window.
CreditConservation ==
  CreditMax > 0 =>
    credits + held
      + Cardinality({p \in InState({"hand", "attached"}) : Charged(p)}) = CreditMax

\* Every count the scheduler, the callbacks and the quiesce decide by is exact,
\* in every interleaving of posters, scheduler, callbacks and cancellation.
CountersExact ==
  /\ TypeOK
  /\ InflightAccounting
  /\ StagingConservation
  /\ QueueBound
  /\ CreditConservation

\* Data packets reach the ring in the order in which they were accepted, also
\* when a submission was refused and its packet put back at the head while
\* others were posting: ring, hand and queue, read in this order, are in the
\* order of acceptance.
WireOrder ==
  LET data == Without(ring, {p \in Packet : IsControl(p)})
      hand == IF sched.pc \in {"take", "ring"} /\ ~IsControl(sched.p)
              THEN <<sched.p>> ELSE <<>>
      path == data \o hand \o dataq
  IN path = Without(order, Packet \ InSeq(path))

\* Once a raw stream's header is in the ring, the next frame that reaches the
\* ring is one of its pages: the receiver takes every frame as raw payload
\* until the stream is complete (tbv_path_rx_complete()).
RawStreamUnbroken ==
  [][Len(ring') > Len(ring) /\ wire # NoMsg
       => OwnerOf(ring'[Len(ring')]) = wire]_vars

\* Nothing survives a quiesce that let the rail be bound again: neither a
\* queued packet nor a descriptor of the old epoch can be sent to the
\* successor (the comment in tbv_apple_path_quiesce(), and "nothing may be
\* enqueued, reserved or scheduled" on tbv_path_tx_admits_locked()).
QuarantinedIsQuiet ==
  q = "quarantined" =>
    InState({"queued", "hand", "attached", "hw", "completing"}) = {}

\* Neither verdict by which a rail is unbound, that of the drain and that of
\* the forced barrier, is given while a packet can still reach the wire.
QuiescedIsQuiet == RetiredIsQuiet /\ QuarantinedIsQuiet

Queued(p) == p \in Packet /\ pst[p] = "queued"

\* A queued packet does not stay queued: no exit of the scheduler loses the
\* wakeup of a packet that was posted while it was leaving, and neither the
\* control reserve, the in-flight limit nor the credit window wedges the queue.
QueueDrains == \A p \in AllPackets : Queued(p) ~> ~Queued(p)
====
