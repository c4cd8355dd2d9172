----------------------------- MODULE PathCredit -----------------------------
(***************************************************************************)
(* The data-credit scheme between the two ends of a native path            *)
(* (kernel/path.c, proto/native_data.h), in one direction.  The sender      *)
(* charges one credit per data frame and wants min(frames, threshold)       *)
(* credits before it starts a group of frames; the receiver reposts the     *)
(* frame's descriptor and returns credits in batches of the threshold, in   *)
(* PATH_CREDIT control frames.  Frames are counted, not identified: which   *)
(* frame holds a credit never matters.                                      *)
(***************************************************************************)
EXTENDS Integers

CONSTANTS RxRingSize,     \* cfg.rx_ring_size of the receiver, sent in HELLO
          ControlReserve, \* TBV_DATA_CREDIT_CONTROL_RESERVE
          Batch,          \* TBV_NATIVE_DATA_CREDIT_BATCH
          MaxGroup,       \* bound: frames of one group
          MaxLost,        \* bound: credits lost with frames lost or rejected
          MaxRefused      \* bound: failures of tbv_path_send_rx_credit()

ASSUME CreditAssumption ==
  /\ RxRingSize \in Nat \ {0} /\ ControlReserve \in Nat \ {0}
  /\ Batch \in Nat \ {0} /\ MaxGroup \in Nat \ {0}
  /\ MaxLost \in Nat /\ MaxRefused \in Nat

Lesser(a, b) == IF a <= b THEN a ELSE b
Greater(a, b) == IF a >= b THEN a ELSE b

\* Variant: the control reserve is not subtracted.
RawWindowNoReserve == RxRingSize

\* tbv_path_data_credit_window(): the ring less the control reserve, in whole
\* batches once it is larger than a batch.
RawWindow == IF RxRingSize <= ControlReserve THEN RxRingSize \div 2
             ELSE RxRingSize - ControlReserve
Window == LET w == IF RawWindow > Batch THEN RawWindow - (RawWindow % Batch)
                   ELSE RawWindow
          IN  IF w = 0 THEN 1 ELSE w

\* tbv_native_data_credit_return_threshold()
Threshold == IF Window < Batch THEN Window ELSE Batch

\* Variant: a credit is required for every frame of the group.
RequiredUncapped(frames) == Greater(1, frames)

\* tbv_native_data_start_credit_required(), and at least the frame's own.
Required(frames) == Greater(1, Lesser(frames, Threshold))

VARIABLES credits,  \* sender: tx_remote_data_credits
          left,     \* sender: frames of the head group still queued
          group,    \* sender: start_credit_group_frames of the head packet
          wire,     \* data frames between the sender's ring and the peer's
          rxring,   \* data frames that occupy a receive descriptor
          pending,  \* receiver: rx_data_credit_pending
          sending,  \* receiver: credits taken out of pending, not yet queued
          back,     \* credits in PATH_CREDIT frames on their way back
          lost,     \* credits whose frame was lost or rejected (ghost)
          refused   \* failures of tbv_path_send_rx_credit() so far (ghost)

vars == <<credits, left, group, wire, rxring, pending, sending, back, lost, refused>>

TypeOK ==
  /\ credits \in 0..Window
  /\ left \in 0..MaxGroup /\ group \in 0..MaxGroup
  /\ wire \in Nat /\ rxring \in Nat /\ pending \in Nat /\ sending \in Nat
  /\ back \in Nat /\ lost \in 0..MaxLost /\ refused \in 0..MaxRefused

\* tbv_path_set_remote_rx_capacity() of the HELLO exchange, before any data.
Init ==
  /\ credits = Window
  /\ left = 0 /\ group = 0
  /\ wire = 0 /\ rxring = 0 /\ pending = 0 /\ sending = 0 /\ back = 0
  /\ lost = 0 /\ refused = 0

\* The next group reaches the head of tx_data_queue.
PostGroup(n) ==
  /\ left = 0
  /\ left' = n /\ group' = n
  /\ UNCHANGED <<credits, wire, rxring, pending, sending, back, lost, refused>>

\* tbv_path_schedule_tx(): the head packet is charged and submitted.
SendFrame ==
  /\ left > 0 /\ credits >= Required(group)
  /\ credits' = credits - 1
  /\ left' = left - 1 /\ group' = 0
  /\ wire' = wire + 1
  /\ UNCHANGED <<rxring, pending, sending, back, lost, refused>>

\* The frame lands in a posted receive descriptor.
Arrive ==
  /\ wire > 0
  /\ wire' = wire - 1 /\ rxring' = rxring + 1
  /\ UNCHANGED <<credits, left, group, pending, sending, back, lost, refused>>

\* Variant: credits are returned when the whole window is used up.
RxCompleteLateReturn ==
  /\ rxring > 0
  /\ rxring' = rxring - 1
  /\ IF pending + 1 >= Window
     THEN pending' = 0 /\ sending' = sending + pending + 1
     ELSE pending' = pending + 1 /\ UNCHANGED sending
  /\ UNCHANGED <<credits, left, group, wire, back, lost, refused>>

\* tbv_path_rx_complete(): the frame is handled, its descriptor reposted, and
\* tbv_path_return_rx_data_credit() takes the batch out once it is full.
RxComplete ==
  /\ rxring > 0
  /\ rxring' = rxring - 1
  /\ IF pending + 1 >= Threshold
     THEN pending' = 0 /\ sending' = sending + pending + 1
     ELSE pending' = pending + 1 /\ UNCHANGED sending
  /\ UNCHANGED <<credits, left, group, wire, back, lost, refused>>

\* tbv_path_send_rx_credit() of n credits; several RX contexts may be here.
\* Which context took how many is not kept: n is any part of their sum.
SendRxCredit(n) ==
  /\ n \in 1..sending
  /\ sending' = sending - n /\ back' = back + n
  /\ UNCHANGED <<credits, left, group, wire, rxring, pending, lost, refused>>

\* Variant: the credits of a refused credit frame are dropped.
SendRxCreditDropped(n) ==
  /\ refused < MaxRefused /\ n \in 1..sending
  /\ sending' = sending - n /\ refused' = refused + 1
  /\ UNCHANGED <<credits, left, group, wire, rxring, pending, back, lost>>

\* It failed: the credits go back to pending, and wait for the next RX frame.
SendRxCreditFails(n) ==
  /\ refused < MaxRefused /\ n \in 1..sending
  /\ sending' = sending - n /\ pending' = pending + n
  /\ refused' = refused + 1
  /\ UNCHANGED <<credits, left, group, wire, rxring, back, lost>>

\* tbv_path_add_remote_rx_credits()
AddRemoteRxCredits(n) ==
  /\ n \in 1..back
  /\ back' = back - n
  /\ credits' = IF n > Window - credits THEN Window ELSE credits + n
  /\ UNCHANGED <<left, group, wire, rxring, pending, sending, lost, refused>>

\* The link loses a data frame.
LoseFrame ==
  /\ lost < MaxLost /\ wire > 0
  /\ wire' = wire - 1 /\ lost' = lost + 1
  /\ UNCHANGED <<credits, left, group, rxring, pending, sending, back, refused>>

\* rx_complete() rejects the frame (bad header, failed repost): no credit.
RejectFrame ==
  /\ lost < MaxLost /\ rxring > 0
  /\ rxring' = rxring - 1 /\ lost' = lost + 1
  /\ UNCHANGED <<credits, left, group, wire, pending, sending, back, refused>>

\* The link loses a PATH_CREDIT frame that carried n credits.
LoseCredit(n) ==
  /\ n \in 1..back /\ lost + n <= MaxLost
  /\ back' = back - n /\ lost' = lost + n
  /\ UNCHANGED <<credits, left, group, wire, rxring, pending, sending, refused>>

Next ==
  \/ \E n \in 1..MaxGroup : PostGroup(n)
  \/ SendFrame \/ Arrive \/ RxComplete
  \/ \E n \in 1..sending : SendRxCredit(n) \/ SendRxCreditFails(n)
  \/ \E n \in 1..back : AddRemoteRxCredits(n) \/ LoseCredit(n)
  \/ LoseFrame \/ RejectFrame

Spec == Init /\ [][Next]_vars

\* Frames and credit frames that are not lost arrive and are handled, and the
\* scheduler submits what it may (it is kicked by every credit it accepts).
FairSpec ==
  /\ Spec
  /\ WF_vars(SendFrame) /\ WF_vars(Arrive) /\ WF_vars(RxComplete)
  /\ WF_vars(\E n \in 1..sending : SendRxCredit(n))
  /\ WF_vars(\E n \in 1..back : AddRemoteRxCredits(n))

-----------------------------------------------------------------------------
\* Every credit of the window is somewhere: with the sender, with a frame on
\* its way, with the receiver, in a PATH_CREDIT frame, or lost for good.
CreditConservation ==
  credits + wire + rxring + pending + sending + back + lost = Window

\* The sender never has more data frames out than the receiver has posted
\* descriptors beside its control reserve: the window is a real guarantee
\* that a data frame finds a descriptor (tbv_path_data_credit_window()).
NoRxOverrun ==
  /\ wire + rxring <= Window
  /\ RxRingSize > ControlReserve => wire + rxring <= RxRingSize - ControlReserve

\* What the receiver keeps back is less than a batch, as long as no credit
\* frame was refused by its own transmit queue.
PendingBelowThreshold == refused = 0 => pending < Threshold

\* With nothing in transit, lost or refused, the sender may start any group:
\* the credits the receiver is still collecting never starve it.  This is
\* what the window rounding and the cap of the start requirement are for.
NoCreditStall ==
  (wire = 0 /\ rxring = 0 /\ sending = 0 /\ back = 0 /\ lost = 0 /\ refused = 0)
    => credits >= Threshold

\* A group that reached the head of the queue is sent completely, as long as
\* no frame is lost and no PATH_CREDIT frame refused: nothing but a new HELLO
\* replaces the credits of a lost frame.
GroupIsSent == [](lost = 0 /\ refused = 0) => ((left > 0) ~> (left = 0))
=============================================================================
