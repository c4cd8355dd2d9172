-------------------------- MODULE PathCreditProofs --------------------------
(***************************************************************************)
(* Proofs about PathCredit, for every ring size, batch and group bound.    *)
(***************************************************************************)
EXTENDS PathCredit, TLAPS

\* The window computed by tbv_path_data_credit_window() is at least one
\* frame, at most what the ring has beside the control reserve, and the
\* return threshold fits into it.
LEMMA WindowFacts ==
  /\ Window \in Nat /\ Window >= 1
  /\ RxRingSize > ControlReserve => Window <= RxRingSize - ControlReserve
  /\ Threshold \in Nat /\ Threshold >= 1 /\ Threshold <= Window
<1>1. RawWindow \in Nat
  BY CreditAssumption DEF RawWindow
<1>2. RawWindow % Batch \in 0..(Batch - 1)
  BY <1>1, CreditAssumption
<1>3. RawWindow > Batch => RawWindow - (RawWindow % Batch) \in Nat /\ RawWindow - (RawWindow % Batch) <= RawWindow
                           /\ RawWindow - (RawWindow % Batch) >= 1
  BY <1>1, <1>2, CreditAssumption
<1>4. Window \in Nat /\ Window >= 1 /\ Window <= Greater(1, RawWindow)
  BY <1>1, <1>3, CreditAssumption DEF Window, Greater
<1>5. RxRingSize > ControlReserve => Window <= RxRingSize - ControlReserve
  BY <1>4, CreditAssumption DEF RawWindow, Greater
<1>6. Threshold \in Nat /\ Threshold >= 1 /\ Threshold <= Window
  BY <1>4, CreditAssumption DEF Threshold
<1> QED
  BY <1>4, <1>5, <1>6

\* A ring with two batches beside the control reserve gets a window of at
\* least two batches: this is where rounding the window down to whole batches
\* must not go below.
LEMMA TwoBatches ==
  ASSUME RxRingSize >= ControlReserve + 2 * Batch
  PROVE  Window >= 2 * Threshold
<1>1. RawWindow \in Nat /\ RawWindow >= 2 * Batch /\ RawWindow > Batch
  BY CreditAssumption DEF RawWindow
<1>2. /\ RawWindow % Batch \in 0..(Batch - 1)
      /\ RawWindow \div Batch \in Nat
      /\ RawWindow = Batch * (RawWindow \div Batch) + (RawWindow % Batch)
  BY <1>1, CreditAssumption
<1>3. RawWindow \div Batch >= 2
  BY <1>1, <1>2, CreditAssumption
<1>4. Batch * (RawWindow \div Batch) >= 2 * Batch
  <2>1. PICK j \in Nat : RawWindow \div Batch = 2 + j
    <3>1. (RawWindow \div Batch) - 2 \in Nat
      BY <1>2, <1>3
    <3> QED
      BY <1>2, <3>1
  <2>2. Batch * (2 + j) = 2 * Batch + Batch * j /\ Batch * j \in Nat
    BY <2>1, CreditAssumption
  <2> QED
    BY <2>1, <2>2, CreditAssumption
<1>5. Window >= 2 * Batch
  BY <1>1, <1>2, <1>4, CreditAssumption DEF Window
<1>6. Threshold = Batch
  BY <1>5, WindowFacts, CreditAssumption DEF Threshold
<1> QED
  BY <1>5, <1>6

-----------------------------------------------------------------------------
(* The inductive invariant: the conservation law needs the types (the       *)
(* clamp in tbv_path_add_remote_rx_credits() must never bite), and the      *)
(* stall freedom needs that what the receiver keeps back is below a batch.  *)
Inv == TypeOK /\ CreditConservation /\ PendingBelowThreshold

\* Right after the HELLO exchange the whole window lies with the sender.
LEMMA InitInv == Init => Inv
  BY WindowFacts, CreditAssumption
  DEF Init, Inv, TypeOK, CreditConservation, PendingBelowThreshold

\* Every send, arrival, credit return, refusal and loss keeps the invariant.
LEMMA NextInv == Inv /\ [Next]_vars => Inv'
<1> SUFFICES ASSUME Inv, [Next]_vars PROVE Inv'
  OBVIOUS
<1> USE WindowFacts, CreditAssumption
    DEF Inv, TypeOK, CreditConservation, PendingBelowThreshold
<1>1. ASSUME NEW n \in 1..MaxGroup, PostGroup(n) PROVE Inv'
  BY <1>1 DEF PostGroup
<1>2. CASE SendFrame
  <2>1. credits >= 1
    BY <1>2 DEF SendFrame, Required, Greater, Lesser
  <2> QED
    BY <1>2, <2>1 DEF SendFrame
<1>3. CASE Arrive
  BY <1>3 DEF Arrive
<1>4. CASE RxComplete
  BY <1>4 DEF RxComplete
<1>5. ASSUME NEW n \in 1..sending, SendRxCredit(n) PROVE Inv'
  BY <1>5 DEF SendRxCredit
<1>6. ASSUME NEW n \in 1..sending, SendRxCreditFails(n) PROVE Inv'
  BY <1>6 DEF SendRxCreditFails
<1>7. ASSUME NEW n \in 1..back, AddRemoteRxCredits(n) PROVE Inv'
  BY <1>7 DEF AddRemoteRxCredits
<1>8. ASSUME NEW n \in 1..back, LoseCredit(n) PROVE Inv'
  BY <1>8 DEF LoseCredit
<1>9. CASE LoseFrame
  BY <1>9 DEF LoseFrame
<1>10. CASE RejectFrame
  BY <1>10 DEF RejectFrame
<1>11. CASE UNCHANGED vars
  BY <1>11 DEF vars
<1> QED
  BY <1>1, <1>2, <1>3, <1>4, <1>5, <1>6, <1>7, <1>8, <1>9, <1>10, <1>11
  DEF Next

\* The invariant holds throughout every run of a path.
LEMMA Invariance == Spec => []Inv
  BY InitInv, NextInv, PTL DEF Spec

\* The sender's credit count stays within the window and every count is a
\* natural number in every reachable state.
THEOREM TypeCorrect == Spec => []TypeOK
  BY Invariance, PTL DEF Inv

\* No sequence of sends, batched returns, refused credit frames and losses
\* creates or destroys a credit of the window.
THEOREM CreditsConserved == Spec => []CreditConservation
  BY Invariance, PTL DEF Inv

\* A data frame always finds a receive descriptor, for every ring size.
THEOREM RingNeverOverrun == Spec => []NoRxOverrun
<1>1. Inv => NoRxOverrun
  BY WindowFacts, CreditAssumption
  DEF Inv, TypeOK, CreditConservation, NoRxOverrun
<1> QED
  BY <1>1, Invariance, PTL

\* If the receive ring holds two batches beside the control reserve, the
\* credits the receiver is still collecting never keep the sender from
\* starting a group, whatever its length.
THEOREM CreditsNeverStall ==
  ASSUME RxRingSize >= ControlReserve + 2 * Batch
  PROVE  Spec => []NoCreditStall
<1>1. Inv => NoCreditStall
  BY WindowFacts, TwoBatches, CreditAssumption
  DEF Inv, TypeOK, CreditConservation, PendingBelowThreshold, NoCreditStall
<1> QED
  BY <1>1, Invariance, PTL
=============================================================================
