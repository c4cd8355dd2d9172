----------------------------- MODULE NativeWire -----------------------------
(***************************************************************************)
(* What the two ends of a native queue pair share: the work requests of    *)
(* the run, the PSN arithmetic of kernel/ibdev.c and the frames in flight. *)
(* One direction is modelled: SEND, RDMA_WRITE and RDMA_WRITE_IMM requests *)
(* of NativeTx, received by NativeRx.  Frames of a rail arrive in order or *)
(* not at all; control frames (ACK, RNR, error, receive credit) may use    *)
(* any rail and arrive in any order.                                       *)
(***************************************************************************)
EXTENDS Integers, Sequences, FiniteSets, Bags

CONSTANTS
  Conf,       \* scenarios
  Infinite,   \* TBV_SEND_RNR_RETRIES_INFINITE
  None,
  PsnMod,     \* TBV_PSN_MASK + 1
  FirstPsn,   \* the PSN the queue pair starts with
  MaxWr       \* TBV_IBDEV_MAX_QP_WR

\* A scenario.  rc: RC or UC; rails: data-ready rails of the peer; stripe:
\* native_fragment_striping; rnr: rnr_retry of the QP; sq: max_send_wr; rq:
\* receives posted before the traffic; ops: the work requests, of n fragments
\* each, ok says whether the remote key of a WRITE grants the access.  The bounds: frames lost, failures of the paths,
\* receives posted, those too short for a SEND, timeouts and errors of
\* the responder.
Op == [k : {"send", "write", "wimm"}, n : Nat \ {0}, ok : BOOLEAN]
Bounds == {"lost", "fails", "recvs", "shorts", "expires"}

ASSUME WireAssumption ==
  /\ PsnMod \in Nat \ {0} /\ FirstPsn \in 0..PsnMod - 1 /\ MaxWr \in Nat \ {0}
  /\ PsnMod % 2 = 0 /\ 2 * MaxWr <= PsnMod
  /\ \A x \in Conf :
       /\ x.rc \in BOOLEAN /\ x.rails \in Nat \ {0} /\ x.stripe \in BOOLEAN /\ x.rnr \in Nat \cup {Infinite}
       /\ x.sq \in 1..MaxWr /\ x.rq \in Nat /\ x.ops \in Seq(Op)
       /\ x.max \in [Bounds -> Nat]

VARIABLES
  conf,  \* the scenario
  wire,  \* wire[r]: data frames in flight on rail r, oldest first
  ctl,   \* bag of control frames in flight to the sender
  lost   \* frames lost so far

Msgs == DOMAIN conf.ops
Frags(m) == 0..conf.ops[m].n - 1
Kind(m) == conf.ops[m].k
RailIds == 1..conf.rails

\* tbv_psn_next(), tbv_psn_delta(): signed difference of two PSNs.
PsnNext(p) == (p + 1) % PsnMod
PsnDelta(a, b) == LET d == (a - b) % PsnMod IN IF 2 * d >= PsnMod THEN d - PsnMod ELSE d
\* send_psn is advanced by every request that reaches the PSN allocation.
Psn(m) == (FirstPsn + m - 1) % PsnMod

\* A data frame carries fragment f of request m; bad when it was copied from
\* the user's buffer after the request had been completed to the user.
Frame == [m : Nat \ {0}, f : Nat, bad : BOOLEAN]
Ack(s, p) == [op |-> s, v |-> p]
Credit(n) == [op |-> "credit", v |-> n]
Control == [op : {"ok", "rnr", "err", "credit"}, v : Nat]

WireTypeOK ==
  /\ conf \in Conf
  /\ wire \in [RailIds -> Seq(Frame)]
  /\ BagToSet(ctl) \subseteq Control /\ lost \in 0..conf.max.lost

\* tbv_send_ack_on_path(): an OK goes out on every rail, the others on one.
Copies(a) == [x \in {a} |-> IF a.op = "ok" THEN conf.rails ELSE 1]

WireInit ==
  /\ conf \in Conf
  /\ wire = [r \in RailIds |-> <<>>] /\ lost = 0
  /\ ctl = IF conf.rq > 0 THEN Copies(Credit(conf.rq)) ELSE EmptyBag

\* A control frame is lost (a data frame may be lost when it is transmitted).
LoseControl ==
  /\ lost < conf.max.lost /\ lost' = lost + 1
  /\ \E a \in BagToSet(ctl) : ctl' = ctl (-) SetToBag({a})
  /\ UNCHANGED <<conf, wire>>
=============================================================================
