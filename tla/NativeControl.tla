--------------------------- MODULE NativeControl ---------------------------
(***************************************************************************)
(* Bring-up of the native rails of one link (kernel/native_control.c): the *)
(* HELLO exchange, the tunnel, the READY exchange and the publication of   *)
(* the rail's ib_device, on both ends of the link.                         *)
(*                                                                         *)
(* An end is a pair <<node, rail>>.  Its delayed work runs through the     *)
(* phases of tbv_native_control_work(); the messages of the peer are       *)
(* handled, one at a time, by tbv_native_control_handle_packet().          *)
(* tb_xdomain_request() matches a response by route and protocol only: any *)
(* response completes the one request that is outstanding on the node.     *)
(***************************************************************************)
EXTENDS Integers, Sequences

CONSTANTS Node, Rail, NoRail, NoMsg,
          HelloRetries,  \* TBV_NATIVE_HELLO_RETRIES
          TunnelRetries, \* TBV_NATIVE_TUNNEL_RETRIES
          ReadyRetries,  \* TBV_NATIVE_READY_RETRIES
          SlowProbe,     \* may messages find a rail before its rings exist
          MaxLost,       \* bound: messages lost and responses refused
          MaxLate,       \* bound: timeouts of a request that is still answered
          MaxTunnelFails,\* bound: failures of tb_xdomain_enable_paths()
          MaxEarly       \* bound: READYs that time out before the peer's tunnel
                         \* is up (ReadyRetries: no bound)

ASSUME LinkAssumption ==
  /\ \A n \in Node : \E m \in Node : m # n /\ Node = {n, m}
  /\ NoRail \notin Rail

ASSUME BoundAssumption ==
  /\ HelloRetries \in Nat \ {0} /\ TunnelRetries \in Nat \ {0} /\ ReadyRetries \in Nat \ {0}
  /\ MaxLost \in Nat /\ MaxLate \in Nat /\ MaxTunnelFails \in Nat /\ MaxEarly \in Nat

ASSUME ProbeAssumption == SlowProbe \in BOOLEAN

End == Node \X Rail
Other(n) == CHOOSE m \in Node : m # n
Peer(e) == <<Other(e[1]), e[2]>>
Ops == {"HELLO", "HELLO_ACK", "READY", "READY_ACK"}
\* A message: operation, rail_id, and whether transmit_path is a path or
\* U32_MAX, which the receiver's int remote_transmit_path holds as -1.
Message == [op : Ops, rail : Rail, path : BOOLEAN]
ASSUME NoMsgAssumption == NoMsg \notin Message

\* The stages of the work that are retried, and how often.
Stage == {"hello", "tunnel", "ready"}
Limit == [s \in Stage |-> CASE s = "hello" -> HelloRetries
                            [] s = "tunnel" -> TunnelRetries
                            [] s = "ready" -> ReadyRetries]
Phases == {"absent", "listed", "ringed", "queued"}
WorkPcs == {"idle", "hello", "helloWait", "tunnel", "tunnelUp", "ready",
            "readyWait", "readySent", "publish"}
HandIdle == [pc |-> "idle", rail |-> NoRail, up |-> FALSE]

VARIABLES
  phase,  \* how far tbv_service_probe() is with the rail
  neg,    \* native_negotiated
  rpath,  \* remote_transmit_path >= 0
  tun,    \* path.state = TBV_PATH_TUNNEL_ENABLED
  rsent,  \* native_ready_sent
  rrem,   \* native_remote_ready
  reg,    \* the rail's ib_device is published
  used,   \* data was charged against the peer's credit window
  att,    \* native_{,tunnel_,ready_}attempts, saturated at the limits
  pend,   \* native_work is scheduled
  pc,     \* where native_work is
  lock,   \* holder of peer->control_lock
  resp,   \* the response that completed the outstanding request
  chan,   \* chan[n]: messages sent by n
  hand,   \* the READY handle_packet() is working on
  lost, late, tfails \* counters of the bounds

evars == <<phase, neg, rpath, tun, rsent, rrem, reg, used, att, pend, pc>>
nvars == <<lock, resp, chan, hand>>
bvars == <<lost, late, tfails>>
vars == <<evars, nvars, bvars>>

TypeOK ==
  /\ phase \in [End -> Phases] /\ pc \in [End -> WorkPcs]
  /\ neg \in [End -> BOOLEAN] /\ rpath \in [End -> BOOLEAN] /\ tun \in [End -> BOOLEAN]
  /\ rsent \in [End -> BOOLEAN] /\ rrem \in [End -> BOOLEAN] /\ reg \in [End -> BOOLEAN]
  /\ used \in [End -> BOOLEAN] /\ pend \in [End -> BOOLEAN]
  /\ att \in [End -> [Stage -> Nat]]
  /\ \A e \in End, s \in Stage : att[e][s] <= Limit[s]
  /\ lock \in [Node -> Rail \cup {NoRail}]
  /\ resp \in [Node -> Message \cup {NoMsg}]
  /\ chan \in [Node -> Seq(Message)]
  /\ hand \in [Node -> [pc : {"idle", "mark", "acked"}, rail : Rail \cup {NoRail},
                        up : BOOLEAN]]
  /\ lost \in 0..MaxLost /\ late \in 0..MaxLate /\ tfails \in 0..MaxTunnelFails

Init ==
  /\ phase = [e \in End |-> "absent"] /\ pc = [e \in End |-> "idle"]
  /\ neg = [e \in End |-> FALSE] /\ rpath = neg /\ tun = neg /\ rsent = neg
  /\ rrem = neg /\ reg = neg /\ used = neg /\ pend = neg
  /\ att = [e \in End |-> [s \in Stage |-> 0]]
  /\ lock = [n \in Node |-> NoRail] /\ resp = [n \in Node |-> NoMsg]
  /\ chan = [n \in Node |-> <<>>] /\ hand = [n \in Node |-> HandIdle]
  /\ lost = 0 /\ late = 0 /\ tfails = 0

-----------------------------------------------------------------------------
(* Helpers.                                                                *)

\* tbv_native_control_fill_hello()
Fill(op, e) == [op |-> op, rail |-> e[2], path |-> phase[e] \in {"ringed", "queued"}]
Send(n, m) == chan' = [chan EXCEPT ![n] = Append(@, m)]

\* tbv_rail_data_ready() of a native rail
DataReady(e) == tun[e] /\ rsent[e] /\ rrem[e]

\* Variant: the rail is published before it has sent its own READY.
PublishEarly(e) == reg' = [reg EXCEPT ![e] = @ \/ (tun'[e] /\ rrem'[e])]

\* The rail is published if it is data-ready after the step: the check under
\* state->lock and the tbv_ibdev_rail_event() that follows it.
Publish(e) == reg' = [reg EXCEPT ![e] = @ \/ (tun'[e] /\ rsent'[e] /\ rrem'[e])]

\* tbv_native_control_can_kick_rail() and schedule_delayed_work()
Kick(e) == pend' = [pend EXCEPT ![e] = @ \/ phase[e] = "queued"]

\* tbv_native_control_apply_remote(): the peer's path is recorded and the
\* credit window refilled.
Apply(e, m) ==
  /\ neg' = [neg EXCEPT ![e] = TRUE]
  /\ rpath' = [rpath EXCEPT ![e] = m.path]
  /\ used' = [used EXCEPT ![e] = FALSE]

\* The work function enters a phase: the attempt is counted.
Enter(e, p) ==
  /\ pc' = [pc EXCEPT ![e] = p]
  /\ att' = IF p \in Stage
            THEN [att EXCEPT ![e][p] = IF @ < Limit[p] THEN @ + 1 ELSE @]
            ELSE att

\* Variant: a failed attempt is not retried.
FailNoRetry(e, p) == pc' = [pc EXCEPT ![e] = "idle"] /\ UNCHANGED <<pend, att>>

\* The attempt failed: the work is rescheduled while there are retries left.
Fail(e, p) ==
  /\ pc' = [pc EXCEPT ![e] = "idle"]
  /\ pend' = [pend EXCEPT ![e] = @ \/ att[e][p] < Limit[p]]
  /\ UNCHANGED att

\* Where tbv_native_control_work() goes on, given native_negotiated and
\* remote_transmit_path: -ENOTCONN ends it without a retry.
AfterTunnel(e) == IF ~rsent[e] THEN "ready" ELSE "idle"
AfterHello(e, n, p) ==
  IF tun[e] THEN AfterTunnel(e) ELSE IF n /\ p THEN "tunnel" ELSE "idle"

-----------------------------------------------------------------------------
(* tbv_service_probe()                                                     *)

\* tbv_peer_add_rail() puts the rail on the list; its rings come after that.
AddRail(e) ==
  /\ phase[e] = "absent"
  /\ phase' = [phase EXCEPT ![e] = IF SlowProbe THEN "listed" ELSE "ringed"]
  /\ UNCHANGED <<neg, rpath, tun, rsent, rrem, reg, used, att, pend, pc, nvars, bvars>>

AllocRings(e) ==
  /\ phase[e] = "listed"
  /\ phase' = [phase EXCEPT ![e] = "ringed"]
  /\ UNCHANGED <<neg, rpath, tun, rsent, rrem, reg, used, att, pend, pc, nvars, bvars>>

\* tbv_native_control_queue_rail() forgets a READY that came before it.
QueueRail(e) ==
  /\ phase[e] = "ringed"
  /\ phase' = [phase EXCEPT ![e] = "queued"]
  /\ att' = [att EXCEPT ![e] = [s \in Stage |-> 0]]
  /\ rsent' = [rsent EXCEPT ![e] = FALSE]
  /\ rrem' = [rrem EXCEPT ![e] = FALSE]
  /\ pend' = [pend EXCEPT ![e] = TRUE]
  /\ UNCHANGED <<neg, rpath, tun, reg, used, pc, nvars, bvars>>

-----------------------------------------------------------------------------
(* tbv_native_control_work()                                               *)

WorkStart(e) ==
  /\ pend[e] /\ pc[e] = "idle"
  /\ pend' = [pend EXCEPT ![e] = FALSE]
  /\ Enter(e, IF ~neg[e] THEN "hello" ELSE AfterHello(e, neg[e], rpath[e]))
  /\ UNCHANGED <<phase, neg, rpath, tun, rsent, rrem, reg, used, nvars, bvars>>

\* exchange_once() and ready_once(): the request goes out under control_lock.
Request(e, p, op, wait) ==
  LET n == e[1] IN
  /\ pc[e] = p /\ lock[n] = NoRail
  /\ lock' = [lock EXCEPT ![n] = e[2]]
  /\ resp' = [resp EXCEPT ![n] = NoMsg]
  /\ Send(n, Fill(op, e))
  /\ pc' = [pc EXCEPT ![e] = wait]
  /\ UNCHANGED <<phase, neg, rpath, tun, rsent, rrem, reg, used, att, pend, hand, bvars>>
HelloSend(e) == Request(e, "hello", "HELLO", "helloWait")
ReadySend(e) == Request(e, "ready", "READY", "readyWait")

\* A request of n may still be answered.
IsRequest(m) == m.op \in {"HELLO", "READY"}
Has(s, P(_)) == \E i \in 1..Len(s) : P(s[i])
Answerable(n) ==
  \/ Has(chan[n], IsRequest)
  \/ Has(chan[Other(n)], LAMBDA m : ~IsRequest(m))
  \/ hand[Other(n)].pc # "idle"

Unlock(n) == lock' = [lock EXCEPT ![n] = NoRail] /\ resp' = [resp EXCEPT ![n] = NoMsg]

\* -ETIMEDOUT: nothing came, or what will come comes too late.
TimesOut(n) ==
  /\ resp[n] = NoMsg
  /\ IF Answerable(n) THEN late < MaxLate /\ late' = late + 1 ELSE UNCHANGED late
  /\ Unlock(n)

HelloTimeout(e) ==
  /\ pc[e] = "helloWait" /\ TimesOut(e[1])
  /\ Fail(e, "hello")
  /\ UNCHANGED <<phase, neg, rpath, tun, rsent, rrem, reg, used, chan, hand, lost, tfails>>

\* A READY that was not answered, or not with its own READY_ACK, is an error
\* unless the peer's READY completed the rail meanwhile; then the work sets
\* native_ready_sent and publishes once more.
ReadyError(e) == IF DataReady(e) THEN Enter(e, "readySent") /\ UNCHANGED pend
                 ELSE Fail(e, "ready")

ReadyTimeout(e) ==
  /\ pc[e] = "readyWait" /\ TimesOut(e[1])
  /\ tun[Peer(e)] \/ att[e]["ready"] <= MaxEarly
  /\ ReadyError(e)
  /\ UNCHANGED <<phase, neg, rpath, tun, rsent, rrem, reg, used, chan, hand, lost, tfails>>

\* exchange_once() got a response: it checks the operation, not the rail_id.
HelloResponse(e) ==
  LET n == e[1]  m == resp[n]  f == <<n, m.rail>> IN
  /\ pc[e] = "helloWait" /\ m # NoMsg
  /\ IF m.op = "HELLO_ACK"
     THEN /\ Apply(f, m)
          /\ Enter(e, AfterHello(e, neg'[e], rpath'[e]))
          /\ UNCHANGED pend
     ELSE Fail(e, "hello") /\ UNCHANGED <<neg, rpath, used>>
  /\ Unlock(n)
  /\ UNCHANGED <<phase, tun, rsent, rrem, reg, chan, hand, bvars>>

\* tbv_native_control_enable_tunnel_once()
TunnelUp(e) ==
  /\ pc[e] = "tunnel" /\ lock[e[1]] = NoRail
  /\ tun' = [tun EXCEPT ![e] = TRUE]
  /\ Enter(e, "tunnelUp")
  /\ UNCHANGED <<phase, neg, rpath, rsent, rrem, reg, used, pend, nvars, bvars>>

TunnelFails(e) ==
  /\ pc[e] = "tunnel" /\ lock[e[1]] = NoRail
  /\ tfails < MaxTunnelFails /\ tfails' = tfails + 1
  /\ Fail(e, "tunnel")
  /\ UNCHANGED <<phase, neg, rpath, tun, rsent, rrem, reg, used, nvars, lost, late>>

\* The third edge: the work publishes if both READYs came before the tunnel.
TunnelPublish(e) ==
  /\ pc[e] = "tunnelUp"
  /\ Enter(e, AfterTunnel(e))
  /\ UNCHANGED <<phase, neg, rpath, tun, rsent, rrem, used, pend, nvars, bvars>>
  /\ Publish(e)

\* ready_once() got a response: tbv_native_control_mark_remote_ready().
ReadyResponse(e) ==
  LET n == e[1]  m == resp[n] IN
  /\ pc[e] = "readyWait" /\ m # NoMsg
  /\ Unlock(n)
  /\ UNCHANGED <<phase, neg, rpath, tun, rsent, used, chan, hand, bvars>>
  /\ IF m.op = "READY_ACK" /\ m.rail = e[2]
     THEN /\ rrem' = [rrem EXCEPT ![e] = TRUE]
          /\ Enter(e, "readySent")
          /\ UNCHANGED pend
          /\ Publish(e)
     ELSE ReadyError(e) /\ UNCHANGED <<rrem, reg>>

WorkReadySent(e) ==
  /\ pc[e] = "readySent"
  /\ rsent' = [rsent EXCEPT ![e] = TRUE]
  /\ Enter(e, "publish")
  /\ UNCHANGED <<phase, neg, rpath, tun, rrem, reg, used, pend, nvars, bvars>>

\* Variant: the work leaves publication to the message handler.
WorkNoPublish(e) ==
  /\ pc[e] = "publish"
  /\ Enter(e, "idle")
  /\ UNCHANGED <<phase, neg, rpath, tun, rsent, rrem, reg, used, pend, nvars, bvars>>

WorkPublish(e) ==
  /\ pc[e] = "publish"
  /\ Enter(e, "idle")
  /\ UNCHANGED <<phase, neg, rpath, tun, rsent, rrem, used, pend, nvars, bvars>>
  /\ Publish(e)

-----------------------------------------------------------------------------
(* tbv_native_control_handle_packet() on node n                            *)

\* The next message of the peer, if the handler is free.
Receives(n, op) ==
  LET c == chan[Other(n)] IN hand[n].pc = "idle" /\ c # <<>> /\ Head(c).op = op
Incoming(n) == Head(chan[Other(n)])
Consume(n) == [chan EXCEPT ![Other(n)] = Tail(@)]
At(n) == <<n, Incoming(n).rail>>

\* No matching rail: the request is dropped without an answer.
RxNoRail(n) ==
  /\ Receives(n, "HELLO") \/ Receives(n, "READY")
  /\ phase[At(n)] = "absent"
  /\ chan' = Consume(n)
  /\ UNCHANGED <<evars, lock, resp, hand, bvars>>

RxHello(n) ==
  LET e == At(n) IN
  /\ Receives(n, "HELLO") /\ phase[e] # "absent"
  /\ Apply(e, Incoming(n))
  /\ chan' = [Consume(n) EXCEPT ![n] = Append(@, Fill("HELLO_ACK", e))]
  /\ Kick(e)
  /\ UNCHANGED <<phase, tun, rsent, rrem, reg, att, pc, lock, resp, hand, bvars>>

\* The outstanding request of n takes the response, whatever it asked for.
Matches(n) == /\ \E r \in Rail : pc[<<n, r>>] \in {"helloWait", "readyWait"}
              /\ resp[n] = NoMsg
Match(n) == resp' = IF Matches(n) THEN [resp EXCEPT ![n] = Incoming(n)] ELSE resp

\* A HELLO_ACK is applied when it is observed and then left to the matching.
RxHelloAck(n) ==
  /\ Receives(n, "HELLO_ACK")
  /\ IF phase[At(n)] = "absent" THEN UNCHANGED <<neg, rpath, used>>
     ELSE Apply(At(n), Incoming(n))
  /\ Match(n)
  /\ chan' = Consume(n)
  /\ UNCHANGED <<phase, tun, rsent, rrem, reg, att, pend, pc, lock, hand, bvars>>

\* Variant: a READY_ACK is applied like a HELLO_ACK.
RxReadyAckApplied(n) ==
  /\ Receives(n, "READY_ACK")
  /\ Apply(At(n), Incoming(n))
  /\ Match(n)
  /\ chan' = Consume(n)
  /\ UNCHANGED <<phase, tun, rsent, rrem, reg, att, pend, pc, lock, hand, bvars>>

RxReadyAck(n) ==
  /\ Receives(n, "READY_ACK")
  /\ Match(n)
  /\ chan' = Consume(n)
  /\ UNCHANGED <<evars, lock, hand, bvars>>

\* READY: the tunnel state is read in one critical section ...
RxReady(n) ==
  /\ Receives(n, "READY") /\ phase[At(n)] # "absent"
  /\ hand' = [hand EXCEPT ![n] = [pc |-> "mark", rail |-> Incoming(n).rail,
                                  up |-> tun[At(n)]]]
  /\ chan' = Consume(n)
  /\ UNCHANGED <<evars, lock, resp, bvars>>

\* ... the remote READY is recorded in the next; without a tunnel there is no
\* READY_ACK, and a READY_ACK that cannot be sent leaves native_ready_sent.
RxReadyMark(n) ==
  LET e == <<n, hand[n].rail>>
      NoAck == Kick(e) /\ hand' = [hand EXCEPT ![n] = HandIdle] /\ UNCHANGED chan
  IN
  /\ hand[n].pc = "mark"
  /\ rrem' = [rrem EXCEPT ![e] = TRUE]
  /\ \/ ~hand[n].up /\ NoAck /\ UNCHANGED lost
     \/ hand[n].up /\ lost < MaxLost /\ lost' = lost + 1 /\ NoAck
     \/ /\ hand[n].up
        /\ Send(n, Fill("READY_ACK", e))
        /\ hand' = [hand EXCEPT ![n].pc = "acked"]
        /\ UNCHANGED <<pend, lost>>
  /\ UNCHANGED <<phase, neg, rpath, tun, rsent, used, att, pc, lock, resp, late, tfails>>
  /\ Publish(e)

\* ... and tbv_native_control_mark_local_ready_sent() follows the READY_ACK.
RxReadyAcked(n) ==
  LET e == <<n, hand[n].rail>> IN
  /\ hand[n].pc = "acked"
  /\ rsent' = [rsent EXCEPT ![e] = TRUE]
  /\ Kick(e)
  /\ hand' = [hand EXCEPT ![n] = HandIdle]
  /\ UNCHANGED <<phase, neg, rpath, tun, rrem, used, att, pc, lock, resp, chan, bvars>>
  /\ Publish(e)

-----------------------------------------------------------------------------
(* The link and the users of the rail.                                     *)

Lose(n) ==
  /\ chan[n] # <<>> /\ lost < MaxLost
  /\ chan' = [chan EXCEPT ![n] = Tail(@)]
  /\ lost' = lost + 1
  /\ UNCHANGED <<evars, lock, resp, hand, late, tfails>>

\* tbv_path_schedule_tx() charges a data frame of a published rail.
SendData(e) ==
  /\ reg[e] /\ ~used[e]
  /\ used' = [used EXCEPT ![e] = TRUE]
  /\ UNCHANGED <<phase, neg, rpath, tun, rsent, rrem, reg, att, pend, pc, nvars, bvars>>

-----------------------------------------------------------------------------
Probe(e) == AddRail(e) \/ AllocRings(e) \/ QueueRail(e)
Work(e) == \/ WorkStart(e) \/ HelloSend(e) \/ HelloTimeout(e) \/ HelloResponse(e)
           \/ TunnelUp(e) \/ TunnelPublish(e)
           \/ ReadySend(e) \/ ReadyTimeout(e) \/ ReadyResponse(e)
           \/ WorkReadySent(e) \/ WorkPublish(e)
Handle(n) == \/ RxNoRail(n) \/ RxHello(n) \/ RxHelloAck(n) \/ RxReadyAck(n)
             \/ RxReady(n) \/ RxReadyMark(n) \/ RxReadyAcked(n)

Next ==
  \/ \E e \in End : Probe(e) \/ Work(e) \/ TunnelFails(e) \/ SendData(e)
  \/ \E n \in Node : Handle(n) \/ Lose(n)

Spec == Init /\ [][Next]_vars

\* The probe completes, workqueues run what is scheduled, requests time out,
\* the control channel delivers what it does not lose.
Fairness ==
  /\ \A e \in End : WF_vars(Probe(e)) /\ WF_vars(Work(e))
  /\ \A n \in Node : WF_vars(Handle(n))
FairSpec == Spec /\ Fairness

-----------------------------------------------------------------------------
(* Properties.                                                             *)

\* A data-ready rail has its ib_device, or a thread is about to publish it:
\* whichever of tunnel, READY sent and READY received comes last, and in
\* whatever thread, it publishes (the comments at both publishing sites of
\* tbv_native_control_work()).
ReadyIsPublished ==
  \A e \in End : DataReady(e) => reg[e] \/ pc[e] \in {"tunnelUp", "publish"}

\* An end that believes its peer ready is right: the peer's tunnel is up, so
\* frames sent on a published rail have a path to travel.
RemoteReadyIsTrue ==
  \A e \in End : rrem[e] => tun[Peer(e)]

\* An end is published only with both tunnels up and after it told the peer.
PublishedEndToEnd ==
  \A e \in End : reg[e] => DataReady(e) /\ tun[Peer(e)]

\* The credit window is never refilled under a rail that has frames charged
\* against it: tbv_path_set_remote_rx_capacity() belongs to the HELLO
\* exchange, which is over when data flows.  Only a HELLO that is repeated
\* although its first answer is still on the way can be late enough.
NoRefillInUse == [][\A e \in End : used[e] /\ late' = 0 => used'[e]]_vars

\* Every rail is published on both ends and stays so, in spite of lost messages,
\* failed tunnels and READYs that came too early, unless an end was told of a
\* rail that had no rings yet: it counts as negotiated and has no path to send
\* on, which nothing ever repairs.
NegotiatedWithPath == \A e \in End : neg[e] => rpath[e]
RailsComeUp == []NegotiatedWithPath => <>[](\A e \in End : reg[e])
=============================================================================
