------------------------ MODULE NativeControlProofs ------------------------
(***************************************************************************)
(* Proofs about NativeControl, for any number of rails, retries, losses,   *)
(* late answers and tunnel failures.                                       *)
(***************************************************************************)
EXTENDS NativeControl, TLAPS

\* A READY or READY_ACK on its way was sent by an end whose tunnel is up.
ReadyHasTunnel ==
  \A n \in Node : \A i \in 1..Len(chan[n]) :
    chan[n][i].op \in {"READY", "READY_ACK"} => tun[<<n, chan[n][i].rail>>]

\* The same of a READY_ACK that completed a request of the other node.
AckHasTunnel ==
  \A n \in Node : resp[n] # NoMsg /\ resp[n].op = "READY_ACK"
                    => tun[<<Other(n), resp[n].rail>>]

\* The handler of a READY works for a peer with a tunnel, and what it read of
\* its own tunnel stays true.
HandlerKnows ==
  \A n \in Node : hand[n].pc # "idle" =>
    /\ hand[n].rail \in Rail /\ tun[<<Other(n), hand[n].rail>>]
    /\ hand[n].up => tun[<<n, hand[n].rail>>]
    /\ hand[n].pc = "acked" => hand[n].up

\* The work runs on a rail that was queued; past the tunnel it has one; and
\* nobody says READY without one.
WorkKnows ==
  \A e \in End :
    /\ pend[e] \/ pc[e] # "idle" \/ tun[e] => phase[e] = "queued"
    /\ pc[e] \in {"tunnelUp", "ready", "readyWait", "readySent", "publish"} => tun[e]
    /\ rsent[e] => tun[e]

Inv == /\ TypeOK /\ ReadyHasTunnel /\ AckHasTunnel /\ HandlerKnows /\ WorkKnows
       /\ RemoteReadyIsTrue /\ ReadyIsPublished /\ PublishedEndToEnd

-----------------------------------------------------------------------------
\* A link has two nodes, each the other's peer.
LEMMA OtherFacts ==
  ASSUME NEW n \in Node
  PROVE  /\ Other(n) \in Node /\ Other(n) # n /\ Other(Other(n)) = n
         /\ \A m \in Node : m = n \/ m = Other(n)
<1>1. PICK m \in Node : m # n /\ Node = {n, m}
  BY LinkAssumption
<1>2. Other(n) \in Node /\ Other(n) # n
  BY <1>1 DEF Other
<1>3. Other(Other(n)) \in Node /\ Other(Other(n)) # Other(n)
  BY <1>1, <1>2 DEF Other
<1> QED
  BY <1>1, <1>2, <1>3

\* The two ends of a rail are each other's peer.
LEMMA PeerFacts ==
  ASSUME NEW e \in End
  PROVE  /\ e[1] \in Node /\ e[2] \in Rail /\ e = <<e[1], e[2]>>
         /\ Peer(e) \in End /\ Peer(e) # e /\ Peer(Peer(e)) = e
  BY OtherFacts DEF End, Peer

\* The retry limits are those of the constants.
LEMMA LimitFacts == Limit \in [Stage -> Nat]
  BY BoundAssumption DEF Limit, Stage

\* Before the first rail is probed nothing is known and nothing is on its way.
LEMMA InitInv == Init => Inv
<1> SUFFICES ASSUME Init PROVE Inv
  OBVIOUS
<1> USE DEF Init
<1>1. TypeOK
  <2>1. att \in [End -> [Stage -> Nat]] /\ \A e \in End, s \in Stage : att[e][s] <= Limit[s]
    BY LimitFacts
  <2>2. phase \in [End -> Phases] /\ pc \in [End -> WorkPcs]
    BY DEF Phases, WorkPcs
  <2>3. /\ neg \in [End -> BOOLEAN] /\ rpath \in [End -> BOOLEAN] /\ tun \in [End -> BOOLEAN]
        /\ rsent \in [End -> BOOLEAN] /\ rrem \in [End -> BOOLEAN] /\ reg \in [End -> BOOLEAN]
        /\ used \in [End -> BOOLEAN] /\ pend \in [End -> BOOLEAN]
    OBVIOUS
  <2>4. /\ lock \in [Node -> Rail \cup {NoRail}] /\ resp \in [Node -> Message \cup {NoMsg}]
        /\ chan \in [Node -> Seq(Message)]
    OBVIOUS
  <2>5. hand \in [Node -> [pc : {"idle", "mark", "acked"}, rail : Rail \cup {NoRail},
                           up : BOOLEAN]]
    BY DEF HandIdle
  <2>6. lost \in 0..MaxLost /\ late \in 0..MaxLate /\ tfails \in 0..MaxTunnelFails
    BY BoundAssumption
  <2> QED
    BY <2>1, <2>2, <2>3, <2>4, <2>5, <2>6 DEF TypeOK
<1>2. ReadyHasTunnel /\ AckHasTunnel /\ HandlerKnows
  BY DEF ReadyHasTunnel, AckHasTunnel, HandlerKnows, HandIdle
<1>3. WorkKnows /\ RemoteReadyIsTrue /\ ReadyIsPublished /\ PublishedEndToEnd
  BY DEF WorkKnows, RemoteReadyIsTrue, ReadyIsPublished, PublishedEndToEnd, DataReady
<1> QED
  BY <1>1, <1>2, <1>3 DEF Inv

\* The work entering a phase changes its own program counter only.
LEMMA EnterFacts ==
  ASSUME TypeOK, NEW e \in End, NEW p \in WorkPcs, Enter(e, p)
  PROVE  /\ pc' \in [End -> WorkPcs] /\ pc' = [pc EXCEPT ![e] = p]
         /\ att' \in [End -> [Stage -> Nat]]
         /\ \A f \in End, s \in Stage : att'[f][s] <= Limit[s]
<1>1. pc' \in [End -> WorkPcs] /\ pc' = [pc EXCEPT ![e] = p]
  BY DEF Enter, TypeOK
<1>2. CASE p \notin Stage
  BY <1>1, <1>2 DEF Enter, TypeOK
<1>3. CASE p \in Stage
  <2>1. att' = [att EXCEPT ![e][p] = IF att[e][p] < Limit[p] THEN att[e][p] + 1 ELSE att[e][p]]
    BY <1>3 DEF Enter
  <2>2. att' \in [End -> [Stage -> Nat]]
    BY <1>3, <2>1 DEF TypeOK
  <2>3. ASSUME NEW f \in End, NEW s \in Stage PROVE att'[f][s] <= Limit[s]
    <3>1. att[f][s] \in Nat /\ att[f][s] <= Limit[s] /\ Limit[s] \in Nat
      BY <2>3, LimitFacts DEF TypeOK
    <3> QED
      BY <1>3, <2>1, <2>3, <3>1 DEF TypeOK
  <2> QED
    BY <1>1, <2>2, <2>3
<1> QED
  BY <1>2, <1>3

\* A failed attempt ends the work; it may be scheduled again.
LEMMA FailFacts ==
  ASSUME TypeOK, NEW e \in End, NEW p \in Stage, Fail(e, p)
  PROVE  /\ pc' \in [End -> WorkPcs] /\ pc' = [pc EXCEPT ![e] = "idle"]
         /\ pend' \in [End -> BOOLEAN] /\ \A f \in End : pend'[f] => pend[f] \/ f = e
         /\ att' = att
  BY LimitFacts DEF Fail, TypeOK, WorkPcs

\* Giving up the control lock leaves no response behind.
LEMMA UnlockFacts ==
  ASSUME TypeOK, AckHasTunnel, NEW n \in Node, Unlock(n), UNCHANGED tun
  PROVE  /\ lock' \in [Node -> Rail \cup {NoRail}]
         /\ resp' \in [Node -> Message \cup {NoMsg}] /\ AckHasTunnel'
  BY DEF Unlock, TypeOK, AckHasTunnel

\* Publication concerns one rail, and only if it is data-ready after the step.
LEMMA PublishFacts ==
  ASSUME TypeOK, NEW e \in End, Publish(e), tun' \in [End -> BOOLEAN],
         rsent' \in [End -> BOOLEAN], rrem' \in [End -> BOOLEAN]
  PROVE  /\ reg' \in [End -> BOOLEAN]
         /\ \A f \in End : f # e => reg'[f] = reg[f]
         /\ reg'[e] = (reg[e] \/ (tun'[e] /\ rsent'[e] /\ rrem'[e]))
  BY DEF Publish, TypeOK

\* The messages left when node n takes one keep their promise.
LEMMA ConsumeFacts ==
  ASSUME TypeOK, ReadyHasTunnel, NEW n \in Node, chan[Other(n)] # <<>>
  PROVE  /\ Consume(n) \in [Node -> Seq(Message)]
         /\ \A m \in Node : \A i \in 1..Len(Consume(n)[m]) :
              Consume(n)[m][i].op \in {"READY", "READY_ACK"}
                => tun[<<m, Consume(n)[m][i].rail>>]
<1> DEFINE o == Other(n)
<1>1. o \in Node /\ chan[o] \in Seq(Message)
  BY OtherFacts DEF TypeOK
<1>2. /\ Len(chan[o]) \in Nat /\ Tail(chan[o]) \in Seq(Message)
      /\ Len(Tail(chan[o])) = Len(chan[o]) - 1
      /\ \A i \in 1..(Len(chan[o]) - 1) : Tail(chan[o])[i] = chan[o][i + 1]
  BY <1>1
<1>3. Consume(n) \in [Node -> Seq(Message)]
  BY <1>1, <1>2 DEF Consume, TypeOK
<1>4. ASSUME NEW m \in Node, NEW i \in 1..Len(Consume(n)[m]),
             Consume(n)[m][i].op \in {"READY", "READY_ACK"}
      PROVE  tun[<<m, Consume(n)[m][i].rail>>]
  <2>1. CASE m # o
    BY <1>4, <2>1 DEF Consume, TypeOK, ReadyHasTunnel
  <2>2. CASE m = o
    <3>1. Consume(n)[m] = Tail(chan[o])
      BY <1>1, <2>2 DEF Consume, TypeOK
    <3>2. Consume(n)[m][i] = chan[o][i + 1] /\ i + 1 \in 1..Len(chan[o])
      BY <1>2, <1>4, <3>1
    <3> QED
      BY <1>1, <1>4, <2>2, <3>2 DEF ReadyHasTunnel
  <2> QED
    BY <2>1, <2>2
<1> QED
  BY <1>3, <1>4

\* A message to node n comes from the other node, and what it says is true.
LEMMA IncomingFacts ==
  ASSUME TypeOK, ReadyHasTunnel, NEW n \in Node, chan[Other(n)] # <<>>
  PROVE  /\ Incoming(n) \in Message /\ At(n) \in End
         /\ Incoming(n).op \in {"READY", "READY_ACK"}
              => tun[<<Other(n), Incoming(n).rail>>]
         /\ Consume(n) \in [Node -> Seq(Message)]
         /\ UNCHANGED tun /\ chan' = Consume(n) => ReadyHasTunnel'
<1>1. Other(n) \in Node /\ chan[Other(n)] \in Seq(Message)
  BY OtherFacts DEF TypeOK
<1>2. /\ Head(chan[Other(n)]) \in Message /\ Head(chan[Other(n)]) = chan[Other(n)][1]
      /\ Len(chan[Other(n)]) \in Nat /\ Len(chan[Other(n)]) >= 1
  BY <1>1
<1>3. Incoming(n) \in Message /\ At(n) \in End
  BY <1>2 DEF Incoming, At, End, Message
<1>4. Incoming(n).op \in {"READY", "READY_ACK"} => tun[<<Other(n), Incoming(n).rail>>]
  BY <1>1, <1>2 DEF Incoming, ReadyHasTunnel
<1>5. UNCHANGED tun /\ chan' = Consume(n) => ReadyHasTunnel'
  BY ConsumeFacts DEF ReadyHasTunnel
<1> QED
  BY <1>3, <1>4, <1>5, ConsumeFacts

\* A message may be sent if it keeps its promise about the tunnel.
LEMMA SendFacts ==
  ASSUME NEW n \in Node, NEW m \in Message, NEW ch \in [Node -> Seq(Message)],
         chan' = [ch EXCEPT ![n] = Append(@, m)],
         \A k \in Node : \A i \in 1..Len(ch[k]) :
           ch[k][i].op \in {"READY", "READY_ACK"} => tun'[<<k, ch[k][i].rail>>],
         m.op \in {"READY", "READY_ACK"} => tun'[<<n, m.rail>>]
  PROVE  chan' \in [Node -> Seq(Message)] /\ ReadyHasTunnel'
<1>1. /\ Append(ch[n], m) \in Seq(Message) /\ Len(Append(ch[n], m)) = Len(ch[n]) + 1
      /\ Len(ch[n]) \in Nat
      /\ \A i \in 1..(Len(ch[n]) + 1) : Append(ch[n], m)[i] = IF i <= Len(ch[n]) THEN ch[n][i] ELSE m
  OBVIOUS
<1>2. chan' \in [Node -> Seq(Message)]
  BY <1>1
<1>3. ASSUME NEW k \in Node, NEW i \in 1..Len(chan'[k]),
             chan'[k][i].op \in {"READY", "READY_ACK"}
      PROVE  tun'[<<k, chan'[k][i].rail>>]
  <2>1. CASE k # n
    <3>1. chan'[k] = ch[k]
      BY <2>1
    <3> QED
      BY <1>3, <3>1
  <2>2. CASE k = n
    <3>1. chan'[k] = Append(ch[n], m)
      BY <2>2
    <3>2. i \in 1..(Len(ch[n]) + 1) /\ chan'[k][i] = IF i <= Len(ch[n]) THEN ch[n][i] ELSE m
      BY <1>1, <1>3, <3>1
    <3>3. CASE i <= Len(ch[n])
      <4>1. i \in 1..Len(ch[n]) /\ chan'[k][i] = ch[n][i]
        BY <1>1, <3>2, <3>3
      <4> QED
        BY <1>3, <2>2, <4>1
    <3>4. CASE ~(i <= Len(ch[n]))
      BY <1>3, <2>2, <3>2, <3>4
    <3> QED
      BY <3>3, <3>4
  <2> QED
    BY <2>1, <2>2
<1> QED
  BY <1>2, <1>3 DEF ReadyHasTunnel

\* A step that leaves tunnels, messages, responses and the handler alone.
LEMMA LinkSame ==
  ASSUME Inv, UNCHANGED <<tun, chan, resp, hand>>
  PROVE  ReadyHasTunnel' /\ AckHasTunnel' /\ HandlerKnows'
  BY DEF Inv, ReadyHasTunnel, AckHasTunnel, HandlerKnows

\* A step of the work that only moves on: the rail keeps its flags.
LEMMA RailSame ==
  ASSUME Inv, NEW e \in End, NEW p \in WorkPcs,
         UNCHANGED <<phase, tun, rsent, rrem, reg>>,
         pc' = [pc EXCEPT ![e] = p], pc[e] \notin {"idle", "tunnelUp", "publish"},
         \A f \in End : pend'[f] => pend[f] \/ f = e,
         p \in {"tunnelUp", "ready", "readyWait", "readySent", "publish"} => tun[e]
  PROVE  WorkKnows' /\ RemoteReadyIsTrue' /\ ReadyIsPublished' /\ PublishedEndToEnd'
<1>1. WorkKnows'
  BY DEF Inv, TypeOK, WorkKnows
<1>2. ReadyIsPublished'
  BY DEF Inv, TypeOK, ReadyIsPublished, DataReady
<1>3. RemoteReadyIsTrue' /\ PublishedEndToEnd'
  BY DEF Inv, RemoteReadyIsTrue, PublishedEndToEnd, DataReady
<1> QED
  BY <1>1, <1>2, <1>3

\* The probe reveals a rail step by step; queueing it forgets its flags.
LEMMA ProbeInv ==
  ASSUME Inv, NEW e \in End, Probe(e)
  PROVE  Inv'
<1> USE DEF Inv
<1>1. CASE AddRail(e)
  <2>1. phase' \in [End -> Phases]
    BY <1>1, ProbeAssumption DEF AddRail, TypeOK, Phases
  <2>2. TypeOK'
    BY <1>1, <2>1 DEF AddRail, TypeOK, nvars, bvars
  <2>3. ReadyHasTunnel' /\ AckHasTunnel' /\ HandlerKnows'
    BY <1>1 DEF AddRail, nvars, ReadyHasTunnel, AckHasTunnel, HandlerKnows
  <2>4. WorkKnows'
    BY <1>1 DEF AddRail, TypeOK, WorkKnows
  <2>5. RemoteReadyIsTrue' /\ ReadyIsPublished' /\ PublishedEndToEnd'
    BY <1>1 DEF AddRail, RemoteReadyIsTrue, ReadyIsPublished, PublishedEndToEnd, DataReady
  <2> QED
    BY <2>2, <2>3, <2>4, <2>5
<1>2. CASE AllocRings(e)
  <2>1. phase' \in [End -> Phases]
    BY <1>2 DEF AllocRings, TypeOK, Phases
  <2>2. TypeOK'
    BY <1>2, <2>1 DEF AllocRings, TypeOK, nvars, bvars
  <2>3. ReadyHasTunnel' /\ AckHasTunnel' /\ HandlerKnows'
    BY <1>2 DEF AllocRings, nvars, ReadyHasTunnel, AckHasTunnel, HandlerKnows
  <2>4. WorkKnows'
    BY <1>2 DEF AllocRings, TypeOK, WorkKnows
  <2>5. RemoteReadyIsTrue' /\ ReadyIsPublished' /\ PublishedEndToEnd'
    BY <1>2 DEF AllocRings, RemoteReadyIsTrue, ReadyIsPublished, PublishedEndToEnd, DataReady
  <2> QED
    BY <2>2, <2>3, <2>4, <2>5
<1>3. CASE QueueRail(e)
  <2>1. /\ phase' \in [End -> Phases] /\ rsent' \in [End -> BOOLEAN]
        /\ rrem' \in [End -> BOOLEAN] /\ pend' \in [End -> BOOLEAN]
    BY <1>3 DEF QueueRail, TypeOK, Phases
  <2>2. att' \in [End -> [Stage -> Nat]] /\ \A f \in End, s \in Stage : att'[f][s] <= Limit[s]
    BY <1>3, LimitFacts DEF QueueRail, TypeOK
  <2>3. TypeOK'
    BY <1>3, <2>1, <2>2 DEF QueueRail, TypeOK, nvars, bvars
  <2>4. ReadyHasTunnel' /\ AckHasTunnel' /\ HandlerKnows'
    BY <1>3 DEF QueueRail, nvars, ReadyHasTunnel, AckHasTunnel, HandlerKnows
  <2>5. WorkKnows'
    BY <1>3 DEF QueueRail, TypeOK, WorkKnows
  <2>6. ~tun[e] /\ ~reg[e]
    BY <1>3 DEF QueueRail, WorkKnows, PublishedEndToEnd, DataReady
  <2>7. RemoteReadyIsTrue' /\ ReadyIsPublished' /\ PublishedEndToEnd'
    BY <1>3, <2>6 DEF QueueRail, TypeOK, RemoteReadyIsTrue, ReadyIsPublished, PublishedEndToEnd, DataReady
  <2> QED
    BY <2>3, <2>4, <2>5, <2>7
<1> QED
  BY <1>1, <1>2, <1>3 DEF Probe

\* tbv_native_control_work() starts: it goes on where the rail is.
LEMMA WorkStartInv ==
  ASSUME Inv, NEW e \in End, WorkStart(e)
  PROVE  Inv'
<1> DEFINE p == IF ~neg[e] THEN "hello" ELSE AfterHello(e, neg[e], rpath[e])
<1>1. p \in WorkPcs /\ (p \in {"tunnelUp", "ready", "readyWait", "readySent", "publish"} => tun[e])
  BY DEF AfterHello, AfterTunnel, WorkPcs
<1> HIDE DEF p
<1>2. Enter(e, p)
  BY DEF WorkStart, p
<1>3. /\ pc' \in [End -> WorkPcs] /\ pc' = [pc EXCEPT ![e] = p]
      /\ att' \in [End -> [Stage -> Nat]]
      /\ \A f \in End, s \in Stage : att'[f][s] <= Limit[s]
  BY <1>1, <1>2, EnterFacts DEF Inv
<1>4. pend' \in [End -> BOOLEAN] /\ \A f \in End : pend'[f] => pend[f]
  BY DEF WorkStart, Inv, TypeOK
<1>5. TypeOK'
  BY <1>3, <1>4 DEF WorkStart, Inv, TypeOK, nvars, bvars
<1>6. ReadyHasTunnel' /\ AckHasTunnel' /\ HandlerKnows'
  BY LinkSame DEF WorkStart, nvars
<1>7. phase[e] = "queued" /\ pc[e] = "idle"
  BY DEF WorkStart, Inv, WorkKnows
<1>8. WorkKnows'
  BY <1>1, <1>3, <1>4, <1>7 DEF WorkStart, Inv, TypeOK, WorkKnows
<1>9. RemoteReadyIsTrue' /\ ReadyIsPublished' /\ PublishedEndToEnd'
  BY <1>3, <1>7 DEF WorkStart, Inv, TypeOK, RemoteReadyIsTrue, ReadyIsPublished,
                     PublishedEndToEnd, DataReady
<1> QED
  BY <1>5, <1>6, <1>8, <1>9 DEF Inv

\* A request is sent: a READY comes from a rail with a tunnel.
LEMMA RequestInv ==
  ASSUME Inv, NEW e \in End, HelloSend(e) \/ ReadySend(e)
  PROVE  Inv'
<1> SUFFICES ASSUME NEW p \in {"hello", "ready"}, NEW op \in {"HELLO", "READY"},
                    NEW w \in {"helloWait", "readyWait"}, Request(e, p, op, w),
                    p = "hello" <=> op = "HELLO", p = "hello" <=> w = "helloWait"
             PROVE  Inv'
  BY DEF HelloSend, ReadySend
<1> DEFINE n == e[1]
<1>1. n \in Node /\ e[2] \in Rail /\ e = <<n, e[2]>>
  BY PeerFacts
<1>2. Fill(op, e) \in Message /\ Fill(op, e).op = op /\ Fill(op, e).rail = e[2]
  BY <1>1 DEF Fill, Message, Ops
<1>3. p = "ready" => tun[e]
  BY DEF Request, Inv, WorkKnows
<1>4. chan' = [chan EXCEPT ![n] = Append(@, Fill(op, e))] /\ UNCHANGED tun
  BY DEF Request, Send
<1>5. chan' \in [Node -> Seq(Message)] /\ ReadyHasTunnel'
  <2>1. chan \in [Node -> Seq(Message)]
    BY DEF Inv, TypeOK
  <2>2. \A k \in Node : \A i \in 1..Len(chan[k]) :
          chan[k][i].op \in {"READY", "READY_ACK"} => tun'[<<k, chan[k][i].rail>>]
    BY <1>4 DEF Inv, ReadyHasTunnel
  <2>3. Fill(op, e).op \in {"READY", "READY_ACK"} => tun'[<<n, Fill(op, e).rail>>]
    BY <1>1, <1>2, <1>3, <1>4
  <2> QED
    BY <1>1, <1>2, <1>4, <2>1, <2>2, <2>3, SendFacts
<1>6. /\ lock' \in [Node -> Rail \cup {NoRail}] /\ resp' \in [Node -> Message \cup {NoMsg}]
      /\ AckHasTunnel' /\ HandlerKnows'
  BY <1>1 DEF Request, Inv, TypeOK, AckHasTunnel, HandlerKnows
<1>7. w \in WorkPcs /\ pc' = [pc EXCEPT ![e] = w] /\ pc' \in [End -> WorkPcs]
  BY DEF Request, Inv, TypeOK, WorkPcs
<1>8. TypeOK'
  BY <1>5, <1>6, <1>7 DEF Request, Inv, TypeOK, bvars
<1>9. WorkKnows' /\ RemoteReadyIsTrue' /\ ReadyIsPublished' /\ PublishedEndToEnd'
  <2>1. pc[e] \notin {"idle", "tunnelUp", "publish"} /\ UNCHANGED <<phase, tun, rsent, rrem, reg, pend>>
    BY DEF Request
  <2>2. w \in {"tunnelUp", "ready", "readyWait", "readySent", "publish"} => tun[e]
    BY <1>3
  <2> QED
    BY <1>7, <2>1, <2>2, RailSame
<1> QED
  BY <1>5, <1>6, <1>8, <1>9 DEF Inv

\* A request timed out.
LEMMA TimeoutInv ==
  ASSUME Inv, NEW e \in End, HelloTimeout(e) \/ ReadyTimeout(e)
  PROVE  Inv'
<1> DEFINE n == e[1]
<1>1. n \in Node
  BY PeerFacts
<1>2. /\ pc[e] \in {"helloWait", "readyWait"} /\ TimesOut(n)
      /\ UNCHANGED <<phase, neg, rpath, tun, rsent, rrem, reg, used, chan, hand, lost, tfails>>
      /\ \/ Fail(e, "hello") \/ Fail(e, "ready")
         \/ pc[e] = "readyWait" /\ Enter(e, "readySent") /\ UNCHANGED pend
  BY DEF HelloTimeout, ReadyTimeout, ReadyError
<1>3. /\ lock' \in [Node -> Rail \cup {NoRail}] /\ resp' \in [Node -> Message \cup {NoMsg}]
      /\ AckHasTunnel'
  BY <1>1, <1>2, UnlockFacts DEF TimesOut, Inv
<1>4. late' \in 0..MaxLate
  BY <1>2, BoundAssumption DEF TimesOut, Inv, TypeOK
<1>5. PICK p \in {"idle", "readySent"} :
        /\ pc' \in [End -> WorkPcs] /\ pc' = [pc EXCEPT ![e] = p]
        /\ p = "readySent" => pc[e] = "readyWait"
        /\ pend' \in [End -> BOOLEAN] /\ \A f \in End : pend'[f] => pend[f] \/ f = e
        /\ att' \in [End -> [Stage -> Nat]]
        /\ \A f \in End, s \in Stage : att'[f][s] <= Limit[s]
  <2>1. CASE Fail(e, "hello") \/ Fail(e, "ready")
    <3>1. PICK s \in Stage : Fail(e, s)
      BY <2>1 DEF Stage
    <3>2. /\ pc' \in [End -> WorkPcs] /\ pc' = [pc EXCEPT ![e] = "idle"]
          /\ pend' \in [End -> BOOLEAN] /\ \A f \in End : pend'[f] => pend[f] \/ f = e
          /\ att' = att
      BY <3>1, FailFacts DEF Inv
    <3> QED
      BY <3>2 DEF Inv, TypeOK
  <2>2. CASE pc[e] = "readyWait" /\ Enter(e, "readySent") /\ UNCHANGED pend
    <3>1. "readySent" \in WorkPcs
      BY DEF WorkPcs
    <3>2. /\ pc' \in [End -> WorkPcs] /\ pc' = [pc EXCEPT ![e] = "readySent"]
          /\ att' \in [End -> [Stage -> Nat]]
          /\ \A f \in End, s \in Stage : att'[f][s] <= Limit[s]
      BY <2>2, <3>1, EnterFacts DEF Inv
    <3> QED
      BY <2>2, <3>2 DEF Inv, TypeOK
  <2> QED
    BY <1>2, <2>1, <2>2
<1>6. TypeOK'
  BY <1>2, <1>3, <1>4, <1>5 DEF Inv, TypeOK
<1>7. ReadyHasTunnel' /\ HandlerKnows'
  BY <1>2 DEF Inv, ReadyHasTunnel, HandlerKnows
<1>8. WorkKnows' /\ RemoteReadyIsTrue' /\ ReadyIsPublished' /\ PublishedEndToEnd'
  <2>1. p \in WorkPcs /\ pc[e] \notin {"idle", "tunnelUp", "publish"}
    BY <1>2, <1>5 DEF WorkPcs
  <2>2. p \in {"tunnelUp", "ready", "readyWait", "readySent", "publish"} => tun[e]
    BY <1>5 DEF Inv, WorkKnows
  <2>3. UNCHANGED <<phase, tun, rsent, rrem, reg>>
    BY <1>2
  <2> QED
    BY <1>5, <2>1, <2>2, <2>3, RailSame
<1> QED
  BY <1>3, <1>6, <1>7, <1>8 DEF Inv

\* A HELLO was answered.
LEMMA HelloResponseInv ==
  ASSUME Inv, NEW e \in End, HelloResponse(e)
  PROVE  Inv'
<1> DEFINE n == e[1]
           m == resp[n]
           f == <<n, m.rail>>
<1>1. n \in Node /\ m \in Message
  BY PeerFacts DEF HelloResponse, Inv, TypeOK
<1>2. /\ pc[e] = "helloWait" /\ Unlock(n)
      /\ UNCHANGED <<phase, tun, rsent, rrem, reg, chan, hand, lost, late, tfails>>
  BY DEF HelloResponse, bvars
<1>3. /\ lock' \in [Node -> Rail \cup {NoRail}] /\ resp' \in [Node -> Message \cup {NoMsg}]
      /\ AckHasTunnel'
  BY <1>1, <1>2, UnlockFacts DEF Inv
<1>4. PICK p \in WorkPcs :
        /\ pc' \in [End -> WorkPcs] /\ pc' = [pc EXCEPT ![e] = p]
        /\ p \in {"tunnelUp", "ready", "readyWait", "readySent", "publish"} => tun[e]
        /\ pend' \in [End -> BOOLEAN] /\ \A g \in End : pend'[g] => pend[g] \/ g = e
        /\ att' \in [End -> [Stage -> Nat]]
        /\ \A g \in End, s \in Stage : att'[g][s] <= Limit[s]
        /\ neg' \in [End -> BOOLEAN] /\ rpath' \in [End -> BOOLEAN] /\ used' \in [End -> BOOLEAN]
  <2>1. CASE m.op = "HELLO_ACK"
    <3> DEFINE p == AfterHello(e, neg'[e], rpath'[e])
    <3>1. p \in WorkPcs /\ (p \in {"tunnelUp", "ready", "readyWait", "readySent", "publish"} => tun[e])
      BY DEF AfterHello, AfterTunnel, WorkPcs
    <3> HIDE DEF p
    <3>2. Enter(e, p) /\ Apply(f, m) /\ UNCHANGED pend
      BY <2>1 DEF HelloResponse, p
    <3>3. /\ pc' \in [End -> WorkPcs] /\ pc' = [pc EXCEPT ![e] = p]
          /\ att' \in [End -> [Stage -> Nat]]
          /\ \A g \in End, s \in Stage : att'[g][s] <= Limit[s]
      BY <3>1, <3>2, EnterFacts DEF Inv
    <3>4. neg' \in [End -> BOOLEAN] /\ rpath' \in [End -> BOOLEAN] /\ used' \in [End -> BOOLEAN]
      BY <1>1, <3>2 DEF Apply, Inv, TypeOK, Message
    <3> QED
      BY <3>1, <3>2, <3>3, <3>4 DEF Inv, TypeOK
  <2>2. CASE m.op # "HELLO_ACK"
    <3>1. Fail(e, "hello") /\ UNCHANGED <<neg, rpath, used>> /\ "hello" \in Stage /\ "idle" \in WorkPcs
      BY <2>2 DEF HelloResponse, Stage, WorkPcs
    <3>2. /\ pc' \in [End -> WorkPcs] /\ pc' = [pc EXCEPT ![e] = "idle"]
          /\ pend' \in [End -> BOOLEAN] /\ \A g \in End : pend'[g] => pend[g] \/ g = e
          /\ att' = att
      BY <3>1, FailFacts DEF Inv
    <3> QED
      BY <3>1, <3>2 DEF Inv, TypeOK
  <2> QED
    BY <2>1, <2>2
<1>5. TypeOK'
  BY <1>2, <1>3, <1>4 DEF Inv, TypeOK
<1>6. ReadyHasTunnel' /\ HandlerKnows'
  BY <1>2 DEF Inv, ReadyHasTunnel, HandlerKnows
<1>7. WorkKnows' /\ RemoteReadyIsTrue' /\ ReadyIsPublished' /\ PublishedEndToEnd'
  <2>1. pc[e] \notin {"idle", "tunnelUp", "publish"} /\ UNCHANGED <<phase, tun, rsent, rrem, reg>>
    BY <1>2
  <2> QED
    BY <1>4, <2>1, RailSame
<1> QED
  BY <1>3, <1>5, <1>6, <1>7 DEF Inv

\* The tunnel comes up: what others promised of it stays true.
LEMMA TunnelUpInv ==
  ASSUME Inv, NEW e \in End, TunnelUp(e)
  PROVE  Inv'
<1>1. "tunnelUp" \in WorkPcs /\ Enter(e, "tunnelUp")
  BY DEF TunnelUp, WorkPcs
<1>2. /\ pc' \in [End -> WorkPcs] /\ pc' = [pc EXCEPT ![e] = "tunnelUp"]
      /\ att' \in [End -> [Stage -> Nat]]
      /\ \A f \in End, s \in Stage : att'[f][s] <= Limit[s]
  BY <1>1, EnterFacts DEF Inv
<1>3. /\ tun' \in [End -> BOOLEAN] /\ tun'[e] /\ \A f \in End : tun[f] => tun'[f]
      /\ \A f \in End : f # e => tun'[f] = tun[f]
  BY DEF TunnelUp, Inv, TypeOK
<1>4. TypeOK'
  BY <1>2, <1>3 DEF TunnelUp, Inv, TypeOK, nvars, bvars
<1>5. ReadyHasTunnel'
  <2>1. SUFFICES ASSUME NEW n \in Node, NEW i \in 1..Len(chan[n]),
                        chan[n][i].op \in {"READY", "READY_ACK"}
                 PROVE  tun'[<<n, chan[n][i].rail>>]
    BY DEF TunnelUp, nvars, ReadyHasTunnel
  <2>2. chan[n][i] \in Message
    BY <2>1 DEF Inv, TypeOK
  <2>3. <<n, chan[n][i].rail>> \in End
    BY <2>2 DEF Message, End
  <2> QED
    BY <1>3, <2>1, <2>3 DEF Inv, ReadyHasTunnel
<1>6. AckHasTunnel'
  <2>1. SUFFICES ASSUME NEW n \in Node, resp[n] # NoMsg, resp[n].op = "READY_ACK"
                 PROVE  tun'[<<Other(n), resp[n].rail>>]
    BY DEF TunnelUp, nvars, AckHasTunnel
  <2>2. resp[n] \in Message /\ Other(n) \in Node
    BY <2>1, OtherFacts DEF Inv, TypeOK
  <2>3. <<Other(n), resp[n].rail>> \in End
    BY <2>2 DEF Message, End
  <2> QED
    BY <1>3, <2>1, <2>3 DEF Inv, AckHasTunnel
<1>7. HandlerKnows'
  <2>1. SUFFICES ASSUME NEW n \in Node, hand[n].pc # "idle"
                 PROVE  /\ hand[n].rail \in Rail /\ tun'[<<Other(n), hand[n].rail>>]
                        /\ hand[n].up => tun'[<<n, hand[n].rail>>]
                        /\ hand[n].pc = "acked" => hand[n].up
    BY DEF TunnelUp, nvars, HandlerKnows
  <2>2. <<n, hand[n].rail>> \in End /\ <<Other(n), hand[n].rail>> \in End
    BY <2>1, OtherFacts DEF Inv, HandlerKnows, End
  <2> QED
    BY <1>3, <2>1, <2>2 DEF Inv, HandlerKnows
<1>8. WorkKnows'
  BY <1>2, <1>3 DEF TunnelUp, Inv, TypeOK, WorkKnows
<1>9. RemoteReadyIsTrue' /\ ReadyIsPublished' /\ PublishedEndToEnd'
  BY <1>2, <1>3, PeerFacts
  DEF TunnelUp, Inv, TypeOK, RemoteReadyIsTrue, ReadyIsPublished, PublishedEndToEnd, DataReady
<1> QED
  BY <1>4, <1>5, <1>6, <1>7, <1>8, <1>9 DEF Inv

\* The tunnel could not be enabled.
LEMMA TunnelFailsInv ==
  ASSUME Inv, NEW e \in End, TunnelFails(e)
  PROVE  Inv'
<1>1. "tunnel" \in Stage /\ "idle" \in WorkPcs /\ Fail(e, "tunnel")
  BY DEF TunnelFails, Stage, WorkPcs
<1>2. /\ pc' \in [End -> WorkPcs] /\ pc' = [pc EXCEPT ![e] = "idle"]
      /\ pend' \in [End -> BOOLEAN] /\ \A f \in End : pend'[f] => pend[f] \/ f = e
      /\ att' = att
  BY <1>1, FailFacts DEF Inv
<1>3. tfails' \in 0..MaxTunnelFails
  BY BoundAssumption DEF TunnelFails, Inv, TypeOK
<1>4. TypeOK'
  BY <1>2, <1>3 DEF TunnelFails, Inv, TypeOK, nvars
<1>5. ReadyHasTunnel' /\ AckHasTunnel' /\ HandlerKnows'
  BY LinkSame DEF TunnelFails, nvars
<1>6. WorkKnows' /\ RemoteReadyIsTrue' /\ ReadyIsPublished' /\ PublishedEndToEnd'
  <2>1. pc[e] \notin {"idle", "tunnelUp", "publish"} /\ UNCHANGED <<phase, tun, rsent, rrem, reg>>
    BY DEF TunnelFails
  <2> QED
    BY <1>1, <1>2, <2>1, RailSame
<1> QED
  BY <1>4, <1>5, <1>6 DEF Inv

\* The work publishes, after the tunnel or after READY.
LEMMA WorkPublishInv ==
  ASSUME Inv, NEW e \in End, TunnelPublish(e) \/ WorkPublish(e)
  PROVE  Inv'
<1>1. /\ pc[e] \in {"tunnelUp", "publish"} /\ Publish(e)
      /\ UNCHANGED <<phase, neg, rpath, tun, rsent, rrem, used, pend, nvars, bvars>>
  BY DEF TunnelPublish, WorkPublish
<1>2. PICK p \in {"idle", "ready"} : Enter(e, p)
  BY DEF TunnelPublish, WorkPublish, AfterTunnel
<1>3. p \in WorkPcs /\ tun[e] /\ phase[e] = "queued"
  BY <1>1 DEF WorkPcs, Inv, WorkKnows
<1>4. /\ pc' \in [End -> WorkPcs] /\ pc' = [pc EXCEPT ![e] = p]
      /\ att' \in [End -> [Stage -> Nat]]
      /\ \A f \in End, s \in Stage : att'[f][s] <= Limit[s]
  BY <1>2, <1>3, EnterFacts DEF Inv
<1>5. /\ reg' \in [End -> BOOLEAN] /\ \A f \in End : f # e => reg'[f] = reg[f]
      /\ reg'[e] = (reg[e] \/ (tun'[e] /\ rsent'[e] /\ rrem'[e]))
  BY <1>1, PublishFacts DEF Inv, TypeOK
<1>6. TypeOK'
  BY <1>1, <1>4, <1>5 DEF Inv, TypeOK, nvars, bvars
<1>7. ReadyHasTunnel' /\ AckHasTunnel' /\ HandlerKnows'
  BY <1>1, LinkSame DEF nvars
<1>8. WorkKnows'
  BY <1>1, <1>3, <1>4 DEF Inv, TypeOK, WorkKnows
<1>9. RemoteReadyIsTrue' /\ ReadyIsPublished' /\ PublishedEndToEnd'
  BY <1>1, <1>4, <1>5
  DEF Inv, TypeOK, RemoteReadyIsTrue, ReadyIsPublished, PublishedEndToEnd, DataReady
<1> QED
  BY <1>6, <1>7, <1>8, <1>9 DEF Inv

\* A READY was answered: by its own READY_ACK, the peer is ready.
LEMMA ReadyResponseInv ==
  ASSUME Inv, NEW e \in End, ReadyResponse(e)
  PROVE  Inv'
<1> DEFINE n == e[1]
           m == resp[n]
<1>1. n \in Node /\ m \in Message /\ m # NoMsg /\ e = <<n, e[2]>> /\ Peer(e) = <<Other(n), e[2]>>
  <2>1. n \in Node /\ e = <<n, e[2]>> /\ Peer(e) = <<Other(n), e[2]>>
    BY PeerFacts DEF Peer
  <2>2. m \in Message \cup {NoMsg}
    BY <2>1 DEF Inv, TypeOK
  <2> QED
    BY <2>1, <2>2 DEF ReadyResponse
<1>2. /\ pc[e] = "readyWait" /\ Unlock(n)
      /\ UNCHANGED <<phase, neg, rpath, tun, rsent, used, chan, hand, lost, late, tfails>>
  BY DEF ReadyResponse, bvars
<1>3. tun[e] /\ phase[e] = "queued"
  BY <1>2 DEF Inv, WorkKnows
<1>4. /\ lock' \in [Node -> Rail \cup {NoRail}] /\ resp' \in [Node -> Message \cup {NoMsg}]
      /\ AckHasTunnel'
  BY <1>1, <1>2, UnlockFacts DEF Inv
<1>5. ReadyHasTunnel' /\ HandlerKnows'
  BY <1>2 DEF Inv, ReadyHasTunnel, HandlerKnows
<1>6. "readySent" \in WorkPcs /\ "idle" \in WorkPcs /\ "ready" \in Stage
  BY DEF WorkPcs, Stage
<1>7. CASE m.op = "READY_ACK" /\ m.rail = e[2]
  <2>1. tun[Peer(e)]
    BY <1>1, <1>7 DEF Inv, AckHasTunnel
  <2>2. rrem' = [rrem EXCEPT ![e] = TRUE] /\ Enter(e, "readySent") /\ UNCHANGED pend /\ Publish(e)
    BY <1>7 DEF ReadyResponse
  <2>3. /\ pc' \in [End -> WorkPcs] /\ pc' = [pc EXCEPT ![e] = "readySent"]
        /\ att' \in [End -> [Stage -> Nat]]
        /\ \A f \in End, s \in Stage : att'[f][s] <= Limit[s]
    BY <1>6, <2>2, EnterFacts DEF Inv
  <2>4. rrem' \in [End -> BOOLEAN] /\ rrem'[e] /\ \A f \in End : f # e => rrem'[f] = rrem[f]
    BY <2>2 DEF Inv, TypeOK
  <2>5. /\ reg' \in [End -> BOOLEAN] /\ \A f \in End : f # e => reg'[f] = reg[f]
        /\ reg'[e] = (reg[e] \/ (tun'[e] /\ rsent'[e] /\ rrem'[e]))
    BY <1>2, <2>2, <2>4, PublishFacts DEF Inv, TypeOK
  <2>6. TypeOK'
    BY <1>2, <1>4, <2>2, <2>3, <2>4, <2>5 DEF Inv, TypeOK
  <2>7. WorkKnows'
    BY <1>2, <1>3, <2>2, <2>3 DEF Inv, TypeOK, WorkKnows
  <2>8. RemoteReadyIsTrue'
    BY <1>2, <2>1, <2>4 DEF Inv, RemoteReadyIsTrue
  <2>9. ReadyIsPublished'
    BY <1>2, <2>3, <2>4, <2>5 DEF Inv, TypeOK, ReadyIsPublished, DataReady
  <2>10. PublishedEndToEnd'
    BY <1>2, <2>1, <2>4, <2>5 DEF Inv, PublishedEndToEnd, DataReady
  <2> QED
    BY <1>4, <1>5, <2>6, <2>7, <2>8, <2>9, <2>10 DEF Inv
<1>8. CASE ~(m.op = "READY_ACK" /\ m.rail = e[2])
  <2>1. ReadyError(e) /\ UNCHANGED <<rrem, reg>>
    BY <1>8 DEF ReadyResponse
  <2>2. PICK p \in {"idle", "readySent"} :
          /\ pc' \in [End -> WorkPcs] /\ pc' = [pc EXCEPT ![e] = p]
          /\ pend' \in [End -> BOOLEAN] /\ \A f \in End : pend'[f] => pend[f] \/ f = e
          /\ att' \in [End -> [Stage -> Nat]]
          /\ \A f \in End, s \in Stage : att'[f][s] <= Limit[s]
    <3>1. CASE DataReady(e)
      <4>1. Enter(e, "readySent") /\ UNCHANGED pend
        BY <2>1, <3>1 DEF ReadyError
      <4>2. /\ pc' \in [End -> WorkPcs] /\ pc' = [pc EXCEPT ![e] = "readySent"]
            /\ att' \in [End -> [Stage -> Nat]]
            /\ \A f \in End, s \in Stage : att'[f][s] <= Limit[s]
        BY <1>6, <4>1, EnterFacts DEF Inv
      <4> QED
        BY <4>1, <4>2 DEF Inv, TypeOK
    <3>2. CASE ~DataReady(e)
      <4>1. Fail(e, "ready")
        BY <2>1, <3>2 DEF ReadyError
      <4>2. /\ pc' \in [End -> WorkPcs] /\ pc' = [pc EXCEPT ![e] = "idle"]
            /\ pend' \in [End -> BOOLEAN] /\ \A f \in End : pend'[f] => pend[f] \/ f = e
            /\ att' = att
        BY <1>6, <4>1, FailFacts DEF Inv
      <4> QED
        BY <4>2 DEF Inv, TypeOK
    <3> QED
      BY <3>1, <3>2
  <2>3. TypeOK'
    BY <1>2, <1>4, <2>1, <2>2 DEF Inv, TypeOK
  <2>4. p \in WorkPcs /\ UNCHANGED <<phase, tun, rsent, rrem, reg>>
    BY <1>2, <1>6, <2>1
  <2>5. WorkKnows' /\ RemoteReadyIsTrue' /\ ReadyIsPublished' /\ PublishedEndToEnd'
    BY <1>2, <1>3, <2>2, <2>4, RailSame
  <2> QED
    BY <1>4, <1>5, <2>3, <2>5 DEF Inv
<1> QED
  BY <1>7, <1>8

\* The work records that it sent READY; its next step publishes.
LEMMA WorkReadySentInv ==
  ASSUME Inv, NEW e \in End, WorkReadySent(e)
  PROVE  Inv'
<1>1. "publish" \in WorkPcs /\ Enter(e, "publish")
  BY DEF WorkReadySent, WorkPcs
<1>2. /\ pc' \in [End -> WorkPcs] /\ pc' = [pc EXCEPT ![e] = "publish"]
      /\ att' \in [End -> [Stage -> Nat]]
      /\ \A f \in End, s \in Stage : att'[f][s] <= Limit[s]
  BY <1>1, EnterFacts DEF Inv
<1>3. /\ rsent' \in [End -> BOOLEAN] /\ rsent'[e] /\ tun[e] /\ phase[e] = "queued"
      /\ \A f \in End : f # e => rsent'[f] = rsent[f]
  BY DEF WorkReadySent, Inv, TypeOK, WorkKnows
<1>4. TypeOK'
  BY <1>2, <1>3 DEF WorkReadySent, Inv, TypeOK, nvars, bvars
<1>5. ReadyHasTunnel' /\ AckHasTunnel' /\ HandlerKnows'
  BY LinkSame DEF WorkReadySent, nvars
<1>6. WorkKnows'
  BY <1>2, <1>3 DEF WorkReadySent, Inv, TypeOK, WorkKnows
<1>7. RemoteReadyIsTrue' /\ ReadyIsPublished' /\ PublishedEndToEnd'
  BY <1>2, <1>3
  DEF WorkReadySent, Inv, TypeOK, RemoteReadyIsTrue, ReadyIsPublished, PublishedEndToEnd, DataReady
<1> QED
  BY <1>4, <1>5, <1>6, <1>7 DEF Inv

\* A step of the handler that leaves the rails' progress alone.
LEMMA RailsSame ==
  ASSUME Inv, UNCHANGED <<phase, tun, rsent, rrem, reg, pc>>,
         \A f \in End : pend'[f] => pend[f] \/ phase[f] = "queued"
  PROVE  WorkKnows' /\ RemoteReadyIsTrue' /\ ReadyIsPublished' /\ PublishedEndToEnd'
  BY DEF Inv, WorkKnows, RemoteReadyIsTrue, ReadyIsPublished, PublishedEndToEnd, DataReady

\* A message is dropped: nobody knows the rail, or the link lost it.
LEMMA DropInv ==
  ASSUME Inv, NEW n \in Node, RxNoRail(n) \/ Lose(n)
  PROVE  Inv'
<1>1. PICK k \in Node : chan[Other(k)] # <<>> /\ chan' = Consume(k)
  <2>1. CASE RxNoRail(n)
    BY <2>1 DEF RxNoRail, Receives
  <2>2. CASE Lose(n)
    BY <2>2, OtherFacts DEF Lose, Consume
  <2> QED
    BY <2>1, <2>2
<1>2. UNCHANGED <<evars, lock, resp, hand, late, tfails>> /\ lost' \in 0..MaxLost
  BY BoundAssumption DEF RxNoRail, Lose, bvars, Inv, TypeOK
<1>3. chan' \in [Node -> Seq(Message)] /\ ReadyHasTunnel'
  BY <1>1, <1>2, IncomingFacts DEF evars, Inv
<1>4. TypeOK'
  BY <1>2, <1>3 DEF Inv, TypeOK, evars
<1>5. AckHasTunnel' /\ HandlerKnows'
  BY <1>2 DEF Inv, AckHasTunnel, HandlerKnows, evars
<1>6. WorkKnows' /\ RemoteReadyIsTrue' /\ ReadyIsPublished' /\ PublishedEndToEnd'
  BY <1>2, RailsSame DEF evars
<1> QED
  BY <1>3, <1>4, <1>5, <1>6 DEF Inv

\* A HELLO is recorded and answered; a HELLO_ACK makes no promise.
LEMMA RxHelloInv ==
  ASSUME Inv, NEW n \in Node, RxHello(n)
  PROVE  Inv'
<1> DEFINE e == At(n)
<1>1. /\ Incoming(n) \in Message /\ e \in End /\ Consume(n) \in [Node -> Seq(Message)]
      /\ n = e[1]
  BY IncomingFacts DEF RxHello, Receives, Inv, At
<1>2. UNCHANGED <<phase, tun, rsent, rrem, reg, att, pc, lock, resp, hand, lost, late, tfails>>
  BY DEF RxHello, bvars
<1>3. neg' \in [End -> BOOLEAN] /\ rpath' \in [End -> BOOLEAN] /\ used' \in [End -> BOOLEAN]
  BY <1>1 DEF RxHello, Apply, Inv, TypeOK, Message
<1>4. pend' \in [End -> BOOLEAN] /\ \A f \in End : pend'[f] => pend[f] \/ phase[f] = "queued"
  BY <1>1 DEF RxHello, Kick, Inv, TypeOK
<1>5. chan' \in [Node -> Seq(Message)] /\ ReadyHasTunnel'
  <2>1. Fill("HELLO_ACK", e) \in Message /\ Fill("HELLO_ACK", e).op = "HELLO_ACK"
    BY <1>1, PeerFacts DEF Fill, Message, Ops
  <2>2. chan' = [Consume(n) EXCEPT ![n] = Append(@, Fill("HELLO_ACK", e))]
    BY DEF RxHello
  <2>3. \A k \in Node : \A i \in 1..Len(Consume(n)[k]) :
          Consume(n)[k][i].op \in {"READY", "READY_ACK"} => tun'[<<k, Consume(n)[k][i].rail>>]
    <3>1. chan[Other(n)] # <<>>
      BY DEF RxHello, Receives
    <3> QED
      BY <1>2, <3>1, ConsumeFacts DEF Inv
  <2>4. Fill("HELLO_ACK", e).op \in {"READY", "READY_ACK"}
          => tun'[<<n, Fill("HELLO_ACK", e).rail>>]
    BY <2>1
  <2> HIDE DEF e
  <2> QED
    BY <1>1, <2>1, <2>2, <2>3, <2>4, SendFacts
<1>6. TypeOK'
  BY <1>2, <1>3, <1>4, <1>5 DEF Inv, TypeOK
<1>7. AckHasTunnel' /\ HandlerKnows'
  BY <1>2 DEF Inv, AckHasTunnel, HandlerKnows
<1>8. WorkKnows' /\ RemoteReadyIsTrue' /\ ReadyIsPublished' /\ PublishedEndToEnd'
  BY <1>2, <1>4, RailsSame
<1> QED
  BY <1>5, <1>6, <1>7, <1>8 DEF Inv

\* A response completes the request that is outstanding.
LEMMA RxAckInv ==
  ASSUME Inv, NEW n \in Node, RxHelloAck(n) \/ RxReadyAck(n)
  PROVE  Inv'
<1>1. /\ Match(n) /\ chan' = Consume(n) /\ chan[Other(n)] # <<>>
      /\ UNCHANGED <<phase, tun, rsent, rrem, reg, att, pend, pc, lock, hand, lost, late, tfails>>
  BY DEF RxHelloAck, RxReadyAck, Receives, evars, bvars
<1>2. /\ Incoming(n) \in Message /\ At(n) \in End
      /\ Incoming(n).op \in {"READY", "READY_ACK"} => tun[<<Other(n), Incoming(n).rail>>]
      /\ chan' \in [Node -> Seq(Message)] /\ ReadyHasTunnel'
  BY <1>1, IncomingFacts DEF Inv
<1>3. neg' \in [End -> BOOLEAN] /\ rpath' \in [End -> BOOLEAN] /\ used' \in [End -> BOOLEAN]
  BY <1>2 DEF RxHelloAck, RxReadyAck, Apply, Inv, TypeOK, Message, evars
<1>4. resp' \in [Node -> Message \cup {NoMsg}] /\ AckHasTunnel'
  BY <1>1, <1>2 DEF Match, Inv, TypeOK, AckHasTunnel
<1>5. TypeOK'
  BY <1>1, <1>2, <1>3, <1>4 DEF Inv, TypeOK
<1>6. HandlerKnows'
  BY <1>1 DEF Inv, HandlerKnows
<1>7. WorkKnows' /\ RemoteReadyIsTrue' /\ ReadyIsPublished' /\ PublishedEndToEnd'
  BY <1>1, RailsSame
<1> QED
  BY <1>2, <1>4, <1>5, <1>6, <1>7 DEF Inv

\* The handler of a READY reads the tunnel state.
LEMMA RxReadyInv ==
  ASSUME Inv, NEW n \in Node, RxReady(n)
  PROVE  Inv'
<1>1. /\ chan' = Consume(n) /\ chan[Other(n)] # <<>> /\ Incoming(n).op = "READY"
      /\ UNCHANGED <<evars, lock, resp, bvars>>
  BY DEF RxReady, Receives, Incoming
<1>2. /\ Incoming(n) \in Message /\ At(n) \in End
      /\ tun[<<Other(n), Incoming(n).rail>>]
      /\ chan' \in [Node -> Seq(Message)] /\ ReadyHasTunnel'
  BY <1>1, IncomingFacts DEF Inv, evars
<1>3. Incoming(n).rail \in Rail /\ tun[At(n)] \in BOOLEAN
  BY <1>2 DEF Message, Inv, TypeOK
<1>4. hand' = [hand EXCEPT ![n] = [pc |-> "mark", rail |-> Incoming(n).rail, up |-> tun[At(n)]]]
  BY DEF RxReady
<1>5. hand' \in [Node -> [pc : {"idle", "mark", "acked"}, rail : Rail \cup {NoRail},
                          up : BOOLEAN]]
  BY <1>3, <1>4 DEF Inv, TypeOK
<1>6. TypeOK'
  BY <1>1, <1>2, <1>5 DEF Inv, TypeOK, evars, bvars
<1>7. HandlerKnows'
  BY <1>1, <1>2, <1>3, <1>4 DEF Inv, TypeOK, HandlerKnows, At, evars
<1>8. AckHasTunnel'
  BY <1>1 DEF Inv, AckHasTunnel, evars
<1>9. WorkKnows' /\ RemoteReadyIsTrue' /\ ReadyIsPublished' /\ PublishedEndToEnd'
  BY <1>1, RailsSame DEF evars
<1> QED
  BY <1>2, <1>6, <1>7, <1>8, <1>9 DEF Inv

\* The handler records the peer's READY, publishes, and answers.
LEMMA RxReadyMarkInv ==
  ASSUME Inv, NEW n \in Node, RxReadyMark(n)
  PROVE  Inv'
<1> DEFINE e == <<n, hand[n].rail>>
<1>1. /\ e \in End /\ hand[n].rail \in Rail /\ hand[n].pc = "mark" /\ e[1] = n /\ e[2] = hand[n].rail
      /\ tun[Peer(e)] /\ (hand[n].up => tun[e])
  BY DEF RxReadyMark, Inv, HandlerKnows, End, Peer
<1>2. /\ rrem' = [rrem EXCEPT ![e] = TRUE] /\ Publish(e)
      /\ UNCHANGED <<phase, neg, rpath, tun, rsent, used, att, pc, lock, resp, late, tfails>>
  BY DEF RxReadyMark
<1>3. \/ /\ UNCHANGED chan /\ Kick(e) /\ hand' = [hand EXCEPT ![n] = HandIdle]
      \/ /\ chan' = [chan EXCEPT ![n] = Append(@, Fill("READY_ACK", e))] /\ UNCHANGED pend
         /\ hand[n].up /\ hand' = [hand EXCEPT ![n].pc = "acked"]
  BY DEF RxReadyMark, Send
<1>4. lost' \in 0..MaxLost
  BY BoundAssumption DEF RxReadyMark, Inv, TypeOK
<1>5. rrem' \in [End -> BOOLEAN] /\ rrem'[e] /\ \A f \in End : f # e => rrem'[f] = rrem[f]
  BY <1>1, <1>2 DEF Inv, TypeOK
<1>6. /\ reg' \in [End -> BOOLEAN] /\ \A f \in End : f # e => reg'[f] = reg[f]
      /\ reg'[e] = (reg[e] \/ (tun'[e] /\ rsent'[e] /\ rrem'[e]))
  <2>1. tun' \in [End -> BOOLEAN] /\ rsent' \in [End -> BOOLEAN]
    BY <1>2 DEF Inv, TypeOK
  <2> QED
    BY <1>1, <1>2, <1>5, <2>1, PublishFacts DEF Inv
<1>7. chan' \in [Node -> Seq(Message)] /\ ReadyHasTunnel'
  <2>1. CASE UNCHANGED chan
    BY <1>2, <2>1 DEF Inv, TypeOK, ReadyHasTunnel
  <2>2. CASE chan' = [chan EXCEPT ![n] = Append(@, Fill("READY_ACK", e))] /\ hand[n].up
    <3>1. Fill("READY_ACK", e) \in Message /\ Fill("READY_ACK", e).rail = hand[n].rail
      BY <1>1 DEF Fill, Message, Ops
    <3>2. chan \in [Node -> Seq(Message)]
      BY DEF Inv, TypeOK
    <3>3. \A k \in Node : \A i \in 1..Len(chan[k]) :
            chan[k][i].op \in {"READY", "READY_ACK"} => tun'[<<k, chan[k][i].rail>>]
      BY <1>2 DEF Inv, ReadyHasTunnel
    <3>4. tun'[<<n, Fill("READY_ACK", e).rail>>]
      BY <1>1, <1>2, <2>2, <3>1
    <3> QED
      BY <2>2, <3>1, <3>2, <3>3, <3>4, SendFacts
  <2> QED
    BY <1>3, <2>1, <2>2
<1>8. /\ hand' \in [Node -> [pc : {"idle", "mark", "acked"}, rail : Rail \cup {NoRail},
                             up : BOOLEAN]]
      /\ HandlerKnows'
  <2>1. CASE hand' = [hand EXCEPT ![n] = HandIdle]
    BY <1>2, <2>1 DEF Inv, TypeOK, HandlerKnows, HandIdle
  <2>2. CASE hand[n].up /\ hand' = [hand EXCEPT ![n].pc = "acked"]
    <3>1. hand' \in [Node -> [pc : {"idle", "mark", "acked"}, rail : Rail \cup {NoRail},
                              up : BOOLEAN]]
      <4>1. hand[n] \in [pc : {"idle", "mark", "acked"}, rail : Rail \cup {NoRail}, up : BOOLEAN]
        BY DEF Inv, TypeOK
      <4>2. [hand[n] EXCEPT !.pc = "acked"]
              \in [pc : {"idle", "mark", "acked"}, rail : Rail \cup {NoRail}, up : BOOLEAN]
        BY <4>1
      <4>3. hand' = [hand EXCEPT ![n] = [hand[n] EXCEPT !.pc = "acked"]]
        BY <2>2
      <4> QED
        BY <4>2, <4>3 DEF Inv, TypeOK
    <3>2. /\ hand'[n].rail = hand[n].rail /\ hand'[n].up = hand[n].up
          /\ \A k \in Node : k # n => hand'[k] = hand[k]
      BY <2>2 DEF Inv, TypeOK
    <3>3. HandlerKnows'
      BY <1>1, <1>2, <2>2, <3>2 DEF Inv, HandlerKnows, Peer
    <3> QED
      BY <3>1, <3>3
  <2> QED
    BY <1>3, <2>1, <2>2
<1>9. pend' \in [End -> BOOLEAN] /\ \A f \in End : pend'[f] => pend[f] \/ phase[f] = "queued"
  BY <1>1, <1>3 DEF Kick, Inv, TypeOK
<1>10. TypeOK'
  BY <1>2, <1>4, <1>5, <1>6, <1>7, <1>8, <1>9 DEF Inv, TypeOK
<1>11. AckHasTunnel'
  BY <1>2 DEF Inv, AckHasTunnel
<1>12. WorkKnows'
  BY <1>2, <1>9 DEF Inv, WorkKnows
<1>13. RemoteReadyIsTrue'
  BY <1>1, <1>2, <1>5 DEF Inv, RemoteReadyIsTrue
<1>14. ReadyIsPublished'
  BY <1>1, <1>2, <1>5, <1>6 DEF Inv, ReadyIsPublished, DataReady
<1>15. PublishedEndToEnd'
  BY <1>1, <1>2, <1>5, <1>6 DEF Inv, PublishedEndToEnd, DataReady
<1> QED
  BY <1>7, <1>8, <1>10, <1>11, <1>12, <1>13, <1>14, <1>15 DEF Inv

\* The handler records that its READY_ACK went out, and publishes.
LEMMA RxReadyAckedInv ==
  ASSUME Inv, NEW n \in Node, RxReadyAcked(n)
  PROVE  Inv'
<1> DEFINE e == <<n, hand[n].rail>>
<1>1. /\ e \in End /\ hand[n].rail \in Rail /\ tun[Peer(e)] /\ tun[e]
  BY DEF RxReadyAcked, Inv, HandlerKnows, End, Peer
<1>2. /\ rsent' = [rsent EXCEPT ![e] = TRUE] /\ Publish(e) /\ Kick(e)
      /\ hand' = [hand EXCEPT ![n] = HandIdle]
      /\ UNCHANGED <<phase, neg, rpath, tun, rrem, used, att, pc, lock, resp, chan, lost, late, tfails>>
  BY DEF RxReadyAcked, bvars
<1>3. rsent' \in [End -> BOOLEAN] /\ rsent'[e] /\ \A f \in End : f # e => rsent'[f] = rsent[f]
  BY <1>1, <1>2 DEF Inv, TypeOK
<1>4. /\ reg' \in [End -> BOOLEAN] /\ \A f \in End : f # e => reg'[f] = reg[f]
      /\ reg'[e] = (reg[e] \/ (tun'[e] /\ rsent'[e] /\ rrem'[e]))
  <2>1. tun' \in [End -> BOOLEAN] /\ rrem' \in [End -> BOOLEAN]
    BY <1>2 DEF Inv, TypeOK
  <2> QED
    BY <1>1, <1>2, <1>3, <2>1, PublishFacts DEF Inv
<1>5. /\ hand' \in [Node -> [pc : {"idle", "mark", "acked"}, rail : Rail \cup {NoRail},
                             up : BOOLEAN]]
      /\ HandlerKnows'
  BY <1>2 DEF Inv, TypeOK, HandlerKnows, HandIdle
<1>6. pend' \in [End -> BOOLEAN] /\ \A f \in End : pend'[f] => pend[f] \/ phase[f] = "queued"
  BY <1>1, <1>2 DEF Kick, Inv, TypeOK
<1>7. TypeOK'
  BY <1>2, <1>3, <1>4, <1>5, <1>6 DEF Inv, TypeOK
<1>8. ReadyHasTunnel' /\ AckHasTunnel'
  BY <1>2 DEF Inv, ReadyHasTunnel, AckHasTunnel
<1>9. WorkKnows'
  BY <1>1, <1>2, <1>3, <1>6 DEF Inv, WorkKnows
<1>10. RemoteReadyIsTrue'
  BY <1>2 DEF Inv, RemoteReadyIsTrue
<1>11. ReadyIsPublished'
  BY <1>1, <1>2, <1>3, <1>4 DEF Inv, ReadyIsPublished, DataReady
<1>12. PublishedEndToEnd'
  BY <1>1, <1>2, <1>3, <1>4 DEF Inv, PublishedEndToEnd, DataReady, RemoteReadyIsTrue
<1> QED
  BY <1>5, <1>7, <1>8, <1>9, <1>10, <1>11, <1>12 DEF Inv

\* Data flows on a published rail.
LEMMA SendDataInv ==
  ASSUME Inv, NEW e \in End, SendData(e)
  PROVE  Inv'
<1>1. used' \in [End -> BOOLEAN]
  BY DEF SendData, Inv, TypeOK
<1>2. TypeOK'
  BY <1>1 DEF SendData, Inv, TypeOK, nvars, bvars
<1>3. ReadyHasTunnel' /\ AckHasTunnel' /\ HandlerKnows'
  BY LinkSame DEF SendData, nvars
<1>4. WorkKnows' /\ RemoteReadyIsTrue' /\ ReadyIsPublished' /\ PublishedEndToEnd'
  BY RailsSame DEF SendData
<1> QED
  BY <1>2, <1>3, <1>4 DEF Inv

-----------------------------------------------------------------------------
\* Every step of the bring-up keeps the invariant.
LEMMA NextInv == Inv /\ [Next]_vars => Inv'
<1> SUFFICES ASSUME Inv, [Next]_vars PROVE Inv'
  OBVIOUS
<1>1. ASSUME NEW e \in End, Probe(e) PROVE Inv'
  BY <1>1, ProbeInv
<1>2. ASSUME NEW e \in End, Work(e) PROVE Inv'
  BY <1>2, WorkStartInv, RequestInv, TimeoutInv, HelloResponseInv, TunnelUpInv,
     WorkPublishInv, ReadyResponseInv, WorkReadySentInv DEF Work
<1>3. ASSUME NEW e \in End, TunnelFails(e) \/ SendData(e) PROVE Inv'
  BY <1>3, TunnelFailsInv, SendDataInv
<1>4. ASSUME NEW n \in Node, Handle(n) \/ Lose(n) PROVE Inv'
  BY <1>4, DropInv, RxHelloInv, RxAckInv, RxReadyInv, RxReadyMarkInv, RxReadyAckedInv
  DEF Handle
<1>5. CASE UNCHANGED vars
  <2>1. UNCHANGED <<phase, neg, rpath, tun, rsent, rrem, reg, used, att, pend, pc,
                    lock, resp, chan, hand, lost, late, tfails>>
    BY <1>5 DEF vars, evars, nvars, bvars
  <2>2. TypeOK'
    BY <2>1 DEF Inv, TypeOK
  <2> QED
    BY <2>1, <2>2, LinkSame, RailsSame DEF Inv
<1> QED
  BY <1>1, <1>2, <1>3, <1>4, <1>5 DEF Next

\* The invariant holds throughout the bring-up of a link.
LEMMA Invariance == Spec => []Inv
  BY InitInv, NextInv, PTL DEF Spec

\* Flags, counters, locks, responses and messages keep their types: the
\* attempt counters never pass their limits, and only messages are sent.
THEOREM TypeCorrect == Spec => []TypeOK
  BY Invariance, PTL DEF Inv

\* Whichever edge comes last and whichever thread takes it, a data-ready rail
\* is published: for any number of rails, losses, late answers and retries.
THEOREM ReadyRailsArePublished == Spec => []ReadyIsPublished
  BY Invariance, PTL DEF Inv

\* An end that believes its peer ready is right about the peer's tunnel.
THEOREM RemoteReadinessIsTrue == Spec => []RemoteReadyIsTrue
  BY Invariance, PTL DEF Inv

\* A published rail has a tunnel on both ends.
THEOREM PublishedRailsWork == Spec => []PublishedEndToEnd
  BY Invariance, PTL DEF Inv
-----------------------------------------------------------------------------
(* The exchange between the two ends: as long as no request times out that *)
(* is still answered, a node has at most one message under way.            *)

Req == {"HELLO", "READY"}
Ack == {"HELLO_ACK", "READY_ACK"}

\* A channel with no message of S, and one with exactly one.
None(c, S) == \A i \in 1..Len(c) : c[i].op \notin S
The(c, S, op, r) ==
  \E i \in 1..Len(c) : /\ c[i].op \in S /\ c[i].op = op /\ c[i].rail = r
                       /\ \A j \in 1..Len(c) : c[j].op \in S => j = i

\* What the holder of the control lock asked, and the answer it waits for.
Asks(n) == IF pc[<<n, lock[n]>>] = "helloWait" THEN "HELLO" ELSE "READY"
Expects(n) == IF pc[<<n, lock[n]>>] = "helloWait" THEN "HELLO_ACK" ELSE "READY_ACK"

\* The stages of a node's exchange: nothing under way, the request, the
\* handler of the other node, the answer, the answer matched.
Quiet(n) ==
  /\ None(chan[n], Req) /\ None(chan[Other(n)], Ack)
  /\ hand[Other(n)].pc # "mark" /\ resp[n] = NoMsg
Asked(n) ==
  /\ The(chan[n], Req, Asks(n), lock[n]) /\ None(chan[Other(n)], Ack)
  /\ hand[Other(n)].pc # "mark" /\ resp[n] = NoMsg
Marking(n) ==
  /\ None(chan[n], Req) /\ None(chan[Other(n)], Ack)
  /\ hand[Other(n)].pc = "mark" /\ hand[Other(n)].rail = lock[n]
  /\ Asks(n) = "READY" /\ resp[n] = NoMsg
Answered(n) ==
  /\ None(chan[n], Req) /\ The(chan[Other(n)], Ack, Expects(n), lock[n])
  /\ hand[Other(n)].pc # "mark" /\ resp[n] = NoMsg
Matched(n) ==
  /\ None(chan[n], Req) /\ None(chan[Other(n)], Ack) /\ hand[Other(n)].pc # "mark"
  /\ resp[n] # NoMsg /\ resp[n].op = Expects(n) /\ resp[n].rail = lock[n]
Exchange(n) ==
  \/ Quiet(n)
  \/ lock[n] # NoRail /\ (Asked(n) \/ Marking(n) \/ Answered(n) \/ Matched(n))

OneExchange == late = 0 => \A n \in Node : Exchange(n)

\* The control lock is held while an answer is awaited; data flows on published
\* rails only; a HELLO is asked before there is a tunnel.
Waits == {"helloWait", "readyWait"}
StagesOK ==
  \A e \in End :
    /\ pc[e] \in Waits <=> lock[e[1]] = e[2]
    /\ used[e] => reg[e]
    /\ tun[e] \/ pc[e] = "tunnel" => neg[e]
    /\ pc[e] \in {"hello", "helloWait"} => ~tun[e]

ExchInv == Inv /\ StagesOK /\ OneExchange

\* What taking the first message does to the messages of S.
LEMMA TailOps ==
  ASSUME NEW c \in Seq(Message), c # <<>>, NEW S
  PROVE  /\ None(c, S) => None(Tail(c), S) /\ Head(c).op \notin S
         /\ \A op, r : The(c, S, op, r) =>
              IF Head(c).op \in S
              THEN None(Tail(c), S) /\ Head(c).op = op /\ Head(c).rail = r
              ELSE The(Tail(c), S, op, r)
<1> DEFINE d == Tail(c)
<1>1. /\ Len(c) \in Nat /\ Len(c) >= 1 /\ Len(d) = Len(c) - 1 /\ Head(c) = c[1]
      /\ \A i \in 1..Len(d) : d[i] = c[i + 1]
  OBVIOUS
<1> HIDE DEF d
<1>2. \A i \in 1..Len(d) : i + 1 \in 1..Len(c) /\ d[i] = c[i + 1]
  BY <1>1
<1>3. 1 \in 1..Len(c)
  BY <1>1
<1>4. None(c, S) => None(d, S) /\ Head(c).op \notin S
  BY <1>1, <1>2, <1>3 DEF None
<1>5. ASSUME NEW op, NEW r, The(c, S, op, r), Head(c).op \in S
      PROVE  None(d, S) /\ Head(c).op = op /\ Head(c).rail = r
  <2>1. PICK i \in 1..Len(c) : /\ c[i].op \in S /\ c[i].op = op /\ c[i].rail = r
                               /\ \A j \in 1..Len(c) : c[j].op \in S => j = i
    BY <1>5 DEF The
  <2>2. i = 1
    BY <1>1, <1>3, <1>5, <2>1
  <2>3. \A j \in 1..Len(d) : d[j].op \notin S
    <3> SUFFICES ASSUME NEW j \in 1..Len(d), d[j].op \in S PROVE FALSE
      OBVIOUS
    <3>1. j + 1 \in 1..Len(c) /\ c[j + 1].op \in S
      BY <1>2
    <3> QED
      BY <1>1, <2>1, <2>2, <3>1
  <2> QED
    BY <1>1, <2>1, <2>2, <2>3 DEF None
<1>6. ASSUME NEW op, NEW r, The(c, S, op, r), Head(c).op \notin S
      PROVE  The(d, S, op, r)
  <2>1. PICK i \in 1..Len(c) : /\ c[i].op \in S /\ c[i].op = op /\ c[i].rail = r
                               /\ \A j \in 1..Len(c) : c[j].op \in S => j = i
    BY <1>6 DEF The
  <2>2. i # 1
    BY <1>1, <1>6, <2>1
  <2>3. i - 1 \in 1..Len(d) /\ (i - 1) + 1 = i
    BY <1>1, <2>2
  <2>4. d[i - 1] = c[i]
    BY <1>2, <2>3
  <2>5. ASSUME NEW j \in 1..Len(d), d[j].op \in S PROVE j = i - 1
    <3>1. j + 1 \in 1..Len(c) /\ c[j + 1].op \in S
      BY <1>2, <2>5
    <3>2. j + 1 = i
      BY <2>1, <3>1
    <3> QED
      BY <1>1, <3>2
  <2> QED
    BY <2>1, <2>3, <2>4, <2>5 DEF The
<1> QED
  BY <1>4, <1>5, <1>6 DEF d

\* What sending a message does to the messages of S.
LEMMA AppendOps ==
  ASSUME NEW c \in Seq(Message), NEW m \in Message, NEW S
  PROVE  /\ None(c, S) => IF m.op \in S THEN The(Append(c, m), S, m.op, m.rail)
                                        ELSE None(Append(c, m), S)
         /\ \A op, r : The(c, S, op, r) /\ m.op \notin S => The(Append(c, m), S, op, r)
<1> DEFINE d == Append(c, m)
<1>1. /\ Len(c) \in Nat /\ Len(d) = Len(c) + 1 /\ d[Len(c) + 1] = m
      /\ \A i \in 1..Len(c) : d[i] = c[i]
  OBVIOUS
<1> HIDE DEF d
<1>2. \A i \in 1..Len(d) : i \in 1..Len(c) \/ i = Len(c) + 1
  BY <1>1
<1>3. Len(c) + 1 \in 1..Len(d) /\ \A i \in 1..Len(c) : i \in 1..Len(d)
  BY <1>1
<1>4. ASSUME None(c, S), m.op \notin S PROVE None(d, S)
  BY <1>1, <1>2, <1>4 DEF None
<1>5. ASSUME None(c, S), m.op \in S PROVE The(d, S, m.op, m.rail)
  <2>1. \A j \in 1..Len(d) : d[j].op \in S => j = Len(c) + 1
    BY <1>1, <1>2, <1>5 DEF None
  <2> QED
    BY <1>1, <1>3, <1>5, <2>1 DEF The
<1>6. ASSUME NEW op, NEW r, The(c, S, op, r), m.op \notin S PROVE The(d, S, op, r)
  <2>1. PICK i \in 1..Len(c) : /\ c[i].op \in S /\ c[i].op = op /\ c[i].rail = r
                               /\ \A j \in 1..Len(c) : c[j].op \in S => j = i
    BY <1>6 DEF The
  <2>2. \A j \in 1..Len(d) : d[j].op \in S => j = i
    BY <1>1, <1>2, <1>6, <2>1
  <2> QED
    BY <1>1, <1>3, <2>1, <2>2 DEF The
<1> QED
  BY <1>4, <1>5, <1>6 DEF d

\* An exchange of which a step changes nothing that counts.
LEMMA ExchangeFrame ==
  ASSUME NEW n \in Node, Exchange(n),
         lock'[n] = lock[n], lock[n] # NoRail => pc'[<<n, lock[n]>>] = pc[<<n, lock[n]>>],
         resp'[n] = resp[n],
         hand'[Other(n)].pc = "mark" <=> hand[Other(n)].pc = "mark",
         hand[Other(n)].pc = "mark" => hand'[Other(n)].rail = hand[Other(n)].rail,
         None(chan[n], Req) => None(chan'[n], Req),
         \A op, r : The(chan[n], Req, op, r) => The(chan'[n], Req, op, r),
         None(chan[Other(n)], Ack) => None(chan'[Other(n)], Ack),
         \A op, r : The(chan[Other(n)], Ack, op, r) => The(chan'[Other(n)], Ack, op, r)
  PROVE  Exchange(n)'
<1>1. CASE Quiet(n)
  BY <1>1 DEF Quiet, Exchange
<1>2. CASE lock[n] # NoRail
  <2>1. Asks(n)' = Asks(n) /\ Expects(n)' = Expects(n)
    BY <1>2 DEF Asks, Expects
  <2>2. CASE Asked(n)
    BY <1>2, <2>1, <2>2 DEF Asked, Exchange
  <2>3. CASE Marking(n)
    BY <1>2, <2>1, <2>3 DEF Marking, Exchange
  <2>4. CASE Answered(n)
    BY <1>2, <2>1, <2>4 DEF Answered, Exchange
  <2>5. CASE Matched(n)
    BY <1>2, <2>1, <2>5 DEF Matched, Exchange
  <2> QED
    BY <1>1, <1>2, <2>2, <2>3, <2>4, <2>5 DEF Exchange
<1> QED
  BY <1>1, <1>2 DEF Exchange

\* A step that leaves the link alone and no awaiting work behind.
LEMMA ExchangeSame ==
  ASSUME ExchInv, UNCHANGED <<lock, resp, chan, hand, late>>,
         \A f \in End : pc[f] \in Waits => pc'[f] = pc[f]
  PROVE  OneExchange'
<1> SUFFICES ASSUME late = 0, NEW n \in Node PROVE Exchange(n)'
  BY DEF OneExchange
<1>1. Exchange(n)
  BY DEF ExchInv, OneExchange
<1>2. lock[n] # NoRail => pc'[<<n, lock[n]>>] = pc[<<n, lock[n]>>]
  <2> SUFFICES ASSUME lock[n] # NoRail PROVE pc'[<<n, lock[n]>>] = pc[<<n, lock[n]>>]
    OBVIOUS
  <2>1. lock[n] \in Rail
    BY DEF ExchInv, Inv, TypeOK
  <2>2. <<n, lock[n]>> \in End /\ <<n, lock[n]>>[1] = n /\ <<n, lock[n]>>[2] = lock[n]
    BY <2>1 DEF End
  <2> QED
    BY <2>2 DEF ExchInv, StagesOK
<1> QED
  BY <1>1, <1>2, ExchangeFrame

\* An exchange of the node whose work does not take the step.
LEMMA ExchangeOther ==
  ASSUME ExchInv, late = 0, NEW e \in End, NEW n \in Node, n # e[1],
         lock'[n] = lock[n], resp'[n] = resp[n], UNCHANGED hand,
         \A f \in End : f # e => pc'[f] = pc[f],
         None(chan[n], Req) => None(chan'[n], Req),
         \A op, r : The(chan[n], Req, op, r) => The(chan'[n], Req, op, r),
         None(chan[Other(n)], Ack) => None(chan'[Other(n)], Ack),
         \A op, r : The(chan[Other(n)], Ack, op, r) => The(chan'[Other(n)], Ack, op, r)
  PROVE  Exchange(n)'
<1>1. Exchange(n)
  BY DEF ExchInv, OneExchange
<1>2. lock[n] # NoRail => pc'[<<n, lock[n]>>] = pc[<<n, lock[n]>>]
  <2> SUFFICES ASSUME lock[n] # NoRail PROVE pc'[<<n, lock[n]>>] = pc[<<n, lock[n]>>]
    OBVIOUS
  <2>1. lock[n] \in Rail
    BY DEF ExchInv, Inv, TypeOK
  <2>2. <<n, lock[n]>> \in End /\ <<n, lock[n]>> # e
    BY <2>1 DEF End
  <2> QED
    BY <2>2
<1> QED
  BY <1>1, <1>2, ExchangeFrame

\* Where the work goes after HELLO or tunnel it awaits nothing.
LEMMA AfterFacts ==
  ASSUME NEW e \in End, NEW n \in BOOLEAN, NEW p \in BOOLEAN
  PROVE  /\ AfterTunnel(e) \in WorkPcs \ (Waits \cup {"hello", "tunnel"})
         /\ AfterHello(e, n, p) \in WorkPcs \ (Waits \cup {"hello"})
         /\ AfterHello(e, n, p) = "tunnel" => n
  BY DEF AfterTunnel, AfterHello, WorkPcs, Waits

\* The works' own steps: no message moves, nobody waits.
LEMMA ExchLocal ==
  ASSUME ExchInv, NEW e \in End,
         \/ Probe(e) \/ WorkStart(e) \/ TunnelUp(e) \/ TunnelPublish(e)
         \/ WorkReadySent(e) \/ WorkPublish(e) \/ TunnelFails(e) \/ SendData(e)
  PROVE  StagesOK' /\ OneExchange'
<1> USE DEF ExchInv
<1>0. TypeOK
  BY DEF Inv
<1>t. /\ pc \in [End -> WorkPcs] /\ neg \in [End -> BOOLEAN] /\ tun \in [End -> BOOLEAN]
      /\ rpath \in [End -> BOOLEAN] /\ used \in [End -> BOOLEAN] /\ reg \in [End -> BOOLEAN]
      /\ rsent \in [End -> BOOLEAN] /\ rrem \in [End -> BOOLEAN]
  BY <1>0 DEF TypeOK
<1>1. CASE Probe(e)
  <2>1. UNCHANGED <<lock, resp, chan, hand, late, pc, used, reg, tun, neg>>
    BY <1>1 DEF Probe, AddRail, AllocRings, QueueRail, nvars, bvars
  <2> QED
    BY <2>1, ExchangeSame DEF StagesOK
<1>2. CASE SendData(e)
  <2>1. UNCHANGED <<lock, resp, chan, hand, late, pc, reg, tun, neg>>
    BY <1>2 DEF SendData, nvars, bvars
  <2>2. \A f \in End : used'[f] => reg[f]
    BY <1>2, <1>t DEF SendData, StagesOK
  <2> QED
    BY <2>1, <2>2, ExchangeSame DEF StagesOK
<1>3. CASE WorkStart(e)
  <2> DEFINE p == IF ~neg[e] THEN "hello" ELSE AfterHello(e, neg[e], rpath[e])
  <2>1. /\ UNCHANGED <<lock, resp, chan, hand, late, used, reg, tun, neg>>
        /\ pc[e] = "idle"
    BY <1>3 DEF WorkStart, nvars, bvars
  <2>2. pc' = [pc EXCEPT ![e] = p]
    BY <1>3 DEF WorkStart, Enter
  <2>3. p \in WorkPcs \ Waits /\ (p = "tunnel" => neg[e]) /\ (p = "hello" => ~neg[e])
    BY AfterFacts, <1>t DEF WorkPcs, Waits
  <2> HIDE DEF p
  <2>4. OneExchange'
    BY <2>1, <2>2, <1>t, ExchangeSame DEF Waits
  <2> QED
    BY <2>1, <2>2, <2>3, <2>4, <1>t DEF StagesOK, Waits
<1>4. CASE TunnelUp(e)
  <2>1. /\ UNCHANGED <<lock, resp, chan, hand, late, used, reg, neg>>
        /\ pc[e] = "tunnel" /\ tun' = [tun EXCEPT ![e] = TRUE]
        /\ pc' = [pc EXCEPT ![e] = "tunnelUp"]
    BY <1>4 DEF TunnelUp, Enter, nvars, bvars
  <2>4. OneExchange'
    BY <2>1, <1>t, ExchangeSame DEF Waits
  <2> QED
    BY <2>1, <2>4, <1>t DEF StagesOK, Waits
<1>5. CASE TunnelFails(e)
  <2>1. /\ UNCHANGED <<lock, resp, chan, hand, late, used, reg, neg, tun>>
        /\ pc[e] = "tunnel" /\ pc' = [pc EXCEPT ![e] = "idle"]
    BY <1>5 DEF TunnelFails, Fail, nvars, bvars
  <2>4. OneExchange'
    BY <2>1, <1>t, ExchangeSame DEF Waits
  <2> QED
    BY <2>1, <2>4, <1>t DEF StagesOK, Waits
<1>6. CASE WorkReadySent(e)
  <2>1. /\ UNCHANGED <<lock, resp, chan, hand, late, used, reg, neg, tun>>
        /\ pc[e] = "readySent" /\ pc' = [pc EXCEPT ![e] = "publish"]
    BY <1>6 DEF WorkReadySent, Enter, nvars, bvars
  <2>4. OneExchange'
    BY <2>1, <1>t, ExchangeSame DEF Waits
  <2> QED
    BY <2>1, <2>4, <1>t DEF StagesOK, Waits
<1>7. CASE TunnelPublish(e) \/ WorkPublish(e)
  <2>1. /\ UNCHANGED <<lock, resp, chan, hand, late, used, neg, tun, rsent, rrem>>
        /\ pc[e] \in {"tunnelUp", "publish"} /\ Publish(e)
    BY <1>7 DEF TunnelPublish, WorkPublish, nvars, bvars
  <2>2. PICK p \in WorkPcs \ (Waits \cup {"hello", "tunnel"}) : pc' = [pc EXCEPT ![e] = p]
    BY <1>7, AfterFacts DEF TunnelPublish, WorkPublish, Enter, WorkPcs, Waits
  <2>3. \A f \in End : reg[f] => reg'[f]
    BY <2>1, <1>t DEF Publish
  <2>4. OneExchange'
    BY <2>1, <2>2, <1>t, ExchangeSame DEF Waits
  <2> QED
    BY <2>1, <2>2, <2>3, <2>4, <1>t DEF StagesOK, Waits
<1> QED
  BY <1>1, <1>2, <1>3, <1>4, <1>5, <1>6, <1>7

\* A request goes out when its node has nothing under way.
LEMMA ExchRequest ==
  ASSUME ExchInv, NEW e \in End, HelloSend(e) \/ ReadySend(e)
  PROVE  StagesOK' /\ OneExchange'
<1> DEFINE n == e[1]  o == Other(e[1])
<1> PICK p, op, wait :
      /\ Request(e, p, op, wait)
      /\ \/ p = "hello" /\ op = "HELLO" /\ wait = "helloWait"
         \/ p = "ready" /\ op = "READY" /\ wait = "readyWait"
  BY DEF HelloSend, ReadySend
<1>0. TypeOK
  BY DEF ExchInv, Inv
<1>t. /\ pc \in [End -> WorkPcs] /\ chan \in [Node -> Seq(Message)]
      /\ lock \in [Node -> Rail \cup {NoRail}] /\ resp \in [Node -> Message \cup {NoMsg}]
  BY <1>0 DEF TypeOK
<1>1. n \in Node /\ o \in Node /\ o # n /\ Other(o) = n /\ e[2] \in Rail /\ e = <<n, e[2]>>
      /\ \A k \in Node : k = n \/ k = o
  BY PeerFacts, OtherFacts
<1> DEFINE m == Fill(op, e)
<1>2. m \in Message /\ m.op = op /\ m.rail = e[2]
  BY <1>0, <1>1 DEF Fill, Message, Ops, TypeOK
<1>3. /\ pc[e] = p /\ lock[n] = NoRail /\ lock' = [lock EXCEPT ![n] = e[2]]
      /\ resp' = [resp EXCEPT ![n] = NoMsg] /\ pc' = [pc EXCEPT ![e] = wait]
      /\ chan' = [chan EXCEPT ![n] = Append(chan[n], m)]
      /\ UNCHANGED <<used, reg, tun, neg, hand, late>>
  BY DEF Request, Send, bvars
<1> HIDE DEF m, n, o
<1>4. StagesOK'
  <2> SUFFICES ASSUME NEW f \in End
               PROVE  /\ pc'[f] \in Waits <=> lock'[f[1]] = f[2]
                      /\ pc'[f] \in {"hello", "helloWait"} => ~tun[f]
                      /\ pc'[f] = "tunnel" => neg[f]
    BY <1>3 DEF ExchInv, StagesOK
  <2>1. f[1] \in Node /\ f[2] \in Rail /\ f = <<f[1], f[2]>>
    BY PeerFacts
  <2>2. CASE f = e
    BY <1>1, <1>3, <1>t, <2>2 DEF ExchInv, StagesOK, Waits, n
  <2>3. CASE f # e /\ f[1] = n
    <3>1. pc'[f] = pc[f] /\ lock'[f[1]] = e[2] /\ f[2] # e[2] /\ lock[f[1]] = NoRail /\ f[2] # NoRail
      BY <1>1, <1>3, <1>t, <2>1, <2>3, LinkAssumption
    <3> QED
      BY <3>1 DEF ExchInv, StagesOK
  <2>4. CASE f # e /\ f[1] # n
    <3>1. pc'[f] = pc[f] /\ lock'[f[1]] = lock[f[1]]
      BY <1>1, <1>3, <1>t, <2>1, <2>4
    <3> QED
      BY <3>1 DEF ExchInv, StagesOK
  <2> QED
    BY <2>2, <2>3, <2>4
<1>5. ASSUME late = 0 PROVE Exchange(n)' /\ Exchange(o)'
  <2>1. Quiet(n)
    BY <1>1, <1>3, <1>5 DEF ExchInv, OneExchange, Exchange
  <2>2. chan'[n] = Append(chan[n], m) /\ chan'[o] = chan[o] /\ chan[n] \in Seq(Message)
    BY <1>1, <1>3, <1>t
  <2>3. op \in Req /\ op \notin Ack
    BY DEF Req, Ack
  <2>4. The(chan'[n], Req, op, e[2])
    BY <1>2, <2>1, <2>2, <2>3, AppendOps DEF Quiet
  <2>5. lock'[n] = e[2] /\ e[2] # NoRail /\ resp'[n] = NoMsg /\ pc'[<<n, e[2]>>] = wait
    BY <1>1, <1>3, <1>t, LinkAssumption
  <2>6. Asks(n)' = op
    BY <2>5 DEF Asks
  <2>7. Asked(n)'
    BY <1>1, <1>3, <2>1, <2>2, <2>4, <2>5, <2>6 DEF Asked, Quiet, o
  <2>8. Exchange(n)'
    BY <2>5, <2>7 DEF Exchange
  <2>9. Exchange(o)'
    <3>1. /\ None(chan[n], Ack) => None(chan'[n], Ack)
          /\ \A oq, r : The(chan[n], Ack, oq, r) => The(chan'[n], Ack, oq, r)
      BY <1>2, <2>2, <2>3, AppendOps
    <3>2. lock'[o] = lock[o] /\ resp'[o] = resp[o] /\ \A f \in End : f # e => pc'[f] = pc[f]
      BY <1>1, <1>3, <1>t
    <3>3. o # e[1] /\ UNCHANGED hand
      BY <1>1, <1>3 DEF n
    <3> QED
      BY <1>1, <1>5, <2>2, <3>1, <3>2, <3>3, ExchangeOther
  <2> QED
    BY <2>8, <2>9
<1> QED
  BY <1>1, <1>3, <1>4, <1>5 DEF OneExchange

\* The work that awaited an answer goes on and gives up the control lock; if
\* nothing is under way for its node then, its exchange is over.
LEMMA ExchUnlock ==
  ASSUME ExchInv, NEW e \in End, NEW p \in WorkPcs \ (Waits \cup {"hello"}),
         pc[e] \in Waits, pc' = [pc EXCEPT ![e] = p], Unlock(e[1]),
         UNCHANGED <<chan, hand, tun>>, \A f \in End : used'[f] => used[f],
         \A f \in End : reg[f] => reg'[f], \A f \in End : neg[f] => neg'[f],
         p = "tunnel" => neg'[e],
         late' = 0 => late = 0 /\ None(chan[e[1]], Req) /\ None(chan[Other(e[1])], Ack)
                               /\ hand[Other(e[1])].pc # "mark"
  PROVE  StagesOK' /\ OneExchange'
<1> DEFINE n == e[1]  o == Other(e[1])
<1>0. TypeOK
  BY DEF ExchInv, Inv
<1>t. /\ pc \in [End -> WorkPcs] /\ chan \in [Node -> Seq(Message)]
      /\ lock \in [Node -> Rail \cup {NoRail}] /\ resp \in [Node -> Message \cup {NoMsg}]
  BY <1>0 DEF TypeOK
<1>1. n \in Node /\ o \in Node /\ o # n /\ Other(o) = n /\ e[2] \in Rail /\ e = <<n, e[2]>>
      /\ \A k \in Node : k = n \/ k = o
  BY PeerFacts, OtherFacts
<1>2. lock' = [lock EXCEPT ![n] = NoRail] /\ resp' = [resp EXCEPT ![n] = NoMsg]
  BY DEF Unlock
<1>3. lock[n] = e[2]
  BY DEF ExchInv, StagesOK
<1> HIDE DEF n, o
<1>4. StagesOK'
  <2> SUFFICES ASSUME NEW f \in End
               PROVE  /\ pc'[f] \in Waits <=> lock'[f[1]] = f[2]
                      /\ pc'[f] \in {"hello", "helloWait"} => ~tun[f]
                      /\ tun[f] \/ pc'[f] = "tunnel" => neg'[f]
    BY DEF ExchInv, StagesOK
  <2>1. f[1] \in Node /\ f[2] \in Rail /\ f = <<f[1], f[2]>> /\ f[2] # NoRail
    BY PeerFacts, LinkAssumption
  <2>2. CASE f = e
    BY <1>1, <1>2, <1>t, <2>1, <2>2 DEF ExchInv, StagesOK, Waits, n
  <2>3. CASE f # e /\ f[1] = n
    <3>1. pc'[f] = pc[f] /\ lock'[f[1]] = NoRail /\ lock[f[1]] # f[2]
      BY <1>1, <1>2, <1>3, <1>t, <2>1, <2>3
    <3> QED
      BY <2>1, <3>1 DEF ExchInv, StagesOK
  <2>4. CASE f # e /\ f[1] # n
    <3>1. pc'[f] = pc[f] /\ lock'[f[1]] = lock[f[1]]
      BY <1>1, <1>2, <1>t, <2>1, <2>4
    <3> QED
      BY <3>1 DEF ExchInv, StagesOK
  <2> QED
    BY <2>2, <2>3, <2>4
<1>5. ASSUME late' = 0 PROVE Exchange(n)' /\ Exchange(o)'
  <2>1. late = 0 /\ None(chan[n], Req) /\ None(chan[o], Ack) /\ hand[o].pc # "mark"
    BY <1>5 DEF n, o
  <2>2. Quiet(n)'
    BY <1>1, <1>2, <1>t, <2>1 DEF Quiet, o, n
  <2>3. lock'[o] = lock[o] /\ resp'[o] = resp[o] /\ \A f \in End : f # e => pc'[f] = pc[f]
    BY <1>1, <1>2, <1>t
  <2>4. o # e[1] /\ UNCHANGED <<hand, chan>>
    BY <1>1 DEF n
  <2>5. Exchange(o)'
    BY <1>1, <2>1, <2>3, <2>4, ExchangeOther
  <2> QED
    BY <2>2, <2>5 DEF Exchange
<1> QED
  BY <1>1, <1>4, <1>5 DEF OneExchange

\* A request that times out in time is not answered any more.
LEMMA TimesOutFacts ==
  ASSUME TypeOK, NEW n \in Node, TimesOut(n)
  PROVE  /\ Unlock(n)
         /\ late' = 0 => late = 0 /\ None(chan[n], Req) /\ None(chan[Other(n)], Ack)
                                  /\ hand[Other(n)].pc # "mark"
<1>1. Unlock(n)
  BY DEF TimesOut
<1> SUFFICES ASSUME late' = 0
             PROVE  late = 0 /\ None(chan[n], Req) /\ None(chan[Other(n)], Ack)
                             /\ hand[Other(n)].pc # "mark"
  BY <1>1
<1>2. late \in Nat
  BY BoundAssumption DEF TypeOK
<1>3. late = 0 /\ ~Answerable(n)
  BY <1>2 DEF TimesOut
<1>4. Other(n) \in Node /\ chan \in [Node -> Seq(Message)]
  BY OtherFacts DEF TypeOK
<1>5. \A k \in Node : \A i \in 1..Len(chan[k]) : chan[k][i].op \in Ops
  <2> SUFFICES ASSUME NEW k \in Node, NEW i \in 1..Len(chan[k]) PROVE chan[k][i].op \in Ops
    OBVIOUS
  <2>1. chan[k] \in Seq(Message)
    BY <1>4
  <2>2. chan[k][i] \in Message
    BY <2>1
  <2> QED
    BY <2>2 DEF Message
<1>6. None(chan[n], Req)
  BY <1>3 DEF Answerable, Has, IsRequest, None, Req
<1>7. None(chan[Other(n)], Ack)
  BY <1>3, <1>4, <1>5 DEF Answerable, Has, IsRequest, None, Ack, Ops
<1> QED
  BY <1>3, <1>6, <1>7 DEF Answerable

\* Timeouts and responses end an exchange.
LEMMA ExchWaitEnds ==
  ASSUME ExchInv, NEW e \in End,
         HelloTimeout(e) \/ ReadyTimeout(e) \/ HelloResponse(e) \/ ReadyResponse(e)
  PROVE  /\ StagesOK' /\ OneExchange'
         /\ late' = 0 => \A f \in End : used[f] => used'[f]
<1> DEFINE n == e[1]  o == Other(e[1])
<1>0. TypeOK
  BY DEF ExchInv, Inv
<1>t. /\ pc \in [End -> WorkPcs] /\ neg \in [End -> BOOLEAN] /\ rpath \in [End -> BOOLEAN]
      /\ used \in [End -> BOOLEAN] /\ reg \in [End -> BOOLEAN]
      /\ resp \in [Node -> Message \cup {NoMsg}]
  BY <1>0 DEF TypeOK
<1>1. n \in Node /\ o \in Node /\ e[2] \in Rail /\ e = <<n, e[2]>>
  BY PeerFacts, OtherFacts
<1>2. ASSUME NEW s \in Stage, Fail(e, s) PROVE pc' = [pc EXCEPT ![e] = "idle"]
  BY <1>2 DEF Fail
<1>3. ASSUME ReadyError(e)
      PROVE  \E p \in WorkPcs \ (Waits \cup {"hello", "tunnel"}) : pc' = [pc EXCEPT ![e] = p]
  BY <1>3 DEF ReadyError, Enter, Fail, WorkPcs, Waits
<1>4. CASE HelloTimeout(e)
  <2>1. /\ pc[e] \in Waits /\ UNCHANGED <<chan, hand, tun, used, reg, neg>> /\ TimesOut(n)
        /\ pc' = [pc EXCEPT ![e] = "idle"]
    BY <1>4, <1>2 DEF HelloTimeout, Waits, Stage
  <2>2. "idle" \in WorkPcs \ (Waits \cup {"hello"})
    BY DEF WorkPcs, Waits
  <2>3. StagesOK' /\ OneExchange'
    BY <1>0, <1>1, <2>1, <2>2, TimesOutFacts, ExchUnlock
  <2> QED
    BY <2>1, <2>3
<1>5. CASE ReadyTimeout(e)
  <2>1. /\ pc[e] \in Waits /\ UNCHANGED <<chan, hand, tun, used, reg, neg>> /\ TimesOut(n)
    BY <1>5 DEF ReadyTimeout, Waits
  <2>2. PICK p \in WorkPcs \ (Waits \cup {"hello", "tunnel"}) : pc' = [pc EXCEPT ![e] = p]
    BY <1>3, <1>5 DEF ReadyTimeout
  <2>3. p \in WorkPcs \ (Waits \cup {"hello"}) /\ p # "tunnel"
    BY <2>2
  <2>4. StagesOK' /\ OneExchange'
    BY <1>0, <1>1, <2>1, <2>2, <2>3, TimesOutFacts, ExchUnlock
  <2> QED
    BY <2>1, <2>4
<1>6. ASSUME late = 0, resp[n] # NoMsg, pc[e] \in Waits
      PROVE  /\ None(chan[n], Req) /\ None(chan[o], Ack) /\ hand[o].pc # "mark"
             /\ resp[n].rail = e[2]
  <2>1. Exchange(n) /\ lock[n] = e[2]
    BY <1>1, <1>6 DEF ExchInv, OneExchange, StagesOK
  <2> QED
    BY <1>6, <2>1 DEF Exchange, Quiet, Asked, Marking, Answered, Matched
<1>7. CASE HelloResponse(e)
  <2> DEFINE m == resp[n]  f == <<n, resp[n].rail>>
  <2>1. /\ pc[e] = "helloWait" /\ m # NoMsg /\ Unlock(n)
        /\ UNCHANGED <<chan, hand, tun, reg, late>>
    BY <1>7 DEF HelloResponse, bvars
  <2>2. m \in Message /\ f \in End /\ m.path \in BOOLEAN
    BY <1>1, <1>t, <2>1 DEF Message, End
  <2>3. late = 0 => f = e
    BY <1>1, <1>6, <2>1 DEF Waits
  <2>4. ~used[e]
    BY <2>1 DEF ExchInv, StagesOK, Inv, PublishedEndToEnd, DataReady
  <2>5. CASE m.op = "HELLO_ACK"
    <3>1. Apply(f, m) /\ Enter(e, AfterHello(e, neg'[e], rpath'[e]))
      BY <1>7, <2>5 DEF HelloResponse
    <3>2. /\ neg' = [neg EXCEPT ![f] = TRUE] /\ rpath' = [rpath EXCEPT ![f] = m.path]
          /\ used' = [used EXCEPT ![f] = FALSE]
      BY <3>1 DEF Apply
    <3>3. /\ neg'[e] \in BOOLEAN /\ rpath'[e] \in BOOLEAN
          /\ \A g \in End : neg[g] => neg'[g]
          /\ \A g \in End : used'[g] => used[g]
          /\ \A g \in End : g # f => used'[g] = used[g]
      BY <1>t, <2>2, <3>2
    <3>4. PICK p : p = AfterHello(e, neg'[e], rpath'[e])
      OBVIOUS
    <3>5. p \in WorkPcs \ (Waits \cup {"hello"}) /\ (p = "tunnel" => neg'[e])
      BY <3>3, <3>4, AfterFacts
    <3>6. pc' = [pc EXCEPT ![e] = p]
      BY <3>1, <3>4 DEF Enter
    <3>7. late' = 0 => late = 0 /\ None(chan[n], Req) /\ None(chan[o], Ack) /\ hand[o].pc # "mark"
      BY <1>6, <2>1 DEF Waits
    <3>8. pc[e] \in Waits
      BY <2>1 DEF Waits
    <3>9. StagesOK' /\ OneExchange'
      BY <2>1, <3>3, <3>5, <3>6, <3>7, <3>8, ExchUnlock
    <3> QED
      BY <2>1, <2>3, <2>4, <3>3, <3>9
  <2>6. CASE m.op # "HELLO_ACK"
    <3>1. Fail(e, "hello") /\ UNCHANGED <<neg, used>>
      BY <1>7, <2>6 DEF HelloResponse
    <3>2. pc' = [pc EXCEPT ![e] = "idle"] /\ "idle" \in WorkPcs \ (Waits \cup {"hello"})
      BY <3>1 DEF Fail, WorkPcs, Waits
    <3>3. late' = 0 => late = 0 /\ None(chan[n], Req) /\ None(chan[o], Ack) /\ hand[o].pc # "mark"
      BY <1>6, <2>1 DEF Waits
    <3>4. pc[e] \in Waits
      BY <2>1 DEF Waits
    <3>5. StagesOK' /\ OneExchange'
      BY <2>1, <3>1, <3>2, <3>3, <3>4, ExchUnlock
    <3> QED
      BY <3>1, <3>5
  <2> QED
    BY <2>5, <2>6
<1>8. CASE ReadyResponse(e)
  <2>1. /\ pc[e] \in Waits /\ resp[n] # NoMsg /\ Unlock(n)
        /\ UNCHANGED <<chan, hand, tun, used, neg, late>>
    BY <1>8 DEF ReadyResponse, bvars, Waits
  <2>2. PICK p \in WorkPcs \ (Waits \cup {"hello", "tunnel"}) : pc' = [pc EXCEPT ![e] = p]
    BY <1>3, <1>8 DEF ReadyResponse, Enter, WorkPcs, Waits
  <2>3. \A f \in End : reg[f] => reg'[f]
    BY <1>8, <1>t DEF ReadyResponse, Publish
  <2>4. late' = 0 => late = 0 /\ None(chan[n], Req) /\ None(chan[o], Ack) /\ hand[o].pc # "mark"
    BY <1>6, <2>1
  <2>5. p \in WorkPcs \ (Waits \cup {"hello"}) /\ p # "tunnel"
    BY <2>2
  <2>6. StagesOK' /\ OneExchange'
    BY <2>1, <2>2, <2>3, <2>4, <2>5, ExchUnlock
  <2> QED
    BY <2>1, <2>6
<1> QED
  BY <1>4, <1>5, <1>7, <1>8

\* The handler moves no work: the stages stay what they are.
LEMMA StagesSame ==
  ASSUME StagesOK, UNCHANGED <<pc, lock, tun>>, \A f \in End : used'[f] => used[f],
         \A f \in End : reg[f] => reg'[f], \A f \in End : neg[f] => neg'[f]
  PROVE  StagesOK'
  BY DEF StagesOK

\* The first message of node k is gone: a request ends the exchange of k, an
\* answer that of the other node, and the other exchange stays what it was.
LEMMA ExchTail ==
  ASSUME TypeOK, NEW k \in Node, chan[k] # <<>>, Exchange(k), Exchange(Other(k))
  PROVE  /\ Head(chan[k]) \in Message /\ Tail(chan[k]) \in Seq(Message)
         /\ Head(chan[k]).op \in Req =>
              /\ lock[k] # NoRail /\ Asked(k)
              /\ Head(chan[k]).op = Asks(k) /\ Head(chan[k]).rail = lock[k]
              /\ None(Tail(chan[k]), Req)
              /\ None(chan[k], Ack) => None(Tail(chan[k]), Ack)
              /\ \A op, r : The(chan[k], Ack, op, r) => The(Tail(chan[k]), Ack, op, r)
         /\ Head(chan[k]).op \in Ack =>
              /\ lock[Other(k)] # NoRail /\ Answered(Other(k))
              /\ Head(chan[k]).op = Expects(Other(k)) /\ Head(chan[k]).rail = lock[Other(k)]
              /\ None(Tail(chan[k]), Ack)
              /\ None(chan[k], Req) => None(Tail(chan[k]), Req)
              /\ \A op, r : The(chan[k], Req, op, r) => The(Tail(chan[k]), Req, op, r)
<1>1. chan[k] \in Seq(Message) /\ Other(Other(k)) = k
  BY OtherFacts DEF TypeOK
<1>2. Head(chan[k]) \in Message /\ Tail(chan[k]) \in Seq(Message)
  BY <1>1
<1>3. Head(chan[k]).op \in Req => Head(chan[k]).op \notin Ack
  BY DEF Req, Ack
<1>4. ASSUME Head(chan[k]).op \in Req
      PROVE  /\ lock[k] # NoRail /\ Asked(k)
             /\ Head(chan[k]).op = Asks(k) /\ Head(chan[k]).rail = lock[k]
             /\ None(Tail(chan[k]), Req)
  <2>1. ~None(chan[k], Req)
    BY <1>1, <1>4, TailOps
  <2>2. lock[k] # NoRail /\ Asked(k)
    BY <2>1 DEF Exchange, Quiet, Marking, Answered, Matched
  <2>3. The(chan[k], Req, Asks(k), lock[k])
    BY <2>2 DEF Asked
  <2> QED
    BY <1>1, <1>4, <2>2, <2>3, TailOps
<1>5. ASSUME Head(chan[k]).op \in Ack
      PROVE  /\ lock[Other(k)] # NoRail /\ Answered(Other(k))
             /\ Head(chan[k]).op = Expects(Other(k)) /\ Head(chan[k]).rail = lock[Other(k)]
             /\ None(Tail(chan[k]), Ack)
  <2>1. ~None(chan[k], Ack)
    BY <1>1, <1>5, TailOps
  <2>2. lock[Other(k)] # NoRail /\ Answered(Other(k))
    BY <1>1, <2>1 DEF Exchange, Quiet, Marking, Asked, Matched
  <2>3. The(chan[k], Ack, Expects(Other(k)), lock[Other(k)])
    BY <1>1, <2>2 DEF Answered
  <2> QED
    BY <1>1, <1>5, <2>2, <2>3, TailOps
<1>6. Head(chan[k]).op \in Req =>
        /\ None(chan[k], Ack) => None(Tail(chan[k]), Ack)
        /\ \A op, r : The(chan[k], Ack, op, r) => The(Tail(chan[k]), Ack, op, r)
  BY <1>1, <1>3, TailOps
<1>7. Head(chan[k]).op \in Ack =>
        /\ None(chan[k], Req) => None(Tail(chan[k]), Req)
        /\ \A op, r : The(chan[k], Req, op, r) => The(Tail(chan[k]), Req, op, r)
  BY <1>1, <1>3, TailOps
<1> QED
  BY <1>2, <1>4, <1>5, <1>6, <1>7

\* A message is lost, or finds no rail.
LEMMA ExchDrop ==
  ASSUME ExchInv, NEW k \in Node, chan[k] # <<>>, chan' = [chan EXCEPT ![k] = Tail(@)],
         UNCHANGED <<evars, lock, resp, hand, late>>
  PROVE  StagesOK' /\ OneExchange'
<1> DEFINE o == Other(k)
<1>0. TypeOK /\ StagesOK
  BY DEF ExchInv, Inv
<1>1. o \in Node /\ o # k /\ Other(o) = k /\ \A j \in Node : j = k \/ j = o
  BY OtherFacts
<1>2. StagesOK'
  BY <1>0, StagesSame DEF evars
<1> HIDE DEF o
<1>3. ASSUME late = 0 PROVE Exchange(k)' /\ Exchange(o)'
  <2>1. Exchange(k) /\ Exchange(o)
    BY <1>1, <1>3 DEF ExchInv, OneExchange
  <2>2. chan'[k] = Tail(chan[k]) /\ chan'[o] = chan[o] /\ UNCHANGED pc
    BY <1>0, <1>1 DEF TypeOK, evars
  <2>3. Head(chan[k]).op \in Req \cup Ack
    BY <1>0, <1>1, <2>1, ExchTail DEF Message, Ops, Req, Ack, o
  <2>4. CASE Head(chan[k]).op \in Req
    <3>1. /\ Asked(k) /\ None(Tail(chan[k]), Req)
          /\ None(chan[k], Ack) => None(Tail(chan[k]), Ack)
          /\ \A op, r : The(chan[k], Ack, op, r) => The(Tail(chan[k]), Ack, op, r)
      BY <1>0, <2>1, <2>4, ExchTail DEF o
    <3>2. Quiet(k)'
      BY <1>1, <2>2, <3>1 DEF Quiet, Asked, o
    <3>3. Exchange(o)'
      BY <1>1, <2>1, <2>2, <3>1, ExchangeFrame
    <3> QED
      BY <3>2, <3>3 DEF Exchange
  <2>5. CASE Head(chan[k]).op \in Ack
    <3>1. /\ Answered(o) /\ None(Tail(chan[k]), Ack)
          /\ None(chan[k], Req) => None(Tail(chan[k]), Req)
          /\ \A op, r : The(chan[k], Req, op, r) => The(Tail(chan[k]), Req, op, r)
      BY <1>0, <2>1, <2>5, ExchTail DEF o
    <3>2. Quiet(o)'
      BY <1>1, <2>2, <3>1 DEF Quiet, Answered
    <3>3. chan'[Other(k)] = chan[Other(k)]
      BY <2>2 DEF o
    <3>4. Exchange(k)'
      BY <1>1, <2>1, <2>2, <3>1, <3>3, ExchangeFrame
    <3> QED
      BY <3>2, <3>4 DEF Exchange
  <2> QED
    BY <2>3, <2>4, <2>5
<1> QED
  BY <1>1, <1>2, <1>3 DEF OneExchange

\* An end that has sent data is not about to be told of its peer's path.
LEMMA UsedIsPast ==
  ASSUME ExchInv, NEW e \in End, used[e]
  PROVE  /\ pc[e] # "helloWait" /\ pc[Peer(e)] # "helloWait"
<1>1. tun[e] /\ tun[Peer(e)] /\ Peer(e) \in End
  BY PeerFacts DEF ExchInv, Inv, StagesOK, PublishedEndToEnd, DataReady
<1> QED
  BY <1>1 DEF ExchInv, StagesOK

\* The handler answers a HELLO at once.
LEMMA ExchRxHello ==
  ASSUME ExchInv, NEW n \in Node, RxHello(n)
  PROVE  /\ StagesOK' /\ OneExchange'
         /\ late' = 0 => \A f \in End : used[f] => used'[f]
<1> DEFINE o == Other(n)  c == chan[o]  m == Head(chan[o])  e == <<n, m.rail>>
<1>0. TypeOK /\ StagesOK
  BY DEF ExchInv, Inv
<1>1. o \in Node /\ o # n /\ Other(o) = n /\ \A j \in Node : j = n \/ j = o
  BY OtherFacts
<1>2. /\ c # <<>> /\ m.op = "HELLO"
      /\ neg' = [neg EXCEPT ![e] = TRUE] /\ used' = [used EXCEPT ![e] = FALSE]
      /\ UNCHANGED <<pc, lock, tun, resp, hand, reg, late>>
  BY DEF RxHello, Receives, Incoming, Apply, At, bvars
<1>3. c \in Seq(Message) /\ m \in Message /\ e \in End
  <2>1. c \in Seq(Message)
    BY <1>0, <1>1 DEF TypeOK
  <2>2. m \in Message
    BY <1>2, <2>1
  <2> QED
    BY <2>1, <2>2 DEF Message, End
<1> DEFINE a == Fill("HELLO_ACK", e)
<1>4. a \in Message /\ a.op = "HELLO_ACK" /\ a.rail = m.rail
  BY <1>0, <1>3 DEF Fill, Message, Ops, TypeOK, End
<1>5. chan' = [[chan EXCEPT ![o] = Tail(@)] EXCEPT ![n] = Append(@, a)]
  BY DEF RxHello, Consume, Incoming, At
<1>6. chan'[n] = Append(chan[n], a) /\ chan'[o] = Tail(c) /\ chan[n] \in Seq(Message)
  BY <1>0, <1>1, <1>5 DEF TypeOK
<1>7. /\ \A f \in End : used'[f] => used[f]
      /\ \A f \in End : neg[f] => neg'[f]
      /\ \A f \in End : f # e => used'[f] = used[f]
  BY <1>0, <1>2, <1>3 DEF TypeOK
<1>8. StagesOK'
  BY <1>0, <1>2, <1>7, StagesSame
<1>9. ASSUME late = 0 PROVE Exchange(n)' /\ Exchange(o)' /\ ~used[e]
  <2>1. Exchange(n) /\ Exchange(o)
    BY <1>1, <1>9 DEF ExchInv, OneExchange
  <2>2. "HELLO" \in Req /\ "HELLO_ACK" \in Ack /\ "HELLO_ACK" \notin Req
    BY DEF Req, Ack
  <2>3. /\ lock[o] # NoRail /\ Asked(o) /\ Asks(o) = "HELLO" /\ m.rail = lock[o]
        /\ None(Tail(c), Req)
        /\ None(c, Ack) => None(Tail(c), Ack)
        /\ \A op, r : The(c, Ack, op, r) => The(Tail(c), Ack, op, r)
    BY <1>0, <1>1, <1>2, <2>1, <2>2, ExchTail
  <2> HIDE DEF o, m, a, c, e
  <2>4. The(chan'[n], Ack, "HELLO_ACK", m.rail)
    BY <1>1, <1>4, <1>6, <2>2, <2>3, AppendOps DEF Asked
  <2>5. pc[<<o, lock[o]>>] = "helloWait"
    BY <2>3 DEF Asks
  <2>6. Expects(o)' = "HELLO_ACK"
    BY <1>2, <2>5 DEF Expects
  <2>7. Answered(o)'
    BY <1>1, <1>2, <1>6, <2>3, <2>4, <2>6 DEF Answered, Asked
  <2>8. Exchange(o)'
    BY <1>2, <2>3, <2>7 DEF Exchange
  <2>9. /\ None(chan[n], Req) => None(chan'[n], Req)
        /\ \A op, r : The(chan[n], Req, op, r) => The(chan'[n], Req, op, r)
    BY <1>4, <1>6, <2>2, AppendOps
  <2>10. /\ None(chan[Other(n)], Ack) => None(chan'[Other(n)], Ack)
         /\ \A op, r : The(chan[Other(n)], Ack, op, r) => The(chan'[Other(n)], Ack, op, r)
    BY <1>6, <2>3 DEF o, c
  <2>11. Exchange(n)'
    BY <1>2, <2>1, <2>9, <2>10, ExchangeFrame
  <2>12. Peer(e) = <<o, lock[o]>>
    BY <2>3 DEF Peer, e, o
  <2>13. ~used[e]
    BY <1>3, <2>5, <2>12, UsedIsPast
  <2> QED
    BY <2>8, <2>11, <2>13
<1>10. late' = 0 => \A f \in End : used[f] => used'[f]
  BY <1>2, <1>7, <1>9
<1> QED
  BY <1>1, <1>2, <1>8, <1>9, <1>10 DEF OneExchange

\* An answer reaches its node while the request is awaited.
LEMMA ExchRxAck ==
  ASSUME ExchInv, NEW n \in Node, RxHelloAck(n) \/ RxReadyAck(n)
  PROVE  /\ StagesOK' /\ OneExchange'
         /\ late' = 0 => \A f \in End : used[f] => used'[f]
<1> DEFINE o == Other(n)  c == chan[o]  m == Head(chan[o])  e == <<n, m.rail>>
<1>0. TypeOK /\ StagesOK
  BY DEF ExchInv, Inv
<1>1. o \in Node /\ o # n /\ Other(o) = n /\ \A j \in Node : j = n \/ j = o
  BY OtherFacts
<1>2. /\ c # <<>> /\ m.op \in {"HELLO_ACK", "READY_ACK"}
      /\ UNCHANGED <<pc, lock, tun, hand, reg, late>> /\ Match(n)
      /\ chan' = [chan EXCEPT ![o] = Tail(@)]
  BY DEF RxHelloAck, RxReadyAck, Receives, bvars, evars, Consume
<1>3. c \in Seq(Message) /\ m \in Message /\ e \in End
  <2>1. c \in Seq(Message)
    BY <1>0, <1>1 DEF TypeOK
  <2>2. m \in Message
    BY <1>2, <2>1
  <2> QED
    BY <2>1, <2>2 DEF Message, End
<1>4. \/ UNCHANGED <<neg, used>>
      \/ /\ m.op = "HELLO_ACK"
         /\ neg' = [neg EXCEPT ![e] = TRUE] /\ used' = [used EXCEPT ![e] = FALSE]
  BY DEF RxHelloAck, RxReadyAck, Receives, evars, Apply, At, Incoming
<1>5. /\ \A f \in End : used'[f] => used[f]
      /\ \A f \in End : neg[f] => neg'[f]
      /\ \A f \in End : f # e \/ m.op # "HELLO_ACK" => used'[f] = used[f]
  BY <1>0, <1>3, <1>4 DEF TypeOK
<1>6. chan'[n] = chan[n] /\ chan'[o] = Tail(c)
  BY <1>0, <1>1, <1>2 DEF TypeOK
<1>7. StagesOK'
  BY <1>0, <1>2, <1>5, StagesSame
<1>8. ASSUME late = 0 PROVE Exchange(n)' /\ Exchange(o)' /\ (used[e] => m.op # "HELLO_ACK")
  <2>1. Exchange(n) /\ Exchange(o)
    BY <1>1, <1>8 DEF ExchInv, OneExchange
  <2>2. m.op \in Ack
    BY <1>2 DEF Ack
  <2>3. /\ lock[n] # NoRail /\ Answered(n) /\ m.op = Expects(n) /\ m.rail = lock[n]
        /\ None(Tail(c), Ack)
        /\ None(c, Req) => None(Tail(c), Req)
        /\ \A op, r : The(c, Req, op, r) => The(Tail(c), Req, op, r)
    BY <1>0, <1>1, <1>2, <2>1, <2>2, ExchTail
  <2>4. pc[e] \in Waits /\ e[1] = n /\ e[2] = m.rail /\ m.rail \in Rail
    BY <1>0, <1>3, <2>3 DEF StagesOK, End
  <2>5. Matches(n)
    BY <2>3, <2>4 DEF Matches, Answered, Waits
  <2>6. resp' = [resp EXCEPT ![n] = m]
    BY <1>2, <2>5 DEF Match, Incoming
  <2>7. resp'[n] = m /\ resp'[o] = resp[o] /\ m # NoMsg
    BY <1>0, <1>1, <1>3, <2>6, NoMsgAssumption DEF TypeOK
  <2> HIDE DEF o, m, c, e
  <2>8. Expects(n)' = Expects(n)
    BY <1>2 DEF Expects
  <2>9. Matched(n)'
    BY <1>1, <1>2, <1>6, <2>3, <2>7, <2>8 DEF Matched, Answered, o
  <2>10. Exchange(n)'
    BY <1>2, <2>3, <2>9 DEF Exchange
  <2>11. /\ None(chan[o], Req) => None(chan'[o], Req)
         /\ \A op, r : The(chan[o], Req, op, r) => The(chan'[o], Req, op, r)
         /\ chan'[Other(o)] = chan[Other(o)]
    BY <1>1, <1>6, <2>3 DEF c
  <2>12. Exchange(o)'
    BY <1>1, <1>2, <2>1, <2>7, <2>11, ExchangeFrame
  <2>13. m.op = "HELLO_ACK" => pc[e] = "helloWait"
    BY <2>3 DEF Expects, e
  <2>14. used[e] => m.op # "HELLO_ACK"
    BY <1>3, <2>13, UsedIsPast
  <2> QED
    BY <2>10, <2>12, <2>14
<1>9. late' = 0 => \A f \in End : used[f] => used'[f]
  BY <1>2, <1>5, <1>8
<1> QED
  BY <1>1, <1>2, <1>7, <1>8, <1>9 DEF OneExchange

\* A READY is taken by the handler, which marks it and may answer.
LEMMA ExchRxReady ==
  ASSUME ExchInv, NEW n \in Node, RxReady(n)
  PROVE  StagesOK' /\ OneExchange'
<1> DEFINE o == Other(n)  c == chan[o]  m == Head(chan[o])
<1>0. TypeOK /\ StagesOK
  BY DEF ExchInv, Inv
<1>1. o \in Node /\ o # n /\ Other(o) = n /\ \A j \in Node : j = n \/ j = o
  BY OtherFacts
<1>2. /\ c # <<>> /\ m.op = "READY"
      /\ UNCHANGED <<pc, lock, tun, resp, reg, used, neg, late>>
      /\ chan' = [chan EXCEPT ![o] = Tail(@)]
  BY DEF RxReady, Receives, bvars, evars, Consume
<1>3. /\ hand'[n].pc = "mark" /\ hand'[n].rail = m.rail /\ hand'[o] = hand[o]
  BY <1>0, <1>1 DEF RxReady, Incoming, TypeOK
<1>4. chan'[n] = chan[n] /\ chan'[o] = Tail(c)
  BY <1>0, <1>1, <1>2 DEF TypeOK
<1>5. StagesOK'
  BY <1>0, <1>2, StagesSame
<1>6. ASSUME late = 0 PROVE Exchange(n)' /\ Exchange(o)'
  <2>1. Exchange(n) /\ Exchange(o)
    BY <1>1, <1>6 DEF ExchInv, OneExchange
  <2>2. m.op \in Req
    BY <1>2 DEF Req
  <2>3. /\ lock[o] # NoRail /\ Asked(o) /\ Asks(o) = "READY" /\ m.rail = lock[o]
        /\ None(Tail(c), Req)
        /\ None(c, Ack) => None(Tail(c), Ack)
        /\ \A op, r : The(c, Ack, op, r) => The(Tail(c), Ack, op, r)
    BY <1>0, <1>1, <1>2, <2>1, <2>2, ExchTail
  <2> HIDE DEF o, m, c
  <2>4. Asks(o)' = Asks(o)
    BY <1>2 DEF Asks
  <2>5. Marking(o)'
    BY <1>1, <1>2, <1>3, <1>4, <2>3, <2>4 DEF Marking, Asked
  <2>6. /\ None(chan[Other(n)], Ack) => None(chan'[Other(n)], Ack)
        /\ \A op, r : The(chan[Other(n)], Ack, op, r) => The(chan'[Other(n)], Ack, op, r)
        /\ hand'[Other(n)] = hand[Other(n)]
    BY <1>3, <1>4, <2>3 DEF o, c
  <2>7. Exchange(n)'
    BY <1>2, <1>4, <2>1, <2>6, ExchangeFrame
  <2> QED
    BY <1>2, <2>3, <2>5, <2>7 DEF Exchange
<1> QED
  BY <1>1, <1>2, <1>5, <1>6 DEF OneExchange

\* The handler records the READY and acknowledges it, or not.
LEMMA ExchRxReadyMark ==
  ASSUME ExchInv, NEW n \in Node, RxReadyMark(n)
  PROVE  StagesOK' /\ OneExchange'
<1> DEFINE o == Other(n)  e == <<n, hand[n].rail>>  a == Fill("READY_ACK", e)
<1>0. TypeOK /\ StagesOK
  BY DEF ExchInv, Inv
<1>1. o \in Node /\ o # n /\ Other(o) = n /\ \A j \in Node : j = n \/ j = o
  BY OtherFacts
<1>2. /\ hand[n].pc = "mark" /\ UNCHANGED <<pc, lock, tun, resp, used, neg, late>>
      /\ Publish(e)
      /\ \/ hand' = [hand EXCEPT ![n] = HandIdle] /\ UNCHANGED chan
         \/ /\ hand' = [hand EXCEPT ![n].pc = "acked"]
            /\ chan' = [chan EXCEPT ![n] = Append(@, a)]
  BY DEF RxReadyMark, Send
<1>3. hand[n].rail \in Rail /\ e \in End
  BY <1>2 DEF ExchInv, Inv, HandlerKnows, End
<1>4. a \in Message /\ a.op = "READY_ACK" /\ a.rail = hand[n].rail
  BY <1>0, <1>3 DEF Fill, Message, Ops, TypeOK, End
<1>5. \A f \in End : reg[f] => reg'[f]
  BY <1>0, <1>2 DEF Publish, TypeOK
<1>6. StagesOK'
  BY <1>0, <1>2, <1>5, StagesSame
<1>7. /\ hand'[o] = hand[o] /\ hand'[n].pc # "mark"
      /\ \/ chan' = chan
         \/ /\ chan'[n] = Append(chan[n], a) /\ chan'[o] = chan[o]
  BY <1>0, <1>1, <1>2 DEF TypeOK, HandIdle
<1>8. ASSUME late = 0 PROVE Exchange(n)' /\ Exchange(o)'
  <2>1. Exchange(n) /\ Exchange(o)
    BY <1>1, <1>8 DEF ExchInv, OneExchange
  <2>2. lock[o] # NoRail /\ Marking(o)
    BY <1>1, <1>2, <2>1 DEF Exchange, Quiet, Asked, Answered, Matched
  <2>3. "READY_ACK" \in Ack /\ "READY_ACK" \notin Req /\ chan[n] \in Seq(Message)
    BY <1>0 DEF Ack, Req, TypeOK
  <2>4. Expects(o)' = "READY_ACK"
    BY <1>2, <2>2 DEF Marking, Asks, Expects
  <2> HIDE DEF o, e, a
  <2>5. CASE chan' = chan
    <3>1. Quiet(o)'
      BY <1>1, <1>2, <1>7, <2>2, <2>5 DEF Quiet, Marking
    <3>2. hand'[Other(n)] = hand[Other(n)]
      BY <1>7 DEF o
    <3>3. Exchange(n)'
      BY <1>2, <2>1, <2>5, <3>2, ExchangeFrame
    <3> QED
      BY <3>1, <3>3 DEF Exchange
  <2>6. CASE chan'[n] = Append(chan[n], a) /\ chan'[o] = chan[o]
    <3>1. The(chan'[n], Ack, "READY_ACK", lock[o])
      BY <1>1, <1>4, <2>2, <2>3, <2>6, AppendOps DEF Marking
    <3>2. Answered(o)'
      BY <1>1, <1>2, <1>7, <2>2, <2>4, <2>6, <3>1 DEF Answered, Marking
    <3>3. hand'[Other(n)] = hand[Other(n)] /\ chan'[Other(n)] = chan[Other(n)]
      BY <1>7, <2>6 DEF o
    <3>4. /\ None(chan[n], Req) => None(chan'[n], Req)
          /\ \A op, r : The(chan[n], Req, op, r) => The(chan'[n], Req, op, r)
      BY <1>4, <2>3, <2>6, AppendOps
    <3>5. Exchange(n)'
      BY <1>2, <2>1, <3>3, <3>4, ExchangeFrame
    <3> QED
      BY <1>2, <2>2, <3>2, <3>5 DEF Exchange
  <2> QED
    BY <1>7, <2>5, <2>6
<1> QED
  BY <1>1, <1>2, <1>6, <1>8 DEF OneExchange

\* native_ready_sent follows the READY_ACK, which is no longer the handler's.
LEMMA ExchRxReadyAcked ==
  ASSUME ExchInv, NEW n \in Node, RxReadyAcked(n)
  PROVE  StagesOK' /\ OneExchange'
<1> DEFINE e == <<n, hand[n].rail>>
<1>0. TypeOK /\ StagesOK
  BY DEF ExchInv, Inv
<1>1. /\ hand[n].pc = "acked" /\ UNCHANGED <<pc, lock, tun, resp, chan, used, neg, late>>
      /\ Publish(e) /\ hand' = [hand EXCEPT ![n] = HandIdle]
  BY DEF RxReadyAcked, bvars
<1>2. \A f \in End : reg[f] => reg'[f]
  BY <1>0, <1>1 DEF Publish, TypeOK
<1>3. StagesOK'
  BY <1>0, <1>1, <1>2, StagesSame
<1>4. ASSUME late = 0, NEW k \in Node PROVE Exchange(k)'
  <2>1. Exchange(k) /\ Other(k) \in Node
    BY <1>4, OtherFacts DEF ExchInv, OneExchange
  <2>2. /\ hand'[Other(k)].pc = "mark" <=> hand[Other(k)].pc = "mark"
        /\ hand[Other(k)].pc = "mark" => hand'[Other(k)].rail = hand[Other(k)].rail
    BY <1>0, <1>1, <2>1 DEF TypeOK, HandIdle
  <2> QED
    BY <1>1, <2>1, <2>2, ExchangeFrame
<1> QED
  BY <1>1, <1>3, <1>4 DEF OneExchange

\* Before the first request nothing is under way.
LEMMA ExchInit == Init => ExchInv
<1> SUFFICES ASSUME Init PROVE ExchInv
  OBVIOUS
<1>1. Inv
  BY InitInv
<1>2. StagesOK
  BY PeerFacts, LinkAssumption DEF Init, StagesOK, Waits
<1>3. ASSUME NEW n \in Node PROVE Exchange(n)
  <2>1. Other(n) \in Node
    BY OtherFacts
  <2> QED
    BY <2>1 DEF Init, Exchange, Quiet, None, HandIdle
<1> QED
  BY <1>1, <1>2, <1>3 DEF ExchInv, OneExchange

\* Every step keeps the exchanges apart and refills no window in use.
LEMMA ExchNext ==
  ASSUME ExchInv, [Next]_vars
  PROVE  ExchInv' /\ (late' = 0 => \A f \in End : used[f] => used'[f])
<1> DEFINE NoRefill == late' = 0 => \A f \in End : used[f] => used'[f]
<1>0. Inv' /\ TypeOK
  BY NextInv DEF ExchInv, Inv
<1> SUFFICES StagesOK' /\ OneExchange' /\ NoRefill
  BY <1>0 DEF ExchInv
<1>1. ASSUME NEW e \in End, Probe(e) \/ SendData(e) \/ TunnelFails(e)
      PROVE  StagesOK' /\ OneExchange' /\ NoRefill
  <2>1. StagesOK' /\ OneExchange'
    BY <1>1, ExchLocal
  <2>2. \A f \in End : used[f] => used'[f]
    BY <1>0, <1>1 DEF Probe, AddRail, AllocRings, QueueRail, SendData, TunnelFails, TypeOK
  <2> QED
    BY <2>1, <2>2
<1>2. ASSUME NEW e \in End, Work(e) PROVE StagesOK' /\ OneExchange' /\ NoRefill
  <2>1. CASE WorkStart(e) \/ TunnelUp(e) \/ TunnelPublish(e) \/ WorkReadySent(e) \/ WorkPublish(e)
    BY <2>1, ExchLocal DEF WorkStart, TunnelUp, TunnelPublish, WorkReadySent, WorkPublish
  <2>2. CASE HelloSend(e) \/ ReadySend(e)
    BY <2>2, ExchRequest DEF HelloSend, ReadySend, Request
  <2>3. CASE HelloTimeout(e) \/ ReadyTimeout(e) \/ HelloResponse(e) \/ ReadyResponse(e)
    BY <2>3, ExchWaitEnds
  <2> QED
    BY <1>2, <2>1, <2>2, <2>3 DEF Work
<1>3. ASSUME NEW n \in Node, Handle(n) \/ Lose(n) PROVE StagesOK' /\ OneExchange' /\ NoRefill
  <2>1. CASE RxNoRail(n)
    <3>1. Other(n) \in Node /\ chan[Other(n)] # <<>> /\ UNCHANGED <<evars, lock, resp, hand, late>>
          /\ chan' = [chan EXCEPT ![Other(n)] = Tail(@)]
      BY <2>1, OtherFacts DEF RxNoRail, Receives, Consume, bvars
    <3> QED
      BY <3>1, ExchDrop DEF evars
  <2>2. CASE Lose(n)
    BY <2>2, ExchDrop DEF Lose, evars
  <2>3. CASE RxHello(n)
    BY <2>3, ExchRxHello
  <2>4. CASE RxHelloAck(n) \/ RxReadyAck(n)
    BY <2>4, ExchRxAck
  <2>5. CASE RxReady(n)
    BY <2>5, ExchRxReady DEF RxReady, evars
  <2>6. CASE RxReadyMark(n)
    BY <2>6, ExchRxReadyMark DEF RxReadyMark
  <2>7. CASE RxReadyAcked(n)
    BY <2>7, ExchRxReadyAcked DEF RxReadyAcked
  <2> QED
    BY <1>3, <2>1, <2>2, <2>3, <2>4, <2>5, <2>6, <2>7 DEF Handle
<1>4. CASE UNCHANGED vars
  <2>1. UNCHANGED <<lock, resp, chan, hand, late, pc, used, reg, tun, neg>>
    BY <1>4 DEF vars, evars, nvars, bvars
  <2> QED
    BY <2>1, ExchangeSame DEF StagesOK, ExchInv
<1> QED
  BY <1>1, <1>2, <1>3, <1>4 DEF Next

\* tbv_path_set_remote_rx_capacity() never refills the credit window of a rail
\* with frames charged against it, as long as no answer came after its timeout:
\* a node's HELLO and its answer are over before its end has a tunnel.
THEOREM NoRefillInUseThm == Spec => NoRefillInUse
<1>1. Init => ExchInv
  BY ExchInit
<1>2. ExchInv /\ [Next]_vars => ExchInv'
  BY ExchNext
<1>3. ExchInv /\ [Next]_vars => [\A e \in End : used[e] /\ late' = 0 => used'[e]]_vars
  BY ExchNext
<1> QED
  BY <1>1, <1>2, <1>3, PTL DEF Spec, NoRefillInUse
=============================================================================
