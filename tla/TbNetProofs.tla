---------------------------- MODULE TbNetProofs ----------------------------
(***************************************************************************)
(* Proofs about TbNet, for any retry limit, pool of transmit frames and    *)
(* budgets.  The ring, frame, state and removal theorems hold for any      *)
(* paths the peer announces; the HopID theorem for a peer that always      *)
(* announces the same one (SteadyPeer).                                    *)
(***************************************************************************)
EXTENDS TbNet, TLAPS

\* Each work goes through its own steps only; tx_poll_work is one step.
PcOK ==
  /\ pc["login"] \in {"idle", "reset", "recheck", "wait", "kick"}
  /\ pc["conn"] \in {"idle", "start", "prime", "publish", "recompute"}
  /\ pc["disc"] \in {"idle", "recompute"}
  /\ pc["rx"] \in {"idle", "frame", "arp", "lookup", "store", "send", "post"}
  /\ pc["poll"] = "idle"

\* The session's flags: the rings are started and stopped with the path;
\* connected_work never builds next to an enabled path; removal is announced
\* first and finds the path torn down.
FlagsAgree ==
  /\ s.rings = s.enabled
  /\ pc["conn"] \in {"start", "prime", "publish"} => ~s.enabled
  /\ s.listed = (own # "freed")
  /\ own # "none" => s.removing
  /\ own \in {"recompute", "unlink", "freed"} => ~s.enabled

Stopped(w) == ~pend[w] /\ pc[w] = "idle"
Cancelled == {"logout", "teardown", "recompute", "unlink", "freed"}

\* A work stays cancelled: whoever queues it was cancelled or unregistered
\* before it.  rx_work alone is queued again by the ring's callback, but it
\* posts no frame any more.
CancelledStay ==
  /\ own \in Cancelled \cup {"cancel2", "cancel3", "cancel4", "cancel5"} => Stopped("login")
  /\ own \in Cancelled \cup {"cancel3", "cancel4", "cancel5"} => Stopped("conn")
  /\ own \in Cancelled \cup {"cancel4", "cancel5"} => Stopped("disc")
  /\ own \in Cancelled \cup {"cancel5"} => pc["rx"] # "post"
  /\ own \in Cancelled => Stopped("poll")

\* A path that is enabled, being built or about to be built was announced.
PathKnown ==
  /\ s.rcvd \/ s.enabled => s.remote \in PeerPaths
  /\ pc["conn"] \in {"start", "prime", "publish"} =>
       rpath \in PeerPaths /\ s.remote \in PeerPaths

Inv == /\ TypeOK /\ PcOK /\ FlagsAgree /\ CancelledStay /\ PathKnown
       /\ RingsBalanced /\ TxInflightExact /\ StateConverges

-----------------------------------------------------------------------------
\* Where destroy_session() goes from one cancel to the next.
LEMMA CancelFacts ==
  RemoveCancel =>
    \/ own = "cancel1" /\ own' = "cancel2" /\ pc["login"] = "idle" /\ pend' = [pend EXCEPT !["login"] = FALSE]
    \/ own = "cancel2" /\ own' = "cancel3" /\ pc["conn"] = "idle" /\ pend' = [pend EXCEPT !["conn"] = FALSE]
    \/ own = "cancel3" /\ own' = "cancel4" /\ pc["disc"] = "idle" /\ pend' = [pend EXCEPT !["disc"] = FALSE]
    \/ own = "cancel4" /\ own' = "cancel5" /\ pc["rx"] = "idle" /\ pend' = [pend EXCEPT !["rx"] = FALSE]
    \/ own = "cancel5" /\ own' = "logout" /\ pc["poll"] = "idle" /\ pend' = [pend EXCEPT !["poll"] = FALSE]
<1> SUFFICES ASSUME RemoveCancel
             PROVE  \E i \in 1..5 :
                      /\ own = CancelSteps[i] /\ pc[CancelOrder[i]] = "idle"
                      /\ pend' = [pend EXCEPT ![CancelOrder[i]] = FALSE]
                      /\ \/ i = 1 /\ own = "cancel1" /\ own' = "cancel2" /\ CancelOrder[i] = "login"
                         \/ i = 2 /\ own = "cancel2" /\ own' = "cancel3" /\ CancelOrder[i] = "conn"
                         \/ i = 3 /\ own = "cancel3" /\ own' = "cancel4" /\ CancelOrder[i] = "disc"
                         \/ i = 4 /\ own = "cancel4" /\ own' = "cancel5" /\ CancelOrder[i] = "rx"
                         \/ i = 5 /\ own = "cancel5" /\ own' = "logout" /\ CancelOrder[i] = "poll"
  OBVIOUS
<1> PICK i \in 1..5 :
      /\ own = CancelSteps[i] /\ pc[CancelOrder[i]] = "idle"
      /\ pend' = [pend EXCEPT ![CancelOrder[i]] = FALSE]
      /\ own' = IF i = 5 THEN "logout" ELSE CancelSteps[i + 1]
  BY DEF RemoveCancel
<1>1. CASE i = 1
  BY <1>1 DEF CancelSteps, CancelOrder
<1>2. CASE i = 2
  BY <1>2 DEF CancelSteps, CancelOrder
<1>3. CASE i = 3
  BY <1>3 DEF CancelSteps, CancelOrder
<1>4. CASE i = 4
  BY <1>4 DEF CancelSteps, CancelOrder
<1>5. CASE i = 5
  BY <1>5 DEF CancelSteps, CancelOrder
<1> QED
  BY <1>1, <1>2, <1>3, <1>4, <1>5

\* A budget stays one when some of it is spent.
LEMMA SpendFacts ==
  ASSUME NEW what \in {"logins", "logouts", "rx", "timeouts", "fails", "net"},
         left \in Budget, Spend(what)
  PROVE  left' \in Budget
<1>1. CASE what = "logins"
  BY <1>1 DEF Spend, Budget
<1>2. CASE what = "logouts"
  BY <1>2 DEF Spend, Budget
<1>3. CASE what = "rx"
  BY <1>3 DEF Spend, Budget
<1>4. CASE what = "timeouts"
  BY <1>4 DEF Spend, Budget
<1>5. CASE what = "fails"
  BY <1>5 DEF Spend, Budget
<1>6. CASE what = "net"
  BY <1>6 DEF Spend, Budget
<1> QED
  BY <1>1, <1>2, <1>3, <1>4, <1>5, <1>6

\* The stages of destroy_session(), spelled out.
LEMMA OwnerFacts ==
  Owners = {"none", "handler", "cancel1", "cancel2", "cancel3", "cancel4", "cancel5",
            "logout", "teardown", "recompute", "unlink", "freed"}
  BY DEF Owners, CancelSteps

\* A capped counter of attempts stays within its range.
LEMMA CappedFacts ==
  ASSUME NEW n \in 0..(Retries + 1)
  PROVE  Capped(n) \in 0..(Retries + 1)
  BY TbNetAssumption DEF Capped

\* recompute_state() sets neighbor_seen and the identity, nothing else.
LEMMA RecomputeFacts ==
  ASSUME NEW t \in Sessions, NEW p \in BOOLEAN, ident \in Identities, Recompute(t, p)
  PROVE  /\ s' \in Sessions /\ ident' \in Identities
         /\ \E b \in BOOLEAN : s' = [t EXCEPT !.seen = b]
         /\ ident'.active = (t.listed /\ t.enabled)
<1>1. SeenAfter(t, p) \in BOOLEAN /\ t.seen \in BOOLEAN
  BY DEF SeenAfter, Sessions
<1>2. \E b \in BOOLEAN : s' = [t EXCEPT !.seen = b]
  BY <1>1 DEF Recompute
<1>3. s' \in Sessions
  BY <1>2 DEF Sessions
<1>4. ident' \in Identities /\ ident'.active = (t.listed /\ t.enabled)
  BY <1>1 DEF Recompute, Recomputed, Sessions, Identities
<1> QED
  BY <1>2, <1>3, <1>4

\* A step leaves the fields of the session alone that the invariant is about.
SameFlags ==
  /\ s'.enabled = s.enabled /\ s'.rings = s.rings /\ s'.removing = s.removing
  /\ s'.listed = s.listed /\ s'.rcvd = s.rcvd /\ s'.remote = s.remote

\* What teardown_path() leaves behind.
TeardownEffect ==
  /\ s' \in Sessions /\ hw' \in Hardware /\ tx' \in TxCounts
  /\ s'.rings = FALSE /\ s'.enabled = FALSE /\ s'.sent = FALSE /\ s'.rcvd = FALSE
  /\ s'.removing = s.removing /\ s'.listed = s.listed
  /\ ~s.enabled => s'.remote = s.remote /\ hw' = hw
  /\ s.enabled => /\ s'.remote = NoPath /\ ~hw'.ring
                  /\ hw'.hops = hw.hops \ {s.remote} /\ hw'.paths = hw.paths \ {s.remote}
  /\ tx'.inflight = tx'.ring + tx'.done + (IF pc["rx"] = "post" THEN 1 ELSE 0)

\* teardown_path() stops what runs, drops the flags and forgets the login.
LEMMA TeardownFacts ==
  ASSUME TypeOK, FlagsAgree, TxInflightExact, Teardown
  PROVE  TeardownEffect
<1> USE DEF TeardownEffect
<1>1. /\ s' \in Sessions
      /\ s'.rings = FALSE /\ s'.enabled = FALSE /\ s'.sent = FALSE /\ s'.rcvd = FALSE
      /\ s'.removing = s.removing /\ s'.listed = s.listed
      /\ s'.remote = IF s.enabled THEN NoPath ELSE s.remote
  <2>1. 0 \in 0..(Retries + 1) /\ (IF s.enabled THEN NoPath ELSE s.remote) \in PeerPaths \cup {NoPath}
    BY TbNetAssumption DEF TypeOK, Sessions
  <2>2. s' \in Sessions
    BY <2>1 DEF Teardown, TypeOK, Sessions
  <2> QED
    BY <2>2 DEF Teardown, TypeOK, Sessions
<1>2. CASE s.enabled
  <2>1. s.rings
    BY <1>2 DEF FlagsAgree
  <2>2. /\ hw' \in Hardware /\ ~hw'.ring
        /\ hw'.hops = hw.hops \ {s.remote} /\ hw'.paths = hw.paths \ {s.remote}
    BY <1>2, <2>1 DEF Teardown, TypeOK, Hardware, DisablePaths
  <2>3. /\ tx' \in TxCounts
        /\ tx'.inflight = tx'.ring + tx'.done + (IF pc["rx"] = "post" THEN 1 ELSE 0)
    BY <1>2, <2>1, TbNetAssumption DEF Teardown, TypeOK, TxCounts, TxReturned, TxInflightExact
  <2> QED
    BY <1>1, <1>2, <2>2, <2>3
<1>3. CASE ~s.enabled
  <2>1. ~s.rings
    BY <1>3 DEF FlagsAgree
  <2>2. hw' = hw /\ tx' = tx
    BY <1>3, <2>1 DEF Teardown, TypeOK, Hardware
  <2> QED
    BY <1>1, <1>3, <2>2 DEF TypeOK, TxInflightExact
<1> QED
  BY <1>2, <1>3

\* The identity was told of the session's path, which is as it was.
StateTold ==
  /\ s' \in Sessions /\ ident' \in Identities /\ SameFlags
  /\ ident'.active = (s.listed /\ s.enabled)

\* So after any recompute_state(), for a neighbour just seen or not.
LEMMA StateFacts ==
  ASSUME TypeOK,
         Recompute(s, ident.proxy) \/ Recompute([s EXCEPT !.seen = TRUE], ident.proxy)
  PROVE  StateTold
<1>1. PICK t \in {s, [s EXCEPT !.seen = TRUE]} : Recompute(t, ident.proxy)
  OBVIOUS
<1>2. /\ t \in Sessions /\ t.enabled = s.enabled /\ t.rings = s.rings /\ t.removing = s.removing
      /\ t.listed = s.listed /\ t.rcvd = s.rcvd /\ t.remote = s.remote
  BY <1>1 DEF TypeOK, Sessions
<1>3. /\ s' \in Sessions /\ ident' \in Identities /\ ident'.active = (t.listed /\ t.enabled)
      /\ \E b \in BOOLEAN : s' = [t EXCEPT !.seen = b]
  BY <1>1, <1>2, RecomputeFacts DEF TypeOK, Identities
<1>4. SameFlags
  BY <1>2, <1>3 DEF Sessions, SameFlags
<1> QED
  BY <1>2, <1>3, <1>4 DEF StateTold

\* So after the refresh of the proxied address.
LEMMA RefreshFacts ==
  ASSUME TypeOK, NetRefresh
  PROVE  StateTold
<1>1. CASE addr.now /\ ident.gid /\ ident.proxy
  <2>1. /\ s' \in Sessions /\ ident' \in Identities /\ ident'.active = (s.listed /\ s.enabled)
        /\ \E b \in BOOLEAN : s' = [s EXCEPT !.seen = b]
    BY <1>1, RecomputeFacts DEF NetRefresh, TypeOK
  <2> QED
    BY <2>1 DEF TypeOK, Sessions, SameFlags, StateTold
<1>2. CASE ~(addr.now /\ ident.gid /\ ident.proxy)
  <2>1. s' \in Sessions /\ SameFlags
    BY <1>2 DEF NetRefresh, TypeOK, Sessions, SameFlags
  <2>2. SeenAfter(s', addr.now) \in BOOLEAN
    BY <2>1 DEF SeenAfter, Sessions, TypeOK
  <2>3. ident' \in Identities /\ ident'.active = (s.listed /\ s.enabled)
    BY <1>2, <2>1, <2>2 DEF NetRefresh, Recomputed, TypeOK, Sessions, Identities, SameFlags
  <2> QED
    BY <2>1, <2>3 DEF StateTold
<1> QED
  BY <1>1, <1>2

\* retry_connected() counts the attempt and queues at most connected_work.
RetryEffect ==
  /\ s' \in Sessions /\ SameFlags /\ pend' \in [Works -> BOOLEAN]
  /\ \A w \in Works : w # "conn" => pend'[w] = pend[w]
  /\ s.removing => pend' = pend

\* So after any retry_connected().
LEMMA RetryFacts ==
  ASSUME TypeOK, RetryConnected
  PROVE  RetryEffect
<1>1. PICK n \in 0..(Retries + 1) : s' = [s EXCEPT !.pretries = n]
  BY CappedFacts DEF RetryConnected, TypeOK, Sessions
<1>2. s' \in Sessions /\ SameFlags
  BY <1>1 DEF TypeOK, Sessions, SameFlags
<1>3. PICK ws \in SUBSET {"conn"} : Queue(ws) /\ (s.removing => ws = {})
  BY DEF RetryConnected
<1> QED
  BY <1>2, <1>3 DEF Queue, TypeOK, Works, RetryEffect

\* connected_work takes the HopID and starts the rings.
LEMMA HopFacts ==
  ASSUME TypeOK, rpath \in PeerPaths, hw' = [hw EXCEPT !.hops = @ \cup {rpath}, !.ring = TRUE]
  PROVE  hw' \in Hardware /\ hw'.ring
<1>1. hw.hops \cup {rpath} \in SUBSET PeerPaths
  BY DEF TypeOK, Hardware
<1> QED
  BY <1>1 DEF TypeOK, Hardware

\* A cancel keeps the types.
LEMMA CancelTypes ==
  ASSUME TypeOK, RemoveCancel
  PROVE  pend' \in [Works -> BOOLEAN] /\ own' \in Owners
  BY CancelFacts, OwnerFacts DEF TypeOK, Works

\* The session as probe() leaves it.
LEMMA InitInv == Init => Inv
<1> SUFFICES ASSUME Init PROVE Inv
  OBVIOUS
<1> USE DEF Init
<1>1. TypeOK
  BY TbNetAssumption, OwnerFacts DEF TypeOK, NoPath, Works, Pcs, Sessions, Hardware, TxCounts, Identities
<1>2. PcOK /\ FlagsAgree /\ CancelledStay /\ PathKnown
  BY DEF PcOK, FlagsAgree, CancelledStay, PathKnown, Works, Cancelled
<1>3. RingsBalanced
  BY DEF RingsBalanced, Works, Building
<1>4. TxInflightExact
  BY DEF TxInflightExact, Works
<1>5. StateConverges
  BY DEF StateConverges
<1> QED
  BY <1>1, <1>2, <1>3, <1>4, <1>5 DEF Inv

\* What the ring, the peer and the host's network do.
Environment ==
  \/ TxPoll \/ TxSent \/ PeerLogin \/ PeerLogout \/ RxReady \/ NetChange \/ NetRefresh

\* login_work keeps it.
LEMMA LoginInv == Inv /\ LoginWork => Inv'
<1> SUFFICES ASSUME Inv, LoginWork
             PROVE  Inv'
  OBVIOUS
<1> USE OwnerFacts DEF Inv, TypeOK, PcOK, CancelledStay, Stopped, Cancelled, Works, SameFlags,
   FlagsAgree, PathKnown, RingsBalanced, Building, TxInflightExact, StateConverges, Pcs, Take, Go,
   Queue, Alive
<1>1. CASE LoginStart
  BY <1>1 DEF LoginStart
<1>2. CASE LoginReset
  BY <1>2 DEF LoginReset
<1>3. CASE LoginRequest
  BY <1>3 DEF LoginRequest
<1>4. CASE LoginTimeout
  <2>1. left' \in Budget
    BY <1>4, SpendFacts DEF LoginTimeout
  <2>2. PICK n \in 0..(Retries + 1) : s' = [s EXCEPT !.lretries = n]
    BY <1>4, CappedFacts DEF LoginTimeout, Sessions
  <2>3. s' \in Sessions /\ SameFlags
    BY <2>2 DEF Sessions
  <2> QED
    BY <1>4, <2>1, <2>2, <2>3 DEF LoginTimeout
<1>5. CASE LoginResponse
  <2>1. s.lretries \in 0..(Retries + 1) /\ 0 \in 0..(Retries + 1)
    BY <1>5, TbNetAssumption DEF Sessions
  <2>2. PICK n \in 0..(Retries + 1) : s' = [s EXCEPT !.sent = TRUE, !.lretries = n]
    BY <1>5, <2>1, CappedFacts DEF LoginResponse
  <2>3. s' \in Sessions /\ SameFlags
    BY <2>2 DEF Sessions
  <2> QED
    BY <1>5, <2>1, <2>2, <2>3 DEF LoginResponse
<1>6. CASE LoginKick
  BY <1>6 DEF LoginKick
<1> QED
  BY <1>1, <1>2, <1>3, <1>4, <1>5, <1>6 DEF LoginWork

\* connected_work keeps it, with whatever ran between its critical sections.
LEMMA ConnectedInv == Inv /\ ConnectedWork => Inv'
<1> SUFFICES ASSUME Inv, ConnectedWork
             PROVE  Inv'
  OBVIOUS
<1> USE OwnerFacts DEF Inv, TypeOK, PcOK, CancelledStay, Stopped, Cancelled, Works, SameFlags,
   FlagsAgree, PathKnown, RingsBalanced, Building, TxInflightExact, StateConverges, Pcs, Take, Go,
   Queue, Alive
<1>1. CASE ConnectStart
  BY <1>1 DEF ConnectStart
<1>2. CASE ConnectRings
  <2>1. \/ RetryEffect /\ UNCHANGED hw /\ pc' = [pc EXCEPT !["conn"] = "idle"]
        \/ /\ hw' \in Hardware /\ hw'.ring /\ pc' = [pc EXCEPT !["conn"] = "prime"]
           /\ UNCHANGED <<s, pend>>
    BY <1>2, HopFacts, RetryFacts DEF ConnectRings
  <2> QED
    BY <1>2, <2>1 DEF ConnectRings, RetryEffect
<1>3. CASE ConnectEnable
  <2>1. hw' \in Hardware /\ hw'.ring = hw.ring
    BY <1>3 DEF ConnectEnable, EnablePaths, Hardware
  <2> QED
    BY <1>3, <2>1 DEF ConnectEnable
<1>4. CASE ConnectFails
  <2>1. left' \in Budget
    BY <1>4, SpendFacts DEF ConnectFails
  <2>2. RetryEffect
    BY <1>4, RetryFacts DEF ConnectFails
  <2>3. hw' \in Hardware /\ ~hw'.ring
    BY <1>4 DEF ConnectFails, Hardware
  <2> QED
    BY <1>4, <2>1, <2>2, <2>3 DEF ConnectFails, RetryEffect
<1>5. CASE ConnectPublish
  <2>1. 0 \in 0..(Retries + 1)
    BY <1>5, TbNetAssumption DEF ConnectPublish
  <2>2. s' \in Sessions /\ s' = [s EXCEPT !.rings = TRUE, !.enabled = TRUE, !.pretries = 0]
    BY <1>5, <2>1 DEF ConnectPublish, Sessions
  <2>3. /\ s'.rings /\ s'.enabled /\ s'.removing = s.removing /\ s'.listed = s.listed
        /\ s'.rcvd = s.rcvd /\ s'.remote = s.remote
    BY <2>2 DEF Sessions
  <2> QED
    BY <1>5, <2>1, <2>2, <2>3 DEF ConnectPublish
<1>6. CASE ConnectRecompute
  <2>1. StateTold
    BY <1>6, StateFacts DEF ConnectRecompute
  <2> QED
    BY <1>6, <2>1 DEF ConnectRecompute, StateTold
<1> QED
  BY <1>1, <1>2, <1>3, <1>4, <1>5, <1>6 DEF ConnectedWork

\* disconnect_work keeps it.
LEMMA DisconnectInv == Inv /\ DisconnectWork => Inv'
<1> SUFFICES ASSUME Inv, DisconnectWork
             PROVE  Inv'
  OBVIOUS
<1> USE OwnerFacts DEF Inv, TypeOK, PcOK, CancelledStay, Stopped, Cancelled, Works, SameFlags,
   FlagsAgree, PathKnown, RingsBalanced, Building, TxInflightExact, StateConverges, Pcs, Take, Go,
   Queue, Alive
<1>1. CASE DisconnectStart
  <2>1. TeardownEffect
    BY <1>1, TeardownFacts DEF DisconnectStart
  <2>2. TypeOK'
    BY <1>1, <2>1 DEF DisconnectStart, TeardownEffect
  <2>3. PcOK' /\ CancelledStay' /\ FlagsAgree' /\ PathKnown'
    BY <1>1, <2>1 DEF DisconnectStart, TeardownEffect
  <2>4. RingsBalanced' /\ TxInflightExact' /\ StateConverges'
    BY <1>1, <2>1 DEF DisconnectStart, TeardownEffect
  <2> QED
    BY <2>2, <2>3, <2>4
<1>2. CASE DisconnectRecompute
  <2>1. StateTold
    BY <1>2, StateFacts DEF DisconnectRecompute
  <2> QED
    BY <1>2, <2>1 DEF DisconnectRecompute, StateTold
<1> QED
  BY <1>1, <1>2 DEF DisconnectWork

\* rx_work keeps it.
LEMMA RxInv == Inv /\ RxWork => Inv'
<1> SUFFICES ASSUME Inv, RxWork
             PROVE  Inv'
  OBVIOUS
<1> USE OwnerFacts DEF Inv, TypeOK, PcOK, CancelledStay, Stopped, Cancelled, Works, SameFlags,
   FlagsAgree, PathKnown, RingsBalanced, Building, TxInflightExact, StateConverges, Pcs, Take, Go,
   Queue, Alive, RxNext
<1>1. CASE RxStart
  <2>1. hw' \in Hardware /\ hw'.ring = hw.ring
    BY <1>1 DEF RxStart, Hardware
  <2> QED
    BY <1>1, <2>1 DEF RxStart
<1>2. CASE RxSeen
  <2>1. StateTold
    BY <1>2, StateFacts DEF RxSeen
  <2> QED
    BY <1>2, <2>1 DEF RxSeen, StateTold
<1>3. CASE RxProxy
  BY <1>3 DEF RxProxy
<1>4. CASE RxLookup
  BY <1>4 DEF RxLookup
<1>5. CASE RxStore
  <2>1. ident' \in Identities /\ ident'.active = ident.active
    BY <1>5 DEF RxStore, Identities
  <2> QED
    BY <1>5, <2>1 DEF RxStore
<1>6. CASE RxSend
  <2>1. hw' \in Hardware /\ hw'.ring = hw.ring
    BY <1>6 DEF RxSend, Hardware
  <2>2. tx' \in TxCounts
    BY <1>6, TbNetAssumption DEF RxSend, TxCounts
  <2>3. TypeOK'
    BY <1>6, <2>1, <2>2 DEF RxSend
  <2>4. PcOK' /\ CancelledStay'
    BY <1>6, <2>1, <2>2 DEF RxSend
  <2>5. FlagsAgree' /\ PathKnown'
    BY <1>6, <2>1, <2>2 DEF RxSend
  <2>6. RingsBalanced' /\ TxInflightExact'
    BY <1>6, <2>1, <2>2 DEF TxCounts, RxSend
  <2>7. StateConverges'
    BY <1>6, <2>1, <2>2 DEF Sessions, Identities, RxSend
  <2> QED
    BY <2>3, <2>4, <2>5, <2>6, <2>7
<1>7. CASE RxPost
  <2>1. hw' \in Hardware /\ hw'.ring = hw.ring
    BY <1>7 DEF RxPost, Hardware
  <2>2. tx' \in TxCounts
    BY <1>7, TbNetAssumption DEF RxPost, TxCounts
  <2>3. TypeOK'
    BY <1>7, <2>1, <2>2 DEF RxPost
  <2>4. PcOK' /\ CancelledStay'
    BY <1>7, <2>1, <2>2 DEF RxPost
  <2>5. FlagsAgree' /\ PathKnown'
    BY <1>7, <2>1, <2>2 DEF RxPost
  <2>6. RingsBalanced' /\ TxInflightExact'
    BY <1>7, <2>1, <2>2 DEF TxCounts, RxPost
  <2>7. StateConverges'
    BY <1>7, <2>1, <2>2 DEF Sessions, Identities, RxPost
  <2> QED
    BY <2>3, <2>4, <2>5, <2>6, <2>7
<1> QED
  BY <1>1, <1>2, <1>3, <1>4, <1>5, <1>6, <1>7 DEF RxWork

\* The transmit ring, the peer and the netdev keep it.
LEMMA EnvironmentInv == Inv /\ Environment => Inv'
<1> SUFFICES ASSUME Inv, Environment
             PROVE  Inv'
  OBVIOUS
<1> USE OwnerFacts DEF Inv, TypeOK, PcOK, CancelledStay, Stopped, Cancelled, Works, SameFlags,
   FlagsAgree, PathKnown, RingsBalanced, Building, TxInflightExact, StateConverges, Pcs, Queue,
   Alive
<1>1. CASE TxPoll
  <2>1. 0 \in 0..Frames /\ tx.inflight - tx.done \in 0..Frames
    BY <1>1, TbNetAssumption DEF TxCounts
  <2>2. tx' \in TxCounts
    BY <1>1, <2>1 DEF TxPoll, TxCounts
  <2>3. StateTold \/ UNCHANGED <<s, ident>>
    BY <1>1, StateFacts DEF TxPoll
  <2>4. TypeOK'
    BY <1>1, <2>1, <2>2, <2>3 DEF TxPoll, StateTold
  <2>5. PcOK' /\ CancelledStay'
    BY <1>1, <2>1, <2>2, <2>3 DEF TxPoll, StateTold
  <2>6. FlagsAgree' /\ PathKnown'
    BY <1>1, <2>1, <2>2, <2>3 DEF TxPoll, StateTold
  <2>7. RingsBalanced' /\ TxInflightExact'
    BY <1>1, <2>1, <2>2, <2>3 DEF TxCounts, TxPoll, StateTold
  <2>8. StateConverges'
    BY <1>1, <2>1, <2>2, <2>3 DEF Sessions, Identities, TxPoll, StateTold
  <2> QED
    BY <2>4, <2>5, <2>6, <2>7, <2>8
<1>2. CASE TxSent
  <2>1. tx.ring - 1 \in 0..Frames /\ tx.done + 1 \in 0..Frames
    BY <1>2, TbNetAssumption DEF TxSent, TxCounts
  <2>2. tx' \in TxCounts
    BY <1>2, <2>1 DEF TxSent, TxCounts
  <2>3. TypeOK'
    BY <1>2, <2>1, <2>2 DEF TxSent
  <2>4. PcOK' /\ CancelledStay'
    BY <1>2, <2>1, <2>2 DEF TxSent
  <2>5. FlagsAgree' /\ PathKnown'
    BY <1>2, <2>1, <2>2 DEF TxSent
  <2>6. RingsBalanced' /\ TxInflightExact'
    BY <1>2, <2>1, <2>2 DEF TxCounts, TxSent
  <2>7. StateConverges'
    BY <1>2, <2>1, <2>2 DEF Sessions, Identities, TxSent
  <2> QED
    BY <2>3, <2>4, <2>5, <2>6, <2>7
<1>3. CASE PeerLogin
  <2>1. left' \in Budget
    BY <1>3, SpendFacts DEF PeerLogin
  <2>2. PICK p \in PeerPaths :
        s' = IF s.removing THEN s ELSE [s EXCEPT !.rcvd = TRUE, !.lretries = 0, !.remote = p]
    BY <1>3 DEF PeerLogin
  <2>3. /\ s' \in Sessions /\ s'.removing = s.removing /\ s'.enabled = s.enabled
        /\ s'.rings = s.rings /\ s'.listed = s.listed /\ (s'.remote \in PeerPaths \/ SameFlags)
    <3>1. CASE s.removing
      BY <2>2, <3>1
    <3>2. CASE ~s.removing
      <4>1. 0 \in 0..(Retries + 1) /\ s' = [s EXCEPT !.rcvd = TRUE, !.lretries = 0, !.remote = p]
        BY <2>2, <3>2, TbNetAssumption
      <4> QED
        BY <4>1 DEF Sessions
    <3> QED
      BY <3>1, <3>2
  <2> QED
    BY <1>3, <2>1, <2>2, <2>3 DEF PeerLogin
<1>4. CASE PeerLogout
  <2>1. left' \in Budget
    BY <1>4, SpendFacts DEF PeerLogout
  <2> QED
    BY <1>4, <2>1 DEF PeerLogout
<1>5. CASE RxReady
  <2>1. left' \in Budget
    BY <1>5, SpendFacts DEF RxReady
  <2>2. hw.rx + 1 \in Nat
    BY <1>5 DEF Hardware
  <2>3. hw' \in Hardware /\ hw'.ring = hw.ring
    BY <1>5, <2>2 DEF RxReady, Hardware
  <2> QED
    BY <1>5, <2>1, <2>2, <2>3 DEF RxReady
<1>6. CASE NetChange
  <2>1. left' \in Budget
    BY <1>6, SpendFacts DEF NetChange
  <2> QED
    BY <1>6, <2>1 DEF NetChange
<1>7. CASE NetRefresh
  <2>1. StateTold
    BY <1>7, RefreshFacts DEF NetRefresh
  <2>2. TypeOK'
    BY <1>7, <2>1 DEF NetRefresh, StateTold
  <2>3. PcOK' /\ CancelledStay' /\ FlagsAgree' /\ PathKnown'
    BY <1>7, <2>1 DEF NetRefresh, StateTold
  <2>4. RingsBalanced' /\ TxInflightExact' /\ StateConverges'
    BY <1>7, <2>1 DEF NetRefresh, StateTold
  <2> QED
    BY <2>2, <2>3, <2>4
<1> QED
  BY <1>1, <1>2, <1>3, <1>4, <1>5, <1>6, <1>7 DEF Environment

\* destroy_session() keeps it.
LEMMA RemovalInv == Inv /\ (RemoveStart \/ Destroy) => Inv'
<1> SUFFICES ASSUME Inv, RemoveStart \/ Destroy
             PROVE  Inv'
  OBVIOUS
<1> USE OwnerFacts DEF Inv, TypeOK, PcOK, CancelledStay, Stopped, Cancelled, Works, SameFlags,
   FlagsAgree, PathKnown, RingsBalanced, Building, TxInflightExact, StateConverges, Pcs
<1>1. CASE RemoveStart
  <2>1. /\ s' \in Sessions /\ s'.removing /\ s'.enabled = s.enabled /\ s'.rings = s.rings
        /\ s'.listed = s.listed /\ s'.rcvd = s.rcvd /\ s'.remote = s.remote
    BY <1>1 DEF RemoveStart, Sessions
  <2> QED
    BY <1>1, <2>1 DEF RemoveStart
<1>2. CASE RemoveHandler
  BY <1>2 DEF RemoveHandler, CancelSteps
<1>3. CASE RemoveCancel
  <2>1. pend' \in [Works -> BOOLEAN] /\ own' \in Owners
    BY <1>3, CancelTypes
  <2>2. UNCHANGED <<s, hw, pc, rpath, tx, ident, addr, left>>
    BY <1>3 DEF RemoveCancel
  <2> QED
    BY <1>3, <2>1, <2>2, CancelFacts
<1>4. CASE RemoveLogout
  BY <1>4 DEF RemoveLogout
<1>5. CASE RemoveTeardown
  <2>1. TeardownEffect
    BY <1>5, TeardownFacts DEF RemoveTeardown
  <2> QED
    BY <1>5, <2>1 DEF RemoveTeardown, TeardownEffect
<1>6. CASE RemoveRecompute
  <2>1. StateTold
    BY <1>6, StateFacts DEF RemoveRecompute
  <2> QED
    BY <1>6, <2>1 DEF RemoveRecompute, StateTold
<1>7. CASE RemoveFree
  <2>1. [s EXCEPT !.listed = FALSE] \in Sessions /\ ident \in Identities /\ ident.proxy \in BOOLEAN
    BY <1>7 DEF Identities, Sessions
  <2>2. /\ s' \in Sessions /\ ident' \in Identities
        /\ ident'.active = ([s EXCEPT !.listed = FALSE].listed /\ [s EXCEPT !.listed = FALSE].enabled)
        /\ \E b \in BOOLEAN : s' = [[s EXCEPT !.listed = FALSE] EXCEPT !.seen = b]
    BY <1>7, <2>1, RecomputeFacts DEF RemoveFree
  <2>3. /\ s'.listed = FALSE /\ ident'.active = FALSE /\ s'.enabled = s.enabled /\ s'.rings = s.rings
        /\ s'.removing = s.removing /\ s'.rcvd = s.rcvd /\ s'.remote = s.remote
    BY <2>1, <2>2 DEF Sessions
  <2> QED
    BY <1>7, <2>1, <2>2, <2>3 DEF RemoveFree
<1> QED
  BY <1>1, <1>2, <1>3, <1>4, <1>5, <1>6, <1>7 DEF Destroy

\* Every step keeps it, whichever of the session's actors makes it.
LEMMA NextInv == Inv /\ [Next]_vars => Inv'
<1> SUFFICES ASSUME Inv, [Next]_vars
             PROVE  Inv'
  OBVIOUS
<1>1. CASE UNCHANGED vars
  BY <1>1 DEF vars, Inv, TypeOK, PcOK, FlagsAgree, CancelledStay, Stopped, PathKnown,
     RingsBalanced, Building, TxInflightExact, StateConverges
<1>2. CASE Next
  BY <1>2, LoginInv, ConnectedInv, DisconnectInv, RxInv, EnvironmentInv, RemovalInv
     DEF Next, Environment
<1> QED
  BY <1>1, <1>2

\* The invariant holds throughout.
LEMMA InvAlways == Spec => []Inv
  BY InitInv, NextInv, PTL DEF Spec

-----------------------------------------------------------------------------
\* The peer always announces the same path: it takes its transmit HopID once,
\* as this driver does in probe().
SteadyPeer == \E p : PeerPaths = {p}

\* HopsBalanced for such a peer, in terms of its one path.
OneHop(p) ==
  /\ hw.hops = IF Building \/ s.enabled THEN {p} ELSE {}
  /\ hw.paths = IF pc["conn"] = "publish" \/ s.enabled THEN {p} ELSE {}

\* The two say the same.
LEMMA OneHopFacts ==
  ASSUME NEW p, PeerPaths = {p}, Inv
  PROVE  OneHop(p) <=> HopsBalanced
<1>1. Building => rpath = p
  BY DEF Inv, PathKnown, Building
<1>2. s.enabled => s.remote = p
  BY DEF Inv, PathKnown
<1>3. pc["conn"] = "publish" => Building
  BY DEF Building
<1> QED
  BY <1>1, <1>2, <1>3 DEF OneHop, HopsBalanced

\* What is not about the path leaves it alone.
LEMMA OneHopSame ==
  ASSUME NEW p, OneHop(p), hw'.hops = hw.hops, hw'.paths = hw.paths, s'.enabled = s.enabled,
         pc'["conn"] = pc["conn"] \/ (pc["conn"] \in {"idle", "start", "recompute"}
                                       /\ pc'["conn"] \in {"idle", "start", "recompute"})
  PROVE  OneHop(p)'
  BY DEF OneHop, Building

\* Every step of a session with a steady peer keeps its HopID and its path.
LEMMA OneHopNext ==
  ASSUME NEW p, PeerPaths = {p}, Inv, OneHop(p), Next
  PROVE  OneHop(p)'
<1> USE DEF Inv
<1>1. CASE LoginWork
  <2>1. hw' = hw /\ pc'["conn"] = pc["conn"] /\ s'.enabled = s.enabled
    BY <1>1 DEF LoginWork, LoginStart, LoginReset, LoginRequest, LoginTimeout, LoginResponse,
       LoginKick, Take, Go, TypeOK, Sessions, Works
  <2> QED
    BY <2>1, OneHopSame
<1>2. CASE ConnectStart
  BY <1>2, OneHopSame DEF ConnectStart, Take, TypeOK, Works
<1>3. CASE ConnectRings
  <2>1. rpath = p /\ ~s.enabled
    BY <1>3 DEF ConnectRings, PathKnown, FlagsAgree
  <2>2. CASE rpath \in hw.hops
    BY <1>3, <2>1, <2>2 DEF OneHop, Building, ConnectRings
  <2>3. CASE rpath \notin hw.hops
    <3>1. hw.hops = {} /\ hw.paths = {}
      BY <1>3, <2>1 DEF OneHop, Building, ConnectRings
    <3>2. hw'.hops = {p} /\ hw'.paths = {}
      <4>1. hw' = [hw EXCEPT !.hops = hw.hops \cup {rpath}, !.ring = TRUE]
        BY <1>3, <2>3 DEF ConnectRings
      <4>2. hw'.hops = hw.hops \cup {rpath} /\ hw'.paths = hw.paths
        BY <4>1 DEF TypeOK, Hardware
      <4> QED
        BY <2>1, <3>1, <4>2
    <3>3. pc'["conn"] = "prime" /\ s' = s
      BY <1>3, <2>3 DEF ConnectRings, Go, TypeOK, Works
    <3> QED
      BY <2>1, <3>2, <3>3 DEF OneHop, Building
  <2> QED
    BY <2>2, <2>3
<1>4. CASE ConnectEnable
  <2>1. rpath = p /\ ~s.enabled
    BY <1>4 DEF ConnectEnable, PathKnown, FlagsAgree
  <2> QED
    BY <1>4, <2>1 DEF OneHop, Building, ConnectEnable, EnablePaths, Go, TypeOK, Hardware, Works
<1>5. CASE ConnectFails
  <2>1. rpath = p /\ ~s.enabled
    BY <1>5 DEF ConnectFails, PathKnown, FlagsAgree
  <2>2. s'.enabled = s.enabled
    BY <1>5, RetryFacts DEF ConnectFails, RetryEffect, SameFlags
  <2> QED
    BY <1>5, <2>1, <2>2 DEF OneHop, Building, ConnectFails, Go, TypeOK, Hardware, Works
<1>6. CASE ConnectPublish
  BY <1>6 DEF OneHop, Building, ConnectPublish, Go, TypeOK, Sessions, Works
<1>7. CASE ConnectRecompute
  <2>1. s'.enabled = s.enabled
    BY <1>7, StateFacts DEF ConnectRecompute, StateTold, SameFlags
  <2> QED
    BY <1>7, <2>1, OneHopSame DEF ConnectRecompute, Go, TypeOK, Works
<1>8. CASE Teardown /\ pc'["conn"] = pc["conn"]
  <2>1. TeardownEffect
    BY <1>8, TeardownFacts
  <2>2. CASE s.enabled
    <3>1. ~Building /\ s.remote = p
      BY <2>2 DEF Building, FlagsAgree, PathKnown
    <3> QED
      BY <1>8, <2>1, <2>2, <3>1 DEF TeardownEffect, OneHop, Building
  <2>3. CASE ~s.enabled
    BY <1>8, <2>1, <2>3 DEF TeardownEffect, OneHop, Building
  <2> QED
    BY <2>2, <2>3
<1>9. CASE DisconnectWork
  <2>1. CASE DisconnectStart
    BY <1>8, <2>1 DEF DisconnectStart, Take, TypeOK, Works
  <2>2. CASE DisconnectRecompute
    <3>1. s'.enabled = s.enabled
      BY <2>2, StateFacts DEF DisconnectRecompute, StateTold, SameFlags
    <3> QED
      BY <2>2, <3>1, OneHopSame DEF DisconnectRecompute, Go, TypeOK, Works
  <2> QED
    BY <1>9, <2>1, <2>2 DEF DisconnectWork
<1>10. CASE RxWork
  <2>1. hw'.hops = hw.hops /\ hw'.paths = hw.paths
    BY <1>10 DEF RxWork, RxStart, RxSeen, RxProxy, RxLookup, RxStore, RxSend, RxPost, TypeOK,
       Hardware
  <2>2. s'.enabled = s.enabled
    BY <1>10, StateFacts DEF RxWork, RxStart, RxSeen, RxProxy, RxLookup, RxStore, RxSend, RxPost,
       StateTold, SameFlags
  <2>3. pc'["conn"] = pc["conn"]
    BY <1>10 DEF RxWork, RxStart, RxSeen, RxProxy, RxLookup, RxStore, RxSend, RxPost, Take, Go,
       TypeOK, Works
  <2> QED
    BY <2>1, <2>2, <2>3, OneHopSame
<1>11. CASE Environment
  <2>1. hw'.hops = hw.hops /\ hw'.paths = hw.paths /\ pc' = pc
    BY <1>11 DEF Environment, TxPoll, TxSent, PeerLogin, PeerLogout, RxReady, NetChange,
       NetRefresh, TypeOK, Hardware
  <2>2. s'.enabled = s.enabled
    <3>1. CASE PeerLogin
      BY <3>1 DEF PeerLogin, TypeOK, Sessions
    <3>2. CASE ~PeerLogin
      BY <1>11, <3>2, StateFacts, RefreshFacts DEF Environment, TxPoll, TxSent, PeerLogout,
         RxReady, NetChange, StateTold, SameFlags
    <3> QED
      BY <3>1, <3>2
  <2> QED
    BY <2>1, <2>2, OneHopSame
<1>12. CASE RemoveStart \/ (Destroy /\ ~RemoveTeardown)
  <2>1. hw' = hw /\ pc' = pc
    BY <1>12 DEF RemoveStart, Destroy, RemoveHandler, RemoveCancel, RemoveLogout,
       RemoveRecompute, RemoveFree
  <2>2. s'.enabled = s.enabled
    <3>1. CASE RemoveFree
      <4>1. [s EXCEPT !.listed = FALSE] \in Sessions
        BY DEF TypeOK, Sessions
      <4>2. \E b \in BOOLEAN : s' = [[s EXCEPT !.listed = FALSE] EXCEPT !.seen = b]
        BY <3>1, <4>1, RecomputeFacts DEF RemoveFree, TypeOK, Identities
      <4> QED
        BY <4>2 DEF TypeOK, Sessions
    <3>2. CASE ~RemoveFree
      BY <1>12, <3>2, StateFacts DEF RemoveStart, Destroy, RemoveHandler, RemoveCancel,
         RemoveLogout, RemoveRecompute, TypeOK, Sessions, StateTold, SameFlags
    <3> QED
      BY <3>1, <3>2
  <2> QED
    BY <2>1, <2>2, OneHopSame
<1>13. CASE RemoveTeardown
  BY <1>8, <1>13 DEF RemoveTeardown
<1> QED
  BY <1>1, <1>2, <1>3, <1>4, <1>5, <1>6, <1>7, <1>9, <1>10, <1>11, <1>12, <1>13
     DEF Next, ConnectedWork, Environment, Destroy

\* So the HopID of a steady peer is balanced throughout.
LEMMA OneHopAlways ==
  ASSUME NEW CONSTANT p, PeerPaths = {p}
  PROVE  Spec => []OneHop(p)
<1>1. Init => OneHop(p)
  BY DEF Init, OneHop, Building, Works
<1>2. Inv /\ OneHop(p) /\ [Next]_vars => OneHop(p)'
  <2> SUFFICES ASSUME Inv, OneHop(p), [Next]_vars
               PROVE  OneHop(p)'
    OBVIOUS
  <2>1. CASE UNCHANGED vars
    BY <2>1 DEF vars, OneHop, Building
  <2> QED
    BY <2>1, OneHopNext
<1> QED
  BY <1>1, <1>2, InvAlways, PTL DEF Spec

-----------------------------------------------------------------------------
\* connected_work's rings are stopped exactly once: by itself, by a LOGOUT or
\* by the removal, in any interleaving of the three, and tx_inflight counts
\* every frame of the pool that is out.
THEOREM RingsAndFrames == Spec => [](TypeOK /\ RingsBalanced /\ TxInflightExact)
<1>1. Inv => TypeOK /\ RingsBalanced /\ TxInflightExact
  BY DEF Inv
<1> QED
  BY <1>1, InvAlways, PTL

\* With a peer that keeps its path, the Rx HopID and the programmed path are
\* given back as well: PathBalanced, as the run checks it.
THEOREM PathBalancedThm == SteadyPeer => (Spec => []PathBalanced)
<1> SUFFICES ASSUME SteadyPeer
             PROVE  Spec => []PathBalanced
  OBVIOUS
<1> PICK p : PeerPaths = {p}
  BY DEF SteadyPeer
<1>1. Inv /\ OneHop(p) => PathBalanced
  BY OneHopFacts DEF Inv, PathBalanced
<1> QED
  BY <1>1, InvAlways, OneHopAlways, PTL

\* The identity state that Apple rails wait for follows path_enabled, but for
\* the work that is about to recompute it.
THEOREM StateConvergesThm == Spec => []StateConverges
<1>1. Inv => StateConverges
  BY DEF Inv
<1> QED
  BY <1>1, InvAlways, PTL

\* destroy_session() frees the session with its login, path and transmit works
\* neither queued nor running.
THEOREM WorksQuietThm == Spec => []WorksQuiet
<1>1. Inv => WorksQuiet
  BY DEF Inv, CancelledStay, Stopped, Cancelled, WorksQuiet, Works
<1> QED
  BY <1>1, InvAlways, PTL
=============================================================================
