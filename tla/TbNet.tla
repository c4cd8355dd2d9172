------------------------------- MODULE TbNet -------------------------------
(***************************************************************************)
(* The minimal ThunderboltIP identity (kernel/tbnet_minimal.c, with the    *)
(* refresh of kernel/tbnet_identity.c): one session with an Apple peer,    *)
(* its login, packet path and ARP traffic, and the identity state the      *)
(* Apple rails wait for.                                                   *)
(*                                                                         *)
(* The works of the session run on system_long_wq: each runs by itself,    *)
(* concurrently with the others, and may be queued again while it runs.    *)
(* The peer is external: it sends LOGIN and LOGOUT as it likes and answers *)
(* or does not answer a request.                                           *)
(***************************************************************************)
EXTENDS Integers, FiniteSets

CONSTANTS Retries,    \* TBV_TBNET_MIN_LOGIN_RETRIES
          Frames,     \* transmit frames of the session
          PeerPaths,  \* transmit paths the peer announces
          Budgets     \* bounds: what the peer and the environment may do, each a
                      \* record of how often (see Budget)

\* LOGINs, LOGOUTs and frames of the peer, requests it does not answer,
\* failures of a path set-up, changes of the GID netdev's address.
Budget == [logins : Nat, logouts : Nat, rx : Nat, timeouts : Nat, fails : Nat, net : Nat]

ASSUME TbNetAssumption ==
  /\ Retries \in Nat /\ Frames \in Nat \ {0}
  /\ PeerPaths \subseteq Nat \ {0} /\ PeerPaths # {}
  /\ Budgets \subseteq Budget

Works == {"login", "conn", "disc", "rx", "poll"}
NoPath == 0
\* The steps of each work after it was taken from the queue.
Pcs == {"idle", "reset", "recheck", "wait", "kick",       \* login_work
        "start", "prime", "publish",                     \* connected_work
        "recompute",                                      \* disconnect_work, connected_work
        "frame", "arp", "lookup", "store", "send", "post"} \* rx_work
CancelSteps == <<"cancel1", "cancel2", "cancel3", "cancel4", "cancel5">>
Owners == {"none", "handler", "logout", "teardown", "recompute", "unlink", "freed"}
            \cup {CancelSteps[i] : i \in 1..5}

VARIABLES
  s,     \* struct tbv_tbnet_minimal_session: the fields under its lock
  hw,    \* the rings, the Rx HopIDs held and the paths programmed
  pend,  \* the work is queued
  pc,    \* where the running work is
  rpath, \* connected_work's copy of remote_transmit_path
  tx,    \* tx: frames on the transmit ring; inflight: session->tx_inflight
  ident, \* struct tbv_tbnet_identity: proxy_ipv4, state
  addr,  \* [now: the GID netdev has an IPv4 address, event: notifier to run]
  own,   \* how far destroy_session() is
  left   \* what is left of the bounds

vars == <<s, hw, pend, pc, rpath, tx, ident, addr, own, left>>

Sessions ==
  [sent : BOOLEAN, rcvd : BOOLEAN, enabled : BOOLEAN, rings : BOOLEAN, removing : BOOLEAN,
   seen : BOOLEAN, listed : BOOLEAN, remote : PeerPaths \cup {NoPath},
   lretries : 0..(Retries + 1), pretries : 0..(Retries + 1)]
Hardware == [ring : BOOLEAN, hops : SUBSET PeerPaths, paths : SUBSET PeerPaths, rx : Nat]
TxCounts == [ring : 0..Frames, done : 0..Frames, inflight : 0..Frames]
Identities == [proxy : BOOLEAN, gid : BOOLEAN, active : BOOLEAN, ready : BOOLEAN]

TypeOK ==
  /\ s \in Sessions /\ hw \in Hardware
  /\ pend \in [Works -> BOOLEAN] /\ pc \in [Works -> Pcs]
  /\ rpath \in PeerPaths \cup {NoPath}
  /\ tx \in TxCounts /\ ident \in Identities
  /\ addr \in [now : BOOLEAN, event : BOOLEAN]
  /\ own \in Owners
  /\ left \in Budget

\* tbv_tbnet_minimal_probe(): the rings are allocated, the handler is
\* registered and login_work is queued.
Init ==
  /\ s = [sent |-> FALSE, rcvd |-> FALSE, enabled |-> FALSE, rings |-> FALSE,
          removing |-> FALSE, seen |-> FALSE, listed |-> TRUE, remote |-> NoPath,
          lretries |-> 0, pretries |-> 0]
  /\ hw = [ring |-> FALSE, hops |-> {}, paths |-> {}, rx |-> 0]
  /\ pend = [w \in Works |-> w = "login"] /\ pc = [w \in Works |-> "idle"]
  /\ rpath = NoPath
  /\ tx = [ring |-> 0, done |-> 0, inflight |-> 0]
  /\ ident = [proxy |-> FALSE, gid |-> FALSE, active |-> FALSE, ready |-> FALSE]
  /\ addr = [now |-> FALSE, event |-> FALSE]
  /\ own = "none"
  /\ left \in Budgets

-----------------------------------------------------------------------------
(* Helpers.                                                                *)

Alive == own # "freed"
\* The work leaves the queue and goes to step p; it may be queued again.
Take(w, p) ==
  /\ Alive /\ pend[w] /\ pc[w] = "idle"
  /\ pend' = [pend EXCEPT ![w] = FALSE]
  /\ pc' = [pc EXCEPT ![w] = p]
Go(w, p) == Alive /\ pc' = [pc EXCEPT ![w] = p]
Queue(ws) == pend' = [w \in Works |-> pend[w] \/ w \in ws]
Spend(what) == left[what] > 0 /\ left' = [left EXCEPT ![what] = @ - 1]
Capped(n) == IF n > Retries THEN n ELSE n + 1

\* tbv_tbnet_minimal_recompute_state_locked(): the session after it, and the
\* identity, given whether the session is listed, its path and the proxy.
SeenAfter(t, proxy) == t.seen /\ t.enabled /\ proxy
Recomputed(t, proxy) ==
  [proxy |-> proxy, gid |-> ident.gid, active |-> t.listed /\ t.enabled,
   ready |-> t.listed /\ SeenAfter(t, proxy)]
Recompute(t, proxy) ==
  /\ ident' = Recomputed(t, proxy)
  /\ s' = [t EXCEPT !.seen = IF t.listed THEN SeenAfter(t, proxy) ELSE t.seen]

-----------------------------------------------------------------------------
(* login_work.                                                             *)

\* Nothing to do once the path is enabled; before the peer's LOGIN arrived,
\* each attempt starts with a LOGOUT that clears what the peer may remember.
LoginStart ==
  /\ \E p \in {"idle", "reset", "recheck"} :
       /\ Take("login", p)
       /\ p = IF s.enabled \/ s.removing THEN "idle"
              ELSE IF s.rcvd THEN "recheck" ELSE "reset"
  /\ UNCHANGED <<s, hw, rpath, tx, ident, addr, own, left>>

\* The reset's STATUS arrives, or the request times out.
LoginReset ==
  /\ pc["login"] = "reset" /\ Go("login", "recheck")
  /\ UNCHANGED <<s, hw, pend, rpath, tx, ident, addr, own, left>>

LoginRequest ==
  /\ pc["login"] = "recheck"
  /\ Go("login", IF s.enabled \/ s.removing THEN "idle" ELSE "wait")
  /\ UNCHANGED <<s, hw, pend, rpath, tx, ident, addr, own, left>>

\* No response, or one that does not match: retried after a delay while the
\* budget lasts.
LoginTimeout ==
  /\ pc["login"] = "wait" /\ Spend("timeouts") /\ Go("login", "idle")
  /\ s' = [s EXCEPT !.lretries = IF s.removing THEN @ ELSE Capped(@)]
  /\ Queue(IF ~s.removing /\ s.lretries < Retries THEN {"login"} ELSE {})
  /\ UNCHANGED <<hw, rpath, tx, ident, addr, own>>

\* LOGIN_RESPONSE: our half is done.  Until the peer's LOGIN arrives the
\* whole attempt is repeated.
LoginResponse ==
  /\ pc["login"] = "wait" /\ Go("login", "kick")
  /\ s' = [s EXCEPT !.sent = TRUE,
                    !.lretries = IF s.rcvd THEN 0 ELSE IF s.removing THEN @ ELSE Capped(@)]
  /\ Queue(IF ~s.rcvd /\ ~s.removing /\ s.lretries < Retries THEN {"login"} ELSE {})
  /\ UNCHANGED <<hw, rpath, tx, ident, addr, own, left>>

LoginKick ==
  /\ pc["login"] = "kick" /\ Go("login", "idle") /\ Queue({"conn"})
  /\ UNCHANGED <<s, hw, rpath, tx, ident, addr, own, left>>

-----------------------------------------------------------------------------
(* connected_work: between its two critical sections the path is built     *)
(* without the session lock.                                               *)

ConnectStart ==
  /\ LET go == ~s.enabled /\ ~s.removing /\ s.sent /\ s.rcvd
     IN /\ Take("conn", IF go THEN "start" ELSE "idle")
        /\ rpath' = IF go THEN s.remote ELSE rpath
  /\ UNCHANGED <<s, hw, tx, ident, addr, own, left>>

\* tbv_tbnet_minimal_retry_connected()
RetryConnected ==
  LET again == ~s.removing /\ ~s.enabled /\ s.sent /\ s.rcvd
  IN /\ s' = [s EXCEPT !.pretries = IF again THEN Capped(@) ELSE @]
     /\ Queue(IF again /\ s.pretries < Retries THEN {"conn"} ELSE {})

\* tb_xdomain_alloc_in_hopid(), then tb_ring_start() of both rings.
ConnectRings ==
  /\ pc["conn"] = "start"
  /\ IF rpath \in hw.hops
     THEN Go("conn", "idle") /\ RetryConnected /\ UNCHANGED hw
     ELSE /\ Go("conn", "prime")
          /\ hw' = [hw EXCEPT !.hops = @ \cup {rpath}, !.ring = TRUE]
          /\ UNCHANGED <<s, pend>>
  /\ UNCHANGED <<rpath, tx, ident, addr, own, left>>

EnablePaths(h, p) == [h EXCEPT !.paths = @ \cup {p}]
DisablePaths(h, p) == [h EXCEPT !.paths = @ \ {p}]

\* prime_rx() and tb_xdomain_enable_paths()
ConnectEnable ==
  /\ pc["conn"] = "prime" /\ Go("conn", "publish")
  /\ hw' = EnablePaths(hw, rpath)
  /\ UNCHANGED <<s, pend, rpath, tx, ident, addr, own, left>>

\* Either fails: what was built is taken down.  The ring's transmit frames
\* come back cancelled.
ConnectFails ==
  /\ pc["conn"] = "prime" /\ Spend("fails") /\ Go("conn", "idle")
  /\ hw' = [hw EXCEPT !.hops = @ \ {rpath}, !.ring = FALSE]
  /\ RetryConnected
  /\ UNCHANGED <<rpath, tx, ident, addr, own>>

ConnectPublish ==
  /\ pc["conn"] = "publish" /\ Go("conn", "recompute")
  /\ s' = [s EXCEPT !.rings = TRUE, !.enabled = TRUE, !.pretries = 0]
  /\ UNCHANGED <<hw, pend, rpath, tx, ident, addr, own, left>>

\* Variant: the identity is not told.
ConnectSilent ==
  /\ pc["conn"] = "recompute" /\ Go("conn", "idle")
  /\ UNCHANGED <<s, hw, pend, rpath, tx, ident, addr, own, left>>

ConnectRecompute ==
  /\ pc["conn"] = "recompute" /\ Go("conn", "idle") /\ Recompute(s, ident.proxy)
  /\ UNCHANGED <<hw, pend, rpath, tx, addr, own, left>>

-----------------------------------------------------------------------------
(* Teardown and the peer's messages.                                       *)

\* Stopping the ring returns its frames through tx_complete(), cancelled.
TxReturned == [ring |-> 0, done |-> 0, inflight |-> tx.inflight - tx.ring - tx.done]

\* Variant: the HopID is not given back.
TeardownKeepsHop ==
  /\ s' = [s EXCEPT !.rings = FALSE, !.enabled = FALSE, !.sent = FALSE, !.rcvd = FALSE,
                    !.remote = IF s.enabled THEN NoPath ELSE @, !.lretries = 0, !.pretries = 0]
  /\ hw' = [hw EXCEPT !.ring = IF s.rings THEN FALSE ELSE @,
                      !.paths = IF s.enabled THEN @ \ {s.remote} ELSE @]
  /\ tx' = IF s.rings THEN TxReturned ELSE tx

\* tbv_tbnet_minimal_teardown_path() under the session lock.
Teardown ==
  /\ s' = [s EXCEPT !.rings = FALSE, !.enabled = FALSE, !.sent = FALSE, !.rcvd = FALSE,
                    !.remote = IF s.enabled THEN NoPath ELSE @, !.lretries = 0, !.pretries = 0]
  /\ LET h == [hw EXCEPT !.ring = IF s.rings THEN FALSE ELSE @,
                         !.rx = IF s.rings THEN 0 ELSE @]
     IN hw' = IF s.enabled THEN [DisablePaths(h, s.remote) EXCEPT !.hops = @ \ {s.remote}] ELSE h
  /\ tx' = IF s.rings THEN TxReturned ELSE tx

DisconnectStart ==
  /\ Take("disc", "recompute") /\ Teardown
  /\ UNCHANGED <<rpath, ident, addr, own, left>>

DisconnectRecompute ==
  /\ pc["disc"] = "recompute" /\ Go("disc", "idle") /\ Recompute(s, ident.proxy)
  /\ UNCHANGED <<hw, pend, rpath, tx, addr, own, left>>

\* Variant: a LOGIN after our own is acknowledged without effect.
PeerLoginIgnored ==
  /\ own = "none" /\ \E p \in PeerPaths :
       /\ Spend("logins")
       /\ s' = [s EXCEPT !.rcvd = TRUE, !.lretries = 0, !.remote = p]
       /\ Queue(IF s.sent THEN {} ELSE {"login", "conn"})
  /\ UNCHANGED <<hw, pc, rpath, tx, ident, addr, own>>

\* handle_packet(), LOGIN: acknowledged, then recorded.
PeerLogin ==
  /\ own \in {"none", "handler"} /\ \E p \in PeerPaths :
       /\ Spend("logins")
       /\ s' = IF s.removing THEN s ELSE [s EXCEPT !.rcvd = TRUE, !.lretries = 0, !.remote = p]
       /\ Queue({"conn"} \cup (IF s.removing \/ s.sent THEN {} ELSE {"login"}))
  /\ UNCHANGED <<hw, pc, rpath, tx, ident, addr, own>>

\* handle_packet(), LOGOUT: answered with STATUS; the teardown is left to
\* disconnect_work.
PeerLogout ==
  /\ own \in {"none", "handler"} /\ Spend("logouts") /\ Queue({"disc"})
  /\ UNCHANGED <<s, hw, pc, rpath, tx, ident, addr, own>>

-----------------------------------------------------------------------------
(* Packets.  A received frame marks the neighbour seen and, when it is an  *)
(* ARP request for the proxied address, is answered.                       *)

\* A frame arrives on the running ring: rx_ready() schedules rx_work.
RxReady ==
  /\ Alive /\ hw.ring /\ hw.paths # {} /\ Spend("rx")
  /\ hw' = [hw EXCEPT !.rx = @ + 1] /\ Queue({"rx"})
  /\ UNCHANGED <<s, pc, rpath, tx, ident, addr, own>>

RxStart ==
  /\ LET any == hw.rx > 0
     IN /\ Take("rx", IF any THEN "frame" ELSE "idle")
        /\ hw' = [hw EXCEPT !.rx = IF any THEN @ - 1 ELSE @]
  /\ UNCHANGED <<s, rpath, tx, ident, addr, own, left>>

\* tbv_tbnet_minimal_mark_neighbor_seen(), for a frame received ...
RxSeen ==
  /\ pc["rx"] = "frame" /\ Go("rx", "arp")
  /\ Recompute([s EXCEPT !.seen = TRUE], ident.proxy)
  /\ UNCHANGED <<hw, pend, rpath, tx, addr, own, left>>

\* send_arp_reply(): the identity's proxied address, read without a lock ...
RxProxy ==
  /\ pc["rx"] = "arp" /\ Go("rx", IF ident.proxy THEN "send" ELSE "lookup")
  /\ UNCHANGED <<s, hw, pend, rpath, tx, ident, addr, own, left>>

\* ... or, if it has none, the netdev's, looked up under RTNL ...
RxLookup ==
  /\ pc["rx"] = "lookup" /\ ~addr.event
  /\ Go("rx", IF addr.now THEN "store" ELSE "send")
  /\ UNCHANGED <<s, hw, pend, rpath, tx, ident, addr, own, left>>

\* ... and stored after RTNL was released, whatever a notifier has done since.
RxStore ==
  /\ pc["rx"] = "store" /\ Go("rx", "send")
  /\ ident' = [ident EXCEPT !.proxy = TRUE]
  /\ UNCHANGED <<s, hw, pend, rpath, tx, addr, own, left>>

\* rx_work goes on with the next frame of the ring.
RxNext == IF hw.rx > 0 THEN "frame" ELSE "idle"

\* send_frame(): the check under the lock; the frame is taken and posted
\* without it.
RxSend ==
  /\ pc["rx"] = "send"
  /\ LET ok == s.enabled /\ ~s.removing /\ tx.inflight < Frames
     IN /\ Go("rx", IF ok THEN "post" ELSE RxNext)
        /\ tx' = [tx EXCEPT !.inflight = IF ok THEN @ + 1 ELSE @]
        /\ hw' = [hw EXCEPT !.rx = IF ~ok /\ @ > 0 THEN @ - 1 ELSE @]
  /\ UNCHANGED <<s, pend, rpath, ident, addr, own, left>>

\* tb_ring_tx() refuses a frame once the ring is stopped.
RxPost ==
  /\ pc["rx"] = "post" /\ Go("rx", RxNext)
  /\ hw' = [hw EXCEPT !.rx = IF @ > 0 THEN @ - 1 ELSE @]
  /\ tx' = IF hw.ring THEN [tx EXCEPT !.ring = @ + 1] ELSE [tx EXCEPT !.inflight = @ - 1]
  /\ Queue(IF hw.ring THEN {"poll"} ELSE {})
  /\ UNCHANGED <<s, rpath, ident, addr, own, left>>

\* The NHI sends a frame.
TxSent ==
  /\ Alive /\ tx.ring > 0 /\ tx' = [tx EXCEPT !.ring = @ - 1, !.done = @ + 1]
  /\ UNCHANGED <<s, hw, pend, pc, rpath, ident, addr, own, left>>

\* tx_poll_work: tx_complete() of what was sent marks the neighbour seen, an
\* ARP reply having reached it; queued again while frames are out.
TxPoll ==
  /\ Alive /\ pend["poll"] /\ pc["poll"] = "idle"
  /\ pend' = [pend EXCEPT !["poll"] = tx.inflight > 0]
  /\ tx' = [tx EXCEPT !.done = 0, !.inflight = @ - tx.done]
  /\ IF tx.done > 0 THEN Recompute([s EXCEPT !.seen = TRUE], ident.proxy)
                    ELSE UNCHANGED <<s, ident>>
  /\ UNCHANGED <<hw, pc, rpath, addr, own, left>>

-----------------------------------------------------------------------------
(* The address of the GID netdev.  Notifiers run under RTNL, so one change *)
(* is handled before the next is made.                                     *)

NetChange ==
  /\ ~addr.event /\ Spend("net") /\ addr' = [now |-> ~addr.now, event |-> TRUE]
  /\ UNCHANGED <<s, hw, pend, pc, rpath, tx, ident, own>>

\* tbv_tbnet_identity_refresh_minimal_locked(): a changed or lost address
\* forgets the neighbours.
NetRefresh ==
  /\ addr.event /\ addr' = [addr EXCEPT !.event = FALSE]
  /\ IF addr.now /\ ident.gid /\ ident.proxy
     THEN Recompute(s, TRUE)
     ELSE /\ s' = [s EXCEPT !.seen = FALSE]
          /\ ident' = [Recomputed(s', addr.now) EXCEPT !.gid = addr.now]
  /\ UNCHANGED <<hw, pend, pc, rpath, tx, own, left>>

-----------------------------------------------------------------------------
(* destroy_session().                                                      *)

RemoveStart ==
  /\ own = "none" /\ own' = "handler"
  /\ s' = [s EXCEPT !.removing = TRUE]
  /\ UNCHANGED <<hw, pend, pc, rpath, tx, ident, addr, left>>

\* tb_unregister_protocol_handler() returns when no callback runs any more.
RemoveHandler ==
  /\ own = "handler" /\ own' = CancelSteps[1]
  /\ UNCHANGED <<s, hw, pend, pc, rpath, tx, ident, addr, left>>

\* Variant: connected_work is cancelled before the login_work that queues it.
CancelOrderSwapped == <<"conn", "login", "disc", "rx", "poll">>
\* The order of the cancels.
CancelOrder == <<"login", "conn", "disc", "rx", "poll">>

\* cancel_work_sync() of each work in turn.
RemoveCancel ==
  /\ \E i \in 1..5 :
       /\ own = CancelSteps[i] /\ pc[CancelOrder[i]] = "idle"
       /\ pend' = [pend EXCEPT ![CancelOrder[i]] = FALSE]
       /\ own' = IF i = 5 THEN "logout" ELSE CancelSteps[i + 1]
  /\ UNCHANGED <<s, hw, pc, rpath, tx, ident, addr, left>>

\* send_shutdown_logout(): the peer answers or the request times out.
RemoveLogout ==
  /\ own = "logout" /\ own' = "teardown"
  /\ UNCHANGED <<s, hw, pend, pc, rpath, tx, ident, addr, left>>

RemoveTeardown ==
  /\ own = "teardown" /\ own' = "recompute" /\ Teardown
  /\ UNCHANGED <<pend, pc, rpath, ident, addr, left>>

RemoveRecompute ==
  /\ own = "recompute" /\ own' = "unlink" /\ Recompute(s, ident.proxy)
  /\ UNCHANGED <<hw, pend, pc, rpath, tx, addr, left>>

\* The session leaves the identity's list and is freed with its rings.
RemoveFree ==
  /\ own = "unlink" /\ own' = "freed"
  /\ Recompute([s EXCEPT !.listed = FALSE], ident.proxy)
  /\ UNCHANGED <<hw, pend, pc, rpath, tx, addr, left>>

-----------------------------------------------------------------------------
LoginWork == LoginStart \/ LoginReset \/ LoginRequest \/ LoginTimeout \/ LoginResponse \/ LoginKick
ConnectedWork ==
  \/ ConnectStart \/ ConnectRings \/ ConnectEnable \/ ConnectFails \/ ConnectPublish
  \/ ConnectRecompute
DisconnectWork == DisconnectStart \/ DisconnectRecompute
RxWork == RxStart \/ RxSeen \/ RxProxy \/ RxLookup \/ RxStore \/ RxSend \/ RxPost
Destroy ==
  \/ RemoveHandler \/ RemoveCancel \/ RemoveLogout \/ RemoveTeardown \/ RemoveRecompute
  \/ RemoveFree
Next ==
  \/ LoginWork \/ ConnectedWork \/ DisconnectWork \/ RxWork \/ TxPoll \/ TxSent
  \/ PeerLogin \/ PeerLogout \/ RxReady \/ NetChange \/ NetRefresh
  \/ RemoveStart \/ Destroy

Spec == Init /\ [][Next]_vars
\* The workqueue runs what is queued, a request is answered or times out, the
\* NHI sends and a destroy that was begun goes on.
Fairness ==
  /\ WF_vars(LoginWork) /\ WF_vars(ConnectedWork) /\ WF_vars(DisconnectWork)
  /\ WF_vars(RxWork) /\ WF_vars(TxPoll) /\ WF_vars(TxSent) /\ WF_vars(NetRefresh)
  /\ WF_vars(Destroy)
FairSpec == Spec /\ Fairness

-----------------------------------------------------------------------------
(* Properties.                                                             *)

\* The path connected_work is building outside of the session lock.
Building == pc["conn"] \in {"prime", "publish"}

\* The rings run exactly while the session says so or connected_work is
\* between its critical sections, whatever LOGOUT or removal does meanwhile:
\* tb_ring_start() never meets a running ring, tb_ring_free() never frees one.
RingsBalanced ==
  /\ hw.ring <=> (s.rings \/ Building)
  /\ pc["conn"] = "start" => ~hw.ring
  /\ own = "freed" => ~hw.ring

\* The Rx HopID held and the path programmed are those of the path being
\* built or enabled, and every one is given back: teardown_path() disables
\* what connected_work enabled.
HopsBalanced ==
  /\ hw.hops = IF Building THEN {rpath} ELSE IF s.enabled THEN {s.remote} ELSE {}
  /\ hw.paths = IF pc["conn"] = "publish" THEN {rpath}
                ELSE IF s.enabled THEN {s.remote} ELSE {}

\* The identity's PACKET_PATH_ACTIVE differs from path_enabled only while someone
\* is about to recompute it.  Apple rails are published by path_enabled
\* (tbv_tbnet_minimal_path_ready()); the recomputation is what has them look.
StateConverges ==
  ident.active # (s.listed /\ s.enabled) =>
    pc["conn"] = "recompute" \/ pc["disc"] = "recompute" \/ own = "recompute"

\* tx_inflight counts the frames on the ring, those sent and the one being
\* posted, over ring stops that race send_frame()'s unlocked part.
TxInflightExact ==
  tx.inflight = tx.ring + tx.done + (IF pc["rx"] = "post" THEN 1 ELSE 0)

\* What connected_work, disconnect_work, rx_work and destroy_session() take of
\* the rings, the HopIDs and the pool of frames is given back once each,
\* although each of them works on it without the session lock.
PathBalanced == TypeOK /\ RingsBalanced /\ HopsBalanced /\ TxInflightExact

\* When the session is freed, its login, path and transmit works are neither
\* queued nor running: destroy_session() cancels each after what queues it.
WorksQuiet ==
  own = "freed" => \A w \in Works \ {"rx"} : ~pend[w] /\ pc[w] = "idle"

\* A peer's LOGIN leads to an enabled path, unless the peer logs out, the
\* session is removed or the retries are used up.
GaveUp == s.lretries > Retries \/ s.pretries > Retries
LoginLeadsToPath ==
  (s.rcvd /\ ~s.removing) ~> (s.enabled \/ ~s.rcvd \/ s.removing \/ GaveUp)
=============================================================================
