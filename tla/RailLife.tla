------------------------------ MODULE RailLife ------------------------------
(***************************************************************************)
(* The life of rails and of their ib_devices: service probe and removal    *)
(* (kernel/service.c, kernel/peer.c), publication and withdrawal of the    *)
(* per-rail ib_device (kernel/ibdev.c), the netdev notifier, the worker    *)
(* that publishes Apple rails, module init and exit (kernel/main.c).       *)
(*                                                                         *)
(* Threads: "work" and "hand" are native_work and the native packet        *)
(* handler, "apple" is apple_rail_work, "retry" is                         *)
(* ibdev_netdev_retry_work, "init" and "exit" are tbv_init() and           *)
(* tbv_exit().  Services are probed by themselves and removed one after    *)
(* the other, by the bus ("unplug") or by the driver's exit ("exit").  The *)
(* bring-up of native rails is in NativeControl, the quiesce of Apple      *)
(* rails in RailBind, the packet path Apple rails wait for in TbNet.       *)
(***************************************************************************)
EXTENDS Integers, FiniteSets

CONSTANTS Native,  \* rails of a native peer: the lanes of one link
          Apple,   \* rails of Apple peers
          Qps,     \* queue pairs
          Nobody,
          Confs    \* scenarios: what may happen, see Conf

Rails == Native \cup Apple
Threads == {"work", "hand", "apple", "retry", "init", "exit"}

ASSUME RailAssumption ==
  Native \cap Apple = {} /\ Nobody \notin Rails \cup Qps /\ IsFiniteSet(Qps)

\* rails: the services that appear; unplug: those that go away; qps: how many
\* queue pairs are created; netdev: a RoCE netdev is configured; nets, tbs,
\* fails: bounds on netdev changes, ThunderboltIP path changes and failures;
\* exit: the module is unloaded; appExits: the application destroys its queue
\* pairs; late: the exit may meet a rail at the very end of its removal.
Conf == [rails : SUBSET Rails, unplug : SUBSET Rails, qps : Nat, netdev : BOOLEAN,
         nets : Nat, tbs : Nat, fails : Nat, exit : BOOLEAN, appExits : BOOLEAN,
         late : BOOLEAN]
ASSUME ConfAssumption == Confs \subseteq Conf

VARIABLES
  conf,  \* the scenario, with what is left of its bounds
  rail,  \* struct tbv_rail
  svc,   \* how far probe or removal of the service is, and who removes it
  dev,   \* the rail's ib_device: registered or not, attached to the netdev
  qp,    \* the device a queue pair was created on and the rail it is pinned to
  act,   \* the threads: where they are and the rail they hold
  st,    \* register_enabled, services_registered, apple_rails_pending, notifier
  todo,  \* queued works: apple_rail_work, ibdev_netdev_retry_work
  net,   \* the RoCE netdev exists; a NETDEV_UNREGISTER is being delivered
  tb     \* the ThunderboltIP path is up; a readiness callback is under way

vars == <<conf, rail, svc, dev, qp, act, st, todo, net, tb>>

Idle == [pc |-> "idle", rail |-> Nobody]
NoQp == [st |-> "none", dev |-> Nobody, rail |-> Nobody]
NoRail == [listed |-> FALSE, removing |-> FALSE, refs |-> 0, path |-> "none", ready |-> FALSE,
           ibdev |-> FALSE, deferred |-> FALSE, failed |-> FALSE, quiesced |-> FALSE]
SvcPcs == {"absent", "added", "ringed", "bound", "quiesce", "down", "unreg", "cancel",
           "put", "wait", "unlink", "gone"}
ActPcs == {"idle", "up", "attach", "register", "defer", "put", "next", "tunnel", "failed",
           "scan", "latch", "services", "kick", "enable", "disable", "quiesce", "qput",
           "flush", "unreg", "take", "devgone", "flush2", "notifier", "detach", "cancel", "done"}

RailStates == [listed : BOOLEAN, removing : BOOLEAN, refs : Nat,
               path : {"none", "idle", "rings", "tunnel"}, ready : BOOLEAN, ibdev : BOOLEAN,
               deferred : BOOLEAN, failed : BOOLEAN, quiesced : BOOLEAN]
SvcStates == [pc : SvcPcs, by : {"nobody", "unplug", "exit"}]
DevStates == [st : {"none", "reg", "unreg"}, att : BOOLEAN]
QpStates == [st : {"none", "live", "dead"}, dev : Rails \cup {Nobody}, rail : Rails \cup {Nobody}]
ActStates == [pc : ActPcs, rail : Rails \cup {Nobody}]

TypeOK ==
  /\ conf \in Conf
  /\ rail \in [Rails -> RailStates] /\ svc \in [Rails -> SvcStates]
  /\ dev \in [Rails -> DevStates] /\ qp \in [Qps -> QpStates]
  /\ act \in [Threads -> ActStates]
  /\ st \in [enabled : BOOLEAN, services : BOOLEAN, pending : BOOLEAN, notifier : BOOLEAN]
  /\ todo \in [apple : BOOLEAN, retry : BOOLEAN]
  /\ net \in [exists : BOOLEAN, gone : BOOLEAN]
  /\ tb \in [up : BOOLEAN, kick : BOOLEAN]

\* tbv_init() has registered the service driver.
Init ==
  /\ conf \in Confs
  /\ rail = [r \in Rails |-> NoRail]
  /\ svc = [r \in Rails |-> [pc |-> "absent", by |-> "nobody"]]
  /\ dev = [r \in Rails |-> [st |-> "none", att |-> FALSE]]
  /\ qp = [q \in Qps |-> NoQp]
  /\ act = [t \in Threads |-> [pc |-> IF t = "init" THEN "services" ELSE "idle",
                               rail |-> Nobody]]
  /\ st = [enabled |-> FALSE, services |-> FALSE, pending |-> FALSE, notifier |-> FALSE]
  /\ todo = [apple |-> FALSE, retry |-> FALSE]
  /\ net = [exists |-> FALSE, gone |-> FALSE]
  /\ tb = [up |-> FALSE, kick |-> FALSE]

-----------------------------------------------------------------------------
(* Helpers.                                                                *)

Spend(what) == conf[what] > 0 /\ conf' = [conf EXCEPT ![what] = @ - 1]
At(t, p) == act[t].pc = p
Go(t, p) == act' = [act EXCEPT ![t].pc = p]
GoIdle(t) == act' = [act EXCEPT ![t] = Idle]

\* state->rail_register_lock is held over a step only while a device is being
\* registered.
Locked == \E t \in Threads : act[t].pc \in {"attach", "register", "defer"}

\* tbv_ibdev_rail_publish_ready_locked()
PublishReady(r) ==
  /\ rail[r].listed /\ ~rail[r].removing /\ rail[r].path = "tunnel"
  /\ IF r \in Native THEN rail[r].ready ELSE tb.up
\* tbv_service_next_pending_apple_rail(), tbv_service_has_pending_apple_rail_locked()
PendingApple == {r \in Apple : /\ rail[r].listed /\ ~rail[r].removing
                               /\ ~rail[r].ibdev /\ ~rail[r].failed /\ ~rail[r].deferred
                               /\ rail[r].path \in {"rings", "tunnel"}}
NetdevThere == ~conf.netdev \/ net.exists

\* A reference is taken under state->lock and the thread goes to p with it.
Pick(t, r, p) ==
  /\ rail' = [rail EXCEPT ![r].refs = @ + 1]
  /\ act' = [act EXCEPT ![t] = [pc |-> p, rail |-> r]]

-----------------------------------------------------------------------------
(* tbv_service_probe().                                                    *)

\* tbv_peer_get_or_create() and tbv_peer_add_rail()
ProbeAdd(r) ==
  /\ r \in conf.rails /\ svc[r].pc = "absent" /\ act["exit"].pc \notin {"detach", "cancel", "done"}
  /\ svc' = [svc EXCEPT ![r].pc = "added"]
  /\ rail' = [rail EXCEPT ![r] = [NoRail EXCEPT !.listed = TRUE, !.refs = 1, !.path = "idle"]]
  /\ UNCHANGED <<conf, dev, qp, act, st, todo, net, tb>>

\* tbv_path_alloc_rings() and tbv_path_start_rings()
ProbeRings(r) ==
  /\ svc[r].pc = "added" /\ svc' = [svc EXCEPT ![r].pc = "ringed"]
  /\ rail' = [rail EXCEPT ![r].path = "rings"]
  /\ UNCHANGED <<conf, dev, qp, act, st, todo, net, tb>>

\* They fail: the rail is removed again.
ProbeFails(r) ==
  /\ svc[r].pc = "added" /\ Spend("fails")
  /\ svc' = [svc EXCEPT ![r].pc = "quiesce"]
  /\ rail' = [rail EXCEPT ![r].removing = TRUE]
  /\ UNCHANGED <<dev, qp, act, st, todo, net, tb>>

\* Native: native_work is scheduled.  Apple: the rail is pending, and queued
\* now unless it has to wait for the ThunderboltIP path.
ProbeQueue(r) ==
  /\ svc[r].pc = "ringed" /\ svc' = [svc EXCEPT ![r].pc = "bound"]
  /\ st' = [st EXCEPT !.pending = @ \/ r \in Apple]
  /\ todo' = [todo EXCEPT !.apple = @ \/ (r \in Apple /\ tb.up)]
  /\ UNCHANGED <<conf, rail, dev, qp, act, net, tb>>

-----------------------------------------------------------------------------
(* tbv_ibdev_rail_event(..., true), by thread t with a reference.          *)

\* Variant: rail->removing is not checked again under the registration lock.
UpUnchecked(t) ==
  /\ At(t, "up") /\ ~Locked
  /\ LET r == act[t].rail
     IN Go(t, IF st.enabled /\ ~rail[r].ibdev /\ ~rail[r].failed /\ ~rail[r].deferred
                  /\ rail[r].path = "tunnel"
              THEN "attach" ELSE "put")
  /\ UNCHANGED <<conf, rail, svc, dev, qp, st, todo, net, tb>>

\* The gates, under rail_register_lock.
Up(t) ==
  /\ At(t, "up") /\ ~Locked
  /\ LET r == act[t].rail
     IN Go(t, IF st.enabled /\ ~rail[r].ibdev /\ ~rail[r].failed /\ ~rail[r].deferred
                  /\ PublishReady(r)
              THEN "attach" ELSE "put")
  /\ UNCHANGED <<conf, rail, svc, dev, qp, st, todo, net, tb>>

\* tbv_ibdev_attach_netdev()
Attach(t) ==
  /\ At(t, "attach")
  /\ Go(t, IF NetdevThere THEN "register" ELSE "defer")
  /\ dev' = [dev EXCEPT ![act[t].rail].att = NetdevThere /\ conf.netdev]
  /\ UNCHANGED <<conf, rail, svc, qp, st, todo, net, tb>>

\* ib_register_device()
Register(t) ==
  /\ At(t, "register") /\ Go(t, "put")
  /\ dev' = [dev EXCEPT ![act[t].rail].st = "reg"]
  /\ rail' = [rail EXCEPT ![act[t].rail].ibdev = TRUE, ![act[t].rail].deferred = FALSE]
  /\ UNCHANGED <<conf, svc, qp, st, todo, net, tb>>

\* Where a thread goes on whose event returned an error.
Failed(t) == IF t = "apple" THEN "failed" ELSE "put"

\* It fails for good: the rail is not tried again.
RegisterFails(t) ==
  /\ At(t, "register") /\ Spend("fails") /\ Go(t, Failed(t))
  /\ dev' = [dev EXCEPT ![act[t].rail].att = FALSE]
  /\ rail' = [rail EXCEPT ![act[t].rail].failed = TRUE, ![act[t].rail].deferred = FALSE]
  /\ UNCHANGED <<svc, qp, st, todo, net, tb>>

\* -EPROBE_DEFER: the netdev's notifier is to try again.
Defer(t) ==
  /\ At(t, "defer") /\ Go(t, Failed(t))
  /\ rail' = [rail EXCEPT ![act[t].rail].deferred = TRUE]
  /\ UNCHANGED <<conf, svc, dev, qp, st, todo, net, tb>>

PutNext(t) == CASE t \in {"work", "hand"} -> "idle"
                [] t = "apple" -> "next"
                [] t \in {"retry", "init"} -> "scan"
                [] t = "exit" -> "unreg"

\* Variant: the reference is not given back.
PutKeeps(t) ==
  /\ At(t, "put")
  /\ act' = [act EXCEPT ![t] = [pc |-> PutNext(t), rail |-> Nobody]]
  /\ UNCHANGED <<conf, rail, svc, dev, qp, st, todo, net, tb>>

\* tbv_rail_put(), and what the thread does next.
Put(t) ==
  /\ At(t, "put")
  /\ rail' = [rail EXCEPT ![act[t].rail].refs = @ - 1]
  /\ act' = [act EXCEPT ![t] = [pc |-> PutNext(t), rail |-> Nobody]]
  /\ UNCHANGED <<conf, svc, dev, qp, st, todo, net, tb>>

-----------------------------------------------------------------------------
(* Who calls it.                                                           *)

\* A native rail gets its tunnel (native_work) or its READYs (native_work, or
\* the packet handler): data-ready, it is published by whoever completed it.
NativeEdge(t, r, tunnel) ==
  /\ t \in {"work", "hand"} /\ r \in Native /\ At(t, "idle") /\ rail[r].listed
  /\ IF tunnel
     THEN t = "work" /\ rail[r].path = "rings"
          /\ svc[r].pc \in {"bound", "quiesce", "down", "unreg", "cancel"}
     ELSE ~rail[r].ready /\ (t = "hand" \/ svc[r].pc \in {"bound", "quiesce", "down", "unreg",
                                                          "cancel"})
  /\ LET now == [rail[r] EXCEPT !.path = IF tunnel THEN "tunnel" ELSE @, !.ready = ~tunnel \/ @]
         go == now.path = "tunnel" /\ now.ready /\ ~now.removing
     IN /\ rail' = [rail EXCEPT ![r] = [now EXCEPT !.refs = IF go THEN @ + 1 ELSE @]]
        /\ act' = IF go THEN [act EXCEPT ![t] = [pc |-> "up", rail |-> r]] ELSE act
  /\ UNCHANGED <<conf, svc, dev, qp, st, todo, net, tb>>

\* tbv_service_apple_rail_work()
AppleStart ==
  /\ At("apple", "idle") /\ todo.apple /\ todo' = [todo EXCEPT !.apple = FALSE]
  /\ IF st.services /\ tb.up THEN Go("apple", "next") ELSE UNCHANGED act
  /\ UNCHANGED <<conf, rail, svc, dev, qp, st, net, tb>>

AppleNext ==
  /\ At("apple", "next")
  /\ IF PendingApple # {} /\ tb.up
     THEN (\E r \in PendingApple : Pick("apple", r, "tunnel")) /\ UNCHANGED st
     ELSE GoIdle("apple") /\ st' = [st EXCEPT !.pending = PendingApple # {}] /\ UNCHANGED rail
  /\ UNCHANGED <<conf, svc, dev, qp, todo, net, tb>>

\* tbv_service_enable_apple_rail_tunnel()
AppleTunnel ==
  /\ At("apple", "tunnel")
  /\ LET r == act["apple"].rail
         ok == ~rail[r].removing /\ rail[r].path \in {"rings", "tunnel"}
     IN /\ Go("apple", IF ok THEN "up" ELSE "failed")
        /\ rail' = IF ok THEN [rail EXCEPT ![r].path = "tunnel"] ELSE rail
  /\ UNCHANGED <<conf, svc, dev, qp, st, todo, net, tb>>

AppleTunnelFails ==
  /\ At("apple", "tunnel") /\ rail[act["apple"].rail].path = "rings" /\ Spend("fails")
  /\ Go("apple", "failed")
  /\ UNCHANGED <<rail, svc, dev, qp, st, todo, net, tb>>

\* The error exit: queued again after a delay while a rail is pending.
AppleFailed ==
  /\ At("apple", "failed") /\ GoIdle("apple")
  /\ st' = [st EXCEPT !.pending = PendingApple # {}]
  /\ todo' = [todo EXCEPT !.apple = @ \/ PendingApple # {}]
  /\ rail' = [rail EXCEPT ![act["apple"].rail].refs = @ - 1]
  /\ UNCHANGED <<conf, svc, dev, qp, net, tb>>

\* tbv_ibdev_netdev_retry_work()
RetryStart ==
  /\ At("retry", "idle") /\ todo.retry /\ todo' = [todo EXCEPT !.retry = FALSE]
  /\ Go("retry", "scan")
  /\ UNCHANGED <<conf, rail, svc, dev, qp, st, net, tb>>

Retriable == {r \in Rails : /\ rail[r].deferred /\ ~rail[r].ibdev /\ ~rail[r].failed
                            /\ NetdevThere /\ PublishReady(r)}
RetryScan ==
  /\ At("retry", "scan")
  /\ IF Retriable # {} THEN \E r \in Retriable : Pick("retry", r, "latch")
     ELSE GoIdle("retry") /\ UNCHANGED rail
  /\ UNCHANGED <<conf, svc, dev, qp, st, todo, net, tb>>

\* The latch is cleared before the event is replayed.
RetryLatch ==
  /\ At("retry", "latch") /\ ~Locked
  /\ LET r == act["retry"].rail
         go == rail[r].deferred /\ ~rail[r].ibdev /\ ~rail[r].failed
     IN /\ Go("retry", IF go THEN "up" ELSE "put")
        /\ rail' = [rail EXCEPT ![r].deferred = IF go THEN FALSE ELSE @]
  /\ UNCHANGED <<conf, svc, dev, qp, st, todo, net, tb>>

-----------------------------------------------------------------------------
(* tbv_init(): the end of tbv_services_start(), then tbv_ibdev_start().    *)

InitServices ==
  /\ At("init", "services") /\ Go("init", "kick")
  /\ st' = [st EXCEPT !.services = TRUE]
  /\ UNCHANGED <<conf, rail, svc, dev, qp, todo, net, tb>>

InitKick ==
  /\ At("init", "kick") /\ Go("init", "enable")
  /\ todo' = [todo EXCEPT !.apple = @ \/ st.pending \/ tb.up]
  /\ UNCHANGED <<conf, rail, svc, dev, qp, st, net, tb>>

InitEnable ==
  /\ At("init", "enable") /\ ~Locked /\ Go("init", "scan")
  /\ st' = [st EXCEPT !.enabled = TRUE, !.notifier = TRUE]
  /\ UNCHANGED <<conf, rail, svc, dev, qp, todo, net, tb>>

\* The rails that became ready before: their edges are replayed.
Missed == {r \in Rails : /\ ~rail[r].ibdev /\ ~rail[r].failed /\ ~rail[r].deferred
                         /\ PublishReady(r)}
\* Variant: no catch-up.
InitScanNone ==
  /\ At("init", "scan") /\ Go("init", "done")
  /\ UNCHANGED <<conf, rail, svc, dev, qp, st, todo, net, tb>>

InitScan ==
  /\ At("init", "scan")
  /\ IF Missed # {} THEN \E r \in Missed : Pick("init", r, "up")
     ELSE Go("init", "done") /\ UNCHANGED rail
  /\ UNCHANGED <<conf, svc, dev, qp, st, todo, net, tb>>

-----------------------------------------------------------------------------
(* Withdrawal: tbv_ibdev_rail_event(..., false) and queue pairs.           *)

\* rail->ibdev is taken under the lock, so one caller withdraws it.
Withdraw(r) ==
  /\ ~Locked
  /\ rail' = [rail EXCEPT ![r].ibdev = FALSE, ![r].deferred = FALSE]
  /\ dev' = IF rail[r].ibdev THEN [dev EXCEPT ![r] = [st |-> "unreg", att |-> FALSE]] ELSE dev

QpsOn(r) == {q \in Qps : qp[q].st = "live" /\ qp[q].rail = r}

\* tbv_create_qp(): a native queue pair is pinned to the least loaded rail of
\* the device's peer (tbv_select_qp_rail_locked()), an Apple one to its own.
Selectable(d) ==
  IF rail[d].removing THEN {}
  ELSE IF d \in Apple THEN {r \in {d} : PublishReady(r)}
  ELSE LET ok == {r \in Native : PublishReady(r) /\ rail[r].ibdev}
       IN {r \in ok : \A o \in ok : Cardinality(QpsOn(r)) <= Cardinality(QpsOn(o))}
CreateQp(q) ==
  /\ qp[q].st = "none" /\ conf.qps > 0
  /\ \E d \in Rails : dev[d].st = "reg" /\ \E r \in Selectable(d) :
       /\ qp' = [qp EXCEPT ![q] = [st |-> "live", dev |-> d, rail |-> r]]
       /\ rail' = [rail EXCEPT ![r].refs = @ + 1]
  /\ conf' = [conf EXCEPT !.qps = @ - 1]
  /\ UNCHANGED <<svc, dev, act, st, todo, net, tb>>

\* Variant: a destroyed queue pair stays pinned to its rail.
FreeQpPinned(q) ==
  /\ qp[q].st = "live"
  /\ qp' = [qp EXCEPT ![q].st = "dead"]
  /\ UNCHANGED <<conf, rail, svc, dev, act, st, todo, net, tb>>

\* tbv_qp_unbind_rail() at the end of tbv_destroy_qp().
FreeQp(q) ==
  /\ qp[q].st = "live"
  /\ qp' = [qp EXCEPT ![q].st = "dead"]
  /\ rail' = [rail EXCEPT ![qp[q].rail].refs = @ - 1]
  /\ UNCHANGED <<conf, svc, dev, act, st, todo, net, tb>>

\* Only the application destroys its queue pairs, with ibv_destroy_qp() or by
\* closing its context.
DestroyQp(q) == conf.appExits /\ FreeQp(q)

\* ib_unregister_device() returns when the device has no queue pair left.
\* tbv_ibdev_ops sets no disassociate_ucontext(), so the RDMA core waits until
\* the applications have closed their contexts and destroys nothing itself.
UnregisterDone(r) ==
  /\ dev[r].st = "unreg" /\ ~\E q \in Qps : qp[q].st = "live" /\ qp[q].dev = r
  /\ dev' = [dev EXCEPT ![r].st = "none"]
  /\ UNCHANGED <<conf, rail, svc, qp, act, st, todo, net, tb>>

-----------------------------------------------------------------------------
(* tbv_service_remove(): tbv_peer_remove_rail().                           *)

Removing(by) == {r \in Rails : svc[r].by = by /\ svc[r].pc # "gone"}
RemoveMark(r, by) ==
  /\ svc[r].pc = "bound" /\ Removing(by) = {}
  /\ IF by = "exit" THEN At("exit", "detach") ELSE r \in conf.unplug
  /\ svc' = [svc EXCEPT ![r] = [pc |-> "quiesce", by |-> by]]
  /\ rail' = [rail EXCEPT ![r].removing = TRUE]
  /\ UNCHANGED <<conf, dev, qp, act, st, todo, net, tb>>

\* tbv_apple_path_quiesce(), see RailBind
RemoveQuiesce(r) ==
  /\ svc[r].pc = "quiesce" /\ svc' = [svc EXCEPT ![r].pc = "down"]
  /\ UNCHANGED <<conf, rail, dev, qp, act, st, todo, net, tb>>

RemoveDown(r) ==
  /\ svc[r].pc = "down" /\ Withdraw(r)
  /\ svc' = [svc EXCEPT ![r].pc = IF rail[r].ibdev THEN "unreg" ELSE "cancel"]
  /\ UNCHANGED <<conf, qp, act, st, todo, net, tb>>

RemoveUnregistered(r) ==
  /\ svc[r].pc = "unreg" /\ dev[r].st = "none"
  /\ svc' = [svc EXCEPT ![r].pc = "cancel"]
  /\ UNCHANGED <<conf, rail, dev, qp, act, st, todo, net, tb>>

\* tbv_native_control_cancel_rail() waits for native_work.
RemoveCancel(r) ==
  /\ svc[r].pc = "cancel" /\ act["work"].rail # r
  /\ svc' = [svc EXCEPT ![r].pc = "put"]
  /\ UNCHANGED <<conf, rail, dev, qp, act, st, todo, net, tb>>

RemovePut(r) ==
  /\ svc[r].pc = "put" /\ svc' = [svc EXCEPT ![r].pc = "wait"]
  /\ rail' = [rail EXCEPT ![r].refs = @ - 1]
  /\ UNCHANGED <<conf, dev, qp, act, st, todo, net, tb>>

\* wait_for_completion(&rail->refs_zero)
RemoveWait(r) ==
  /\ svc[r].pc = "wait" /\ rail[r].refs = 0 /\ svc' = [svc EXCEPT ![r].pc = "unlink"]
  /\ UNCHANGED <<conf, rail, dev, qp, act, st, todo, net, tb>>

\* The rail leaves peer->rails; path and rail are freed, tbv_peer_put().
RemoveFree(r) ==
  /\ svc[r].pc = "unlink" /\ svc' = [svc EXCEPT ![r].pc = "gone"]
  /\ rail' = [rail EXCEPT ![r] = NoRail]
  /\ st' = [st EXCEPT !.pending = IF r \in Apple THEN PendingApple \ {r} # {} ELSE @]
  /\ UNCHANGED <<conf, dev, qp, act, todo, net, tb>>

-----------------------------------------------------------------------------
(* tbv_exit(): tbv_ibdev_stop(), then tbv_services_stop().                 *)

ExitStart ==
  /\ conf.exit /\ At("exit", "idle") /\ At("init", "done") /\ Go("exit", "disable")
  /\ UNCHANGED <<conf, rail, svc, dev, qp, st, todo, net, tb>>

ExitDisable ==
  /\ At("exit", "disable") /\ ~Locked /\ Go("exit", "quiesce")
  /\ st' = [st EXCEPT !.enabled = FALSE]
  /\ UNCHANGED <<conf, rail, svc, dev, qp, todo, net, tb>>

\* tbv_ibdev_quiesce_all_rails(): every rail on a list, whether it is being
\* removed or not, even if its last reference is gone.
Unquiesced == {r \in Rails : rail[r].listed /\ ~rail[r].quiesced}
ExitQuiesce ==
  /\ At("exit", "quiesce")
  /\ IF Unquiesced = {} THEN Go("exit", "flush") /\ UNCHANGED rail
     ELSE \E r \in Unquiesced :
            /\ rail[r].refs > 0 \/ conf.late
            /\ act' = [act EXCEPT !["exit"] = [pc |-> "qput", rail |-> r]]
            /\ rail' = [rail EXCEPT ![r].quiesced = TRUE, ![r].refs = @ + 1]
  /\ UNCHANGED <<conf, svc, dev, qp, st, todo, net, tb>>

ExitQuiesced ==
  /\ At("exit", "qput")
  /\ act' = [act EXCEPT !["exit"] = [pc |-> "quiesce", rail |-> Nobody]]
  /\ rail' = [rail EXCEPT ![act["exit"].rail].refs = @ - 1]
  /\ UNCHANGED <<conf, svc, dev, qp, st, todo, net, tb>>

\* flush_workqueue()
ExitFlush ==
  /\ act["exit"].pc \in {"flush", "flush2"} /\ At("retry", "idle") /\ ~todo.retry
  /\ Go("exit", IF At("exit", "flush") THEN "unreg" ELSE "notifier")
  /\ UNCHANGED <<conf, rail, svc, dev, qp, st, todo, net, tb>>

\* The devices still published are withdrawn one after the other.
ExitUnregister ==
  /\ At("exit", "unreg")
  /\ LET left == {r \in Rails : rail[r].listed /\ rail[r].ibdev}
     IN IF left = {} THEN Go("exit", "flush2") /\ UNCHANGED rail
        ELSE \E r \in left : Pick("exit", r, "take")
  /\ UNCHANGED <<conf, svc, dev, qp, st, todo, net, tb>>

ExitTake ==
  /\ At("exit", "take") /\ Withdraw(act["exit"].rail)
  /\ Go("exit", IF rail[act["exit"].rail].ibdev THEN "devgone" ELSE "put")
  /\ UNCHANGED <<conf, svc, qp, st, todo, net, tb>>

ExitUnregistered ==
  /\ At("exit", "devgone") /\ dev[act["exit"].rail].st = "none" /\ Go("exit", "put")
  /\ UNCHANGED <<conf, rail, svc, dev, qp, st, todo, net, tb>>

\* The notifier is unregistered, its work cancelled.
ExitNotifier ==
  /\ At("exit", "notifier") /\ At("retry", "idle") /\ Go("exit", "detach")
  /\ st' = [st EXCEPT !.notifier = FALSE] /\ todo' = [todo EXCEPT !.retry = FALSE]
  /\ UNCHANGED <<conf, rail, svc, dev, qp, net, tb>>

\* tb_unregister_service_driver() has removed every service.
ExitDetached ==
  /\ At("exit", "detach") /\ \A r \in Rails : svc[r].pc \in {"absent", "gone"}
  /\ Go("exit", "cancel") /\ st' = [st EXCEPT !.services = FALSE]
  /\ UNCHANGED <<conf, rail, svc, dev, qp, todo, net, tb>>

ExitCancel ==
  /\ At("exit", "cancel") /\ At("apple", "idle") /\ Go("exit", "done")
  /\ todo' = [todo EXCEPT !.apple = FALSE] /\ st' = [st EXCEPT !.pending = FALSE]
  /\ UNCHANGED <<conf, rail, svc, dev, qp, net, tb>>

-----------------------------------------------------------------------------
(* The RoCE netdev and the ThunderboltIP path.                             *)

\* tbv_ibdev_netdev_event(): NETDEV_REGISTER queues the retry ...
NetRegister ==
  /\ conf.netdev /\ ~net.exists /\ ~net.gone /\ Spend("nets")
  /\ net' = [net EXCEPT !.exists = TRUE]
  /\ todo' = [todo EXCEPT !.retry = @ \/ st.notifier]
  /\ UNCHANGED <<rail, svc, dev, qp, act, st, tb>>

NetUnregister ==
  /\ net.exists /\ Spend("nets") /\ net' = [exists |-> FALSE, gone |-> st.notifier]
  /\ UNCHANGED <<rail, svc, dev, qp, act, st, todo, tb>>

\* Variant: the devices are detached without the registration lock.
NetDetachUnlocked ==
  /\ net.gone /\ net' = [net EXCEPT !.gone = FALSE]
  /\ dev' = [r \in Rails |-> IF rail[r].ibdev THEN [dev[r] EXCEPT !.att = FALSE] ELSE dev[r]]
  /\ UNCHANGED <<conf, rail, svc, qp, act, st, todo, tb>>

\* ... NETDEV_UNREGISTER detaches the devices that use the netdev
\* (tbv_ibdev_detach_matching_netdev()).
NetDetach ==
  /\ net.gone /\ ~Locked /\ net' = [net EXCEPT !.gone = FALSE]
  /\ dev' = [r \in Rails |-> IF rail[r].ibdev THEN [dev[r] EXCEPT !.att = FALSE] ELSE dev[r]]
  /\ UNCHANGED <<conf, rail, svc, qp, act, st, todo, tb>>

\* path_enabled of a TbNet session, and the recompute that tells the services.
TbChange ==
  /\ Spend("tbs") /\ tb' = [up |-> ~tb.up, kick |-> tb.kick \/ ~tb.up]
  /\ UNCHANGED <<rail, svc, dev, qp, act, st, todo, net>>

\* tbv_services_tbnet_identity_ready()
TbReady ==
  /\ tb.kick /\ tb' = [tb EXCEPT !.kick = FALSE]
  /\ todo' = [todo EXCEPT !.apple = @ \/ (st.services /\ tb.up)]
  /\ UNCHANGED <<conf, rail, svc, dev, qp, act, st, net>>

-----------------------------------------------------------------------------
Probe(r) == ProbeAdd(r) \/ ProbeRings(r) \/ ProbeFails(r) \/ ProbeQueue(r)
Publish(t) == Up(t) \/ Attach(t) \/ Register(t) \/ RegisterFails(t) \/ Defer(t) \/ Put(t)
AppleWork == AppleStart \/ AppleNext \/ AppleTunnel \/ AppleTunnelFails \/ AppleFailed
RetryWork == RetryStart \/ RetryScan \/ RetryLatch
ModuleInit == InitServices \/ InitKick \/ InitEnable \/ InitScan
Remove(r) ==
  \/ RemoveQuiesce(r) \/ RemoveDown(r) \/ RemoveUnregistered(r) \/ RemoveCancel(r)
  \/ RemovePut(r) \/ RemoveWait(r) \/ RemoveFree(r)
ModuleExit ==
  \/ ExitDisable \/ ExitQuiesce \/ ExitQuiesced \/ ExitFlush \/ ExitUnregister \/ ExitTake
  \/ ExitUnregistered \/ ExitNotifier \/ ExitDetached \/ ExitCancel
Unregister == \E r \in Rails : UnregisterDone(r)

Next ==
  \/ \E r \in Rails : Probe(r) \/ Remove(r)
  \/ \E r \in Rails, by \in {"unplug", "exit"} : RemoveMark(r, by)
  \/ \E t \in Threads : Publish(t)
  \/ \E t \in Threads, r \in Native, tunnel \in BOOLEAN : NativeEdge(t, r, tunnel)
  \/ AppleWork \/ RetryWork \/ ModuleInit \/ ExitStart \/ ModuleExit
  \/ \E q \in Qps : CreateQp(q) \/ DestroyQp(q)
  \/ Unregister
  \/ NetRegister \/ NetUnregister \/ NetDetach \/ TbChange \/ TbReady

Spec == Init /\ [][Next]_vars
\* Threads and works run on; a removal that was begun goes on, and the exit's
\* removes every service.  The application destroys its queue pairs only where
\* the scenario says so.
Fairness ==
  /\ WF_vars(Publish("work")) /\ WF_vars(Publish("hand"))
  /\ WF_vars(Publish("apple") \/ AppleWork) /\ WF_vars(Publish("retry") \/ RetryWork)
  /\ WF_vars(Publish("init") \/ ModuleInit)
  /\ WF_vars(Publish("exit") \/ ModuleExit \/ \E r \in Rails : RemoveMark(r, "exit"))
  /\ \A r \in Rails : WF_vars(Probe(r) \/ Remove(r))
  /\ WF_vars(Unregister) /\ WF_vars(NetDetach) /\ WF_vars(TbReady)
  /\ WF_vars(\E q \in Qps : DestroyQp(q))
FairSpec == Spec /\ Fairness

-----------------------------------------------------------------------------
(* Properties.                                                             *)

Holders(r) == {t \in Threads : act[t].rail = r}

\* A rail's reference count is its own reference, one per thread that works
\* on it and one per queue pair pinned to it, through every race of probe,
\* publication, removal and exit: refs_zero comes neither early nor never.
RefsExact ==
  \A r \in Rails : rail[r].listed =>
    rail[r].refs = (IF svc[r].pc \in {"wait", "unlink"} THEN 0 ELSE 1)
                     + Cardinality(Holders(r)) + Cardinality(QpsOn(r))

\* When tbv_peer_remove_rail() frees the rail nobody uses it any more, as its
\* comment says: no thread holds it, no queue pair is pinned to it.
SafeToFree ==
  \A r \in Rails : svc[r].pc = "gone" => Holders(r) = {} /\ QpsOn(r) = {}

\* References are counted exactly, so that a rail is freed when, and only when,
\* nobody uses it.
RailRefsSafe == TypeOK /\ RefsExact /\ SafeToFree

\* An ib_device never outlives its rail: the up-event that races the removal
\* either sees rail->removing or has its device withdrawn.
DeviceHasRail ==
  \A r \in Rails : dev[r].st # "none" => rail[r].listed

\* Once tbv_ibdev_stop() has withdrawn the devices none is registered again.
NoDeviceAfterStop ==
  act["exit"].pc \in {"flush2", "notifier", "detach", "cancel", "done"} =>
    \A r \in Rails : dev[r].st # "reg"

\* Neither a removal nor the module's exit leaves a device behind.
DevicesFollowRails == DeviceHasRail /\ NoDeviceAfterStop

\* When the netdev is gone and its notifier has run, no published device is
\* attached to it, whatever registration was under way.
NetdevReleased ==
  ~net.exists /\ ~net.gone /\ st.notifier => \A r \in Rails : rail[r].ibdev => ~dev[r].att

\* A rail that can be published is, or it is deferred, failed or withdrawn: no
\* edge is lost between probe, the ThunderboltIP path's readiness, module init
\* and the retries.
Publishable(r) ==
  /\ st.enabled /\ rail[r].listed /\ ~rail[r].removing
  /\ IF r \in Native THEN rail[r].path = "tunnel" /\ rail[r].ready
     ELSE rail[r].path \in {"rings", "tunnel"} /\ tb.up
ReadyIsPublished ==
  \A r \in Rails :
    Publishable(r) ~> (rail[r].ibdev \/ rail[r].failed \/ rail[r].deferred \/ ~Publishable(r))

\* Removal of a rail terminates, if the applications destroy their queue pairs.
RemovalTerminates == \A r \in Rails : (svc[r].pc = "quiesce") ~> (svc[r].pc = "gone")

\* Module exit terminates, and with it the wait for every worker.
ExitTerminates == At("exit", "disable") ~> At("exit", "done")

\* Neither teardown waits for ever, for one another or for a reference that
\* nobody gives back, once the applications have let go of their queue pairs.
TeardownTerminates == RemovalTerminates /\ ExitTerminates

\* After ib_unregister_device() no queue pair keeps the rail: the wait for
\* refs_zero in tbv_peer_remove_rail() ends without help of an application.
WaitTerminates == \A r \in Rails : (svc[r].pc = "wait") ~> (svc[r].pc = "gone")
=============================================================================
