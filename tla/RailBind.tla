------------------------------ MODULE RailBind ------------------------------
(***************************************************************************)
(* The binding of an Apple queue pair to its rail (kernel/ibdev.c): the    *)
(* epochs of struct tbv_rail_bind, create, modify and destroy of the queue *)
(* pair, and tbv_apple_path_quiesce(), the retirement of everything the    *)
(* epoch has in flight, entered by destroy, by modify, by the transmit     *)
(* watchdog, by rail removal and by module exit.                           *)
(*                                                                         *)
(* There is one Apple queue pair at a time: tbv_alloc_qpn() draws its      *)
(* number from a range of one.  qp.inc counts the queue pairs created, and *)
(* names the one bind.qp points to.                                        *)
(***************************************************************************)
EXTENDS AppleTx

VARIABLES
  rail,    \* struct tbv_rail_bind, and the path and rail flags it depends on
  qz,      \* the quiesce that holds rail->quiesce_lock
  user,    \* the thread in create, modify or destroy
  wd,      \* tbv_path_tx_watchdog_work()
  rm       \* rail removal or module exit

NoQp == [inc |-> 0, st |-> "NONE", closing |-> FALSE, bound |-> FALSE, ep |-> 0,
         tun |-> FALSE]
RailInit ==
  [st |-> "UNBOUND", qp |-> 0, ep |-> 0, remote |-> 0, noisy |-> FALSE,
   err |-> FALSE, closed |-> FALSE, stopped |-> FALSE, removing |-> FALSE,
   reg |-> TRUE, tunqps |-> 0]
IdleQz == [pc |-> "idle", by |-> "none", owner |-> 0, ref |-> FALSE,
           wasq |-> FALSE, barrier |-> FALSE, restart |-> FALSE, err |-> FALSE]
IdleUser == [pc |-> "idle", next |-> "NONE", remote |-> 0, got |-> FALSE]
IdleThread == [pc |-> "idle", n |-> 0]

Exists == qp.st # "NONE"
Live == Exists /\ ~qp.closing
txVars == <<conf, tx, wk, kicked, poster, timer, freed>>

\* tbv_rail_apple_bound_to()
BoundTo == rail.st = "BOUND" /\ rail.qp = qp.inc /\ rail.ep = qp.ep

-----------------------------------------------------------------------------
(* create_qp and modify_qp.                                                *)
CreateQp ==
  /\ user.pc = "idle" /\ ~Exists /\ qp.inc < conf.qps
  /\ ~rail.removing /\ rail.reg /\ rail.st # "QUIESCING"
  /\ qp' = [NoQp EXCEPT !.inc = qp.inc + 1, !.st = "RESET"]
  /\ tx' = [tx EXCEPT !.wrs = 0, !.frm = 0, !.out = 0]
  /\ UNCHANGED <<conf, wk, kicked, poster, timer, freed, rail, qz, user, wd, rm>>

\* tbv_qp_ensure_apple_tunnel()
EnsureTunnel(R) == [R EXCEPT !.tunqps = IF qp.tun THEN @ ELSE @ + 1]

\* A transition into RTR or RTS takes the tunnel first, unless it has it.
ModifyUp(next, remote) ==
  /\ user.pc = "idle" /\ Live /\ (qp.tun \/ ~rail.removing)
  /\ <<qp.st, next>> \in {<<"RESET", "RTR">>, <<"RTR", "RTS">>}
  /\ next = "RTR" => qp.bound \/ rail.ep < conf.eps
  /\ user' = [pc |-> "bind", next |-> next, remote |-> remote, got |-> ~qp.tun]
  /\ qp' = [qp EXCEPT !.tun = TRUE]
  /\ rail' = EnsureTunnel(rail)
  /\ UNCHANGED <<txVars, qz, wd, rm>>

ReleaseTunnel(R, got) == [R EXCEPT !.tunqps = IF got THEN @ - 1 ELSE @]

\* Nothing arrived since the barrier and nothing is left of the last teardown.
Silent == ~rail.noisy /\ tx.ring = <<>> /\ ~rail.stopped /\ ~rail.err

\* tbv_rail_apple_admit_locked(): unbound, or quarantined, silent and with a
\* peer session that names its queue pair.
Admitted(known) ==
  /\ ~rail.removing
  /\ \/ rail.st = "UNBOUND"
     \/ rail.st = "QUARANTINED" /\ known /\ Silent

\* tbv_qp_apple_bind_rail(): the epoch that owns the rail is validated again,
\* a new one is admitted; a refused quarantined rail re-arms its mark.
Bind ==
  LET known == user.next = "RTR"
      keep == BoundTo /\ (known => rail.remote \in {0, user.remote})
      rearm == ~qp.bound /\ known /\ ~rail.removing /\ rail.st = "QUARANTINED"
  IN
  /\ user.pc = "bind"
  /\ \/ /\ qp.bound /\ keep
        /\ rail' = IF known THEN [rail EXCEPT !.remote = user.remote] ELSE rail
        /\ user' = [user EXCEPT !.pc = "commit"]
        /\ UNCHANGED qp
     \/ /\ ~qp.bound /\ Admitted(known)
        /\ rail' = [rail EXCEPT !.st = "BOUND", !.qp = qp.inc, !.ep = @ + 1,
                      !.remote = IF known THEN user.remote ELSE 0,
                      !.closed = @ /\ rail.st # "QUARANTINED"]
        /\ qp' = [qp EXCEPT !.bound = TRUE, !.ep = rail.ep + 1]
        /\ user' = [user EXCEPT !.pc = "commit"]
     \/ /\ ~(IF qp.bound THEN keep ELSE Admitted(known))
        /\ rail' = [ReleaseTunnel(rail, user.got) EXCEPT !.noisy = @ /\ ~rearm]
        /\ qp' = [qp EXCEPT !.tun = @ /\ ~user.got]
        /\ user' = IdleUser
  /\ UNCHANGED <<txVars, qz, wd, rm>>

\* The transition is validated again under tqp->lock and committed.
Commit ==
  LET ok == <<qp.st, user.next>> \in {<<"RESET", "RTR">>, <<"RTR", "RTS">>} IN
  /\ user.pc = "commit"
  /\ user' = IdleUser
  /\ qp' = IF ok THEN [qp EXCEPT !.st = user.next]
           ELSE [qp EXCEPT !.tun = @ /\ ~user.got]
  /\ rail' = IF ok THEN rail ELSE ReleaseTunnel(rail, user.got)
  /\ UNCHANGED <<txVars, qz, wd, rm>>

\* Leaving the transport states flushes, joins the worker and quiesces; any
\* other way into ERR only flushes.
ModifyDown(next) ==
  /\ user.pc = "idle" /\ Live /\ qp.st # next
  /\ qp.st = "ERR" /\ qp.bound => conf.recycle
  /\ qp' = [qp EXCEPT !.st = next]
  /\ user' = [IdleUser EXCEPT !.next = next, !.got = UsesTransport(qp.st),
                !.pc = IF UsesTransport(qp.st) \/ next = "ERR" THEN "flush" ELSE "idle"]
  /\ UNCHANGED <<txVars, rail, qz, wd, rm>>

ModifyFlushed == user' = IF user.got THEN [user EXCEPT !.pc = "join"] ELSE IdleUser
\* Variant: the binding is released without a quiesce.
ModifyJoinOnly ==
  /\ user.pc = "join" /\ wk.pc = "idle" /\ ~kicked
  /\ user' = [user EXCEPT !.pc = "end"]
  /\ UNCHANGED <<txVars, qp, rail, qz, wd, rm>>
ModifyJoin ==
  /\ user.pc = "join" /\ wk.pc = "idle" /\ ~kicked
  /\ user' = [user EXCEPT !.pc = "quiesce"]
  /\ UNCHANGED <<txVars, qp, rail, qz, wd, rm>>

\* After the quiesce: unbind what is left of the binding, release the tunnel.
ModifyEnd ==
  /\ user.pc = "end"
  /\ user' = IdleUser
  /\ rail' = [ReleaseTunnel(rail, qp.tun) EXCEPT
                !.qp = IF qp.bound /\ @ = qp.inc THEN 0 ELSE @,
                !.st = IF qp.bound /\ rail.qp = qp.inc /\ @ = "BOUND" THEN "UNBOUND" ELSE @]
  /\ qp' = [qp EXCEPT !.bound = FALSE, !.tun = FALSE]
  /\ UNCHANGED <<txVars, qz, wd, rm>>

-----------------------------------------------------------------------------
(* destroy_qp.  The core holds the object exclusively: no post is running. *)
DestroyQp ==
  /\ user.pc = "idle" /\ Exists /\ poster.pc = "idle"
  /\ qp' = [qp EXCEPT !.closing = TRUE]
  /\ user' = [IdleUser EXCEPT !.pc = "quiesce", !.next = "NONE"]
  /\ UNCHANGED <<txVars, rail, qz, wd, rm>>

\* The number is erased, the last references are gone, the binding with them.
DestroyFree(others) ==
  /\ user.pc = "free" /\ Contexts(qp.inc) = {} /\ ~others
  /\ user' = IdleUser
  /\ rail' = [ReleaseTunnel(rail, qp.tun) EXCEPT
                !.qp = IF qp.bound /\ @ = qp.inc THEN 0 ELSE @]
  /\ qp' = [NoQp EXCEPT !.inc = qp.inc]
  /\ UNCHANGED <<txVars, qz, wd, rm>>

-----------------------------------------------------------------------------
(* The threads that quiesce a rail without naming a queue pair.            *)

\* T3 of the watchdog: descriptors outstanding, nothing retired, path open.
WatchdogFail ==
  /\ wd.pc = "idle" /\ wd.n < conf.stalls /\ tx.ring # <<>> /\ ~rail.closed
  /\ wd' = [pc |-> "quiesce", n |-> wd.n + 1]
  /\ UNCHANGED <<txVars, qp, rail, qz, user, rm>>

\* tbv_peer_remove_rail() marks the rail, tbv_ibdev_stop() the device.
RemoveStart(how) ==
  /\ rm.pc = "idle" /\ rm.n = 0 /\ how \in conf.ends
  /\ rm' = [pc |-> "quiesce", n |-> 1]
  /\ rail' = IF how = "remove" THEN [rail EXCEPT !.removing = TRUE]
             ELSE [rail EXCEPT !.reg = FALSE]
  /\ UNCHANGED <<txVars, qp, qz, user, wd>>

-----------------------------------------------------------------------------
(* tbv_apple_path_quiesce().                                               *)
Waiting(t) ==
  CASE t = "user" -> user.pc = "quiesce"
    [] t = "wd" -> wd.pc = "quiesce"
    [] t = "rm" -> rm.pc = "quiesce"
SetPc(t, pc) ==
  /\ user' = IF t = "user" THEN [user EXCEPT !.pc = pc] ELSE user
  /\ wd' = IF t = "wd" THEN [wd EXCEPT !.pc = pc] ELSE wd
  /\ rm' = IF t = "rm" THEN [rm EXCEPT !.pc = pc] ELSE rm

\* 1. Admission and successor binding are closed; a live bound queue pair is
\* taken over by a caller that named none.
QClose(t) ==
  LET take == t # "user" /\ rail.qp # 0 /\ rail.qp = qp.inc /\ Live IN
  /\ qz.pc = "idle" /\ Waiting(t)
  /\ SetPc(t, "in")
  /\ qz' = [IdleQz EXCEPT !.by = t, !.ref = take,
              !.owner = IF t = "user" \/ take THEN qp.inc ELSE 0,
              !.wasq = (rail.st = "QUARANTINED"),
              !.pc = IF take THEN "mark" ELSE IF t = "user" THEN "worker" ELSE "cancel"]
  /\ rail' = [rail EXCEPT !.st = IF @ = "QUARANTINED" THEN @ ELSE "QUIESCING",
                          !.closed = TRUE]
  /\ UNCHANGED <<txVars, qp>>

\* 2. tbv_qp_mark_error() of the queue pair taken over, then stop_producers().
QMark ==
  /\ qz.pc = "mark"
  /\ IF qp.closing \/ qp.st = "ERR"
     THEN qz' = [qz EXCEPT !.pc = "worker"] /\ UNCHANGED qp
     ELSE qz' = [qz EXCEPT !.pc = "flush"] /\ qp' = [qp EXCEPT !.st = "ERR"]
  /\ UNCHANGED <<txVars, rail, user, wd, rm>>

\* Variant: the worker is cancelled without waiting for it.
QCancelNoSync ==
  /\ qz.pc = "worker"
  /\ kicked' = FALSE
  /\ qz' = [qz EXCEPT !.pc = "timer"]
  /\ UNCHANGED <<conf, tx, wk, poster, timer, freed, qp, rail, user, wd, rm>>

\* cancel_work_sync(&apple_sq_work)
QCancelWorker ==
  /\ qz.pc = "worker" /\ wk.pc = "idle"
  /\ kicked' = FALSE
  /\ qz' = [qz EXCEPT !.pc = "timer"]
  /\ UNCHANGED <<conf, tx, wk, poster, timer, freed, qp, rail, user, wd, rm>>

\* cancel_delayed_work_sync(&timeout_work), then every request is failed.
QStop ==
  /\ qz.pc = "timer" /\ timer.pc = "idle"
  /\ tx' = Flush(tx)
  /\ qz' = [qz EXCEPT !.pc = "cancel"]
  /\ UNCHANGED <<conf, wk, kicked, poster, timer, freed, qp, rail, user, wd, rm>>

\* 3. tbv_path_cancel_queued_tx(): the frames not submitted are failed.
QCancel ==
  /\ qz.pc = "cancel"
  /\ tx' = Frames!Run(FALSE, [tx EXCEPT !.pq = <<>>], tx.pq)
  /\ qz' = [qz EXCEPT !.pc = "drain"]
  /\ UNCHANGED <<conf, wk, kicked, poster, timer, freed, qp, rail, user, wd, rm>>

\* 4. Everything submitted retires within the short drain ...
QDrained ==
  /\ qz.pc = "drain" /\ tx.ring = <<>>
  /\ qz' = [qz EXCEPT !.pc = "refs"]
  /\ UNCHANGED <<txVars, qp, rail, user, wd, rm>>

\* Variant: there is no barrier.
QBarrierNever == FALSE /\ UNCHANGED <<txVars, qp, rail, qz, user, wd, rm>>

\* ... or the ring pair is stopped: the callbacks of the frames left run with
\* an error.  The rings restart unless the rail or the device is going.
QBarrier ==
  LET restart == ~rail.removing /\ rail.reg IN
  /\ qz.pc = "drain" /\ tx.ring # <<>>
  /\ tx' = Frames!Run(FALSE, [tx EXCEPT !.ring = <<>>], tx.ring)
  /\ \E fails \in {FALSE, restart /\ conf.badrestart} :
       /\ qz' = [qz EXCEPT !.pc = IF fails THEN "end" ELSE "refs", !.barrier = TRUE,
                           !.restart = restart, !.err = fails]
       /\ rail' = [rail EXCEPT !.stopped = ~restart \/ fails]
  /\ UNCHANGED <<conf, wk, kicked, poster, timer, freed, qp, user, wd, rm>>

\* tbv_qp_wait_refs(): all released, or the deadline passes with some left.
QRefs(others) ==
  LET clear == Contexts(qz.owner) = {} /\ ~others IN
  /\ qz.pc = "refs"
  /\ qz.owner = 0 \/ clear \/ conf.deadline
  /\ qz' = [qz EXCEPT !.pc = "end", !.err = qz.owner # 0 /\ ~clear]
  /\ UNCHANGED <<txVars, qp, rail, user, wd, rm>>

\* 5/6. The outcome is recorded, the binding released, the path reopened only
\* after a retirement that needed no barrier.
QEnd ==
  LET clean == ~qz.err /\ ~(qz.barrier /\ qz.restart)
      st == IF ~clean THEN "QUARANTINED" ELSE IF qz.wasq THEN rail.st ELSE "UNBOUND"
      mine == qz.owner # 0
      dest == qz.by = "user" /\ qp.closing
  IN
  /\ qz.pc = "end"
  /\ rail' = [rail EXCEPT !.st = st, !.err = qz.err,
                !.qp = IF mine /\ @ = qz.owner THEN 0 ELSE @,
                !.noisy = IF clean THEN @ ELSE FALSE,
                !.closed = @ /\ ~(st = "UNBOUND" /\ ~qz.barrier /\ ~rail.removing)]
  /\ qp' = IF mine THEN [qp EXCEPT !.bound = FALSE] ELSE qp
  /\ qz' = IdleQz
  /\ SetPc(qz.by, IF qz.by = "user"
                  THEN IF ~dest THEN "end" ELSE IF qz.err THEN "idle" ELSE "free"
                  ELSE "idle")
  /\ UNCHANGED txVars
=============================================================================
