-------------------------- MODULE RailLifeProofs --------------------------
(***************************************************************************)
(* Proofs about RailLife, for any rails, queue pairs and scenarios that    *)
(* keep the exit out of the end of a removal (NotLate).                    *)
(***************************************************************************)
EXTENDS RailLife, FiniteSetTheorems, TLAPS

\* The scenarios do not let quiesce_all_rails() take a rail whose last
\* reference is gone: that window is open in the code.
NotLate == \A c \in Confs : c.late = FALSE

\* Where a thread holds a rail, and where it holds rail_register_lock too.
Holding == {"up", "attach", "register", "defer", "put", "latch", "tunnel", "failed", "qput",
            "take", "devgone"}
InLock == {"attach", "register", "defer"}
\* The removal has withdrawn the rail's device.
Withdrawn == {"unreg", "cancel", "put", "wait", "unlink"}

\* A thread has a rail exactly where it holds a reference.
ThreadsOK ==
  /\ \A t \in Threads : act[t].pc \in Holding => act[t].rail \in Rails
  /\ \A t \in Threads : act[t].pc \notin Holding => act[t].rail = Nobody
  /\ act["init"].pc \in {"services", "kick", "enable", "scan", "up", "attach", "register", "defer",
                         "put", "done"}
  /\ act["exit"].pc \in {"idle", "disable", "quiesce", "qput", "flush", "unreg", "take", "devgone",
                         "put", "flush2", "notifier", "detach", "cancel", "done"}

\* A rail is listed while its service is bound, marked before it is removed,
\* without a reference when it is unlinked, and used by nobody when it is not
\* listed; a queue pair is pinned to a rail.
ListedOK ==
  \A r \in Rails :
    /\ rail[r].listed <=> svc[r].pc \notin {"absent", "gone"}
    /\ svc[r].pc \in Withdrawn \cup {"quiesce", "down"} => rail[r].removing
    /\ svc[r].pc = "unlink" => rail[r].refs = 0
UsersOK ==
  /\ \A r \in Rails : ~rail[r].listed => Holders(r) = {} /\ QpsOn(r) = {}
  /\ \A q \in Qps : qp[q].st = "live" => qp[q].rail \in Rails

\* One thread registers at a time, a rail that has no device and is not past
\* its withdrawal.
LockOK ==
  /\ \A t, u \in Threads : act[t].pc \in InLock /\ act[u].pc \in InLock => t = u
  /\ \A t \in Threads : act[t].pc \in InLock =>
       /\ st.enabled /\ ~rail[act[t].rail].ibdev /\ dev[act[t].rail].st = "none"
       /\ svc[act[t].rail].pc \notin Withdrawn

\* rail->ibdev is the registered device; one that is being unregistered is
\* waited for, by the removal or by the exit.
DevOK ==
  \A r \in Rails :
    /\ rail[r].ibdev => rail[r].listed /\ svc[r].pc \notin Withdrawn
    /\ dev[r].st = "reg" <=> rail[r].ibdev
    /\ dev[r].st = "unreg" =>
         svc[r].pc = "unreg" \/ (act["exit"].pc = "devgone" /\ act["exit"].rail = r)

\* Exit comes after init, and registration is possible between the two only.
StagesOK ==
  /\ act["exit"].pc # "idle" => act["init"].pc = "done"
  /\ act["init"].pc \in {"services", "kick", "enable"} =>
       ~st.enabled /\ \A r \in Rails : ~rail[r].ibdev
  /\ act["exit"].pc \notin {"idle", "disable"} => ~st.enabled
  /\ act["exit"].pc \in {"flush2", "notifier", "detach", "cancel", "done"} =>
       \A r \in Rails : ~rail[r].ibdev

\* A device that is published, or about to be, is attached to a netdev that
\* exists or whose notifier is still to run.
NetOK ==
  \A r \in Rails :
    dev[r].att /\ (rail[r].ibdev \/ \E t \in Threads : act[t].pc = "register" /\ act[t].rail = r)
      => net.exists \/ net.gone \/ ~st.notifier

Inv == /\ TypeOK /\ conf.late = FALSE /\ ThreadsOK /\ ListedOK /\ UsersOK /\ RefsExact
       /\ LockOK /\ DevOK /\ StagesOK /\ NetOK

-----------------------------------------------------------------------------
(* Counting references.                                                    *)

\* The threads and queue pairs of a rail are finitely many.
LEMMA CountFacts ==
  ASSUME NEW r
  PROVE  /\ IsFiniteSet(Holders(r)) /\ Cardinality(Holders(r)) \in Nat
         /\ IsFiniteSet(QpsOn(r)) /\ Cardinality(QpsOn(r)) \in Nat
<1>1. IsFiniteSet(Threads)
  <2>1. IsFiniteSet({}) /\ \A S, x : IsFiniteSet(S) => IsFiniteSet(S \cup {x})
    BY FS_EmptySet, FS_AddElement
  <2>2. Threads = ((((({} \cup {"work"}) \cup {"hand"}) \cup {"apple"}) \cup {"retry"})
                    \cup {"init"}) \cup {"exit"}
    BY DEF Threads
  <2> QED
    BY <2>1, <2>2
<1>2. IsFiniteSet(Holders(r)) /\ IsFiniteSet(QpsOn(r))
  BY <1>1, FS_Subset, RailAssumption DEF Holders, QpsOn
<1> QED
  BY <1>2, FS_CardinalityType

\* A step that leaves the holders and the counts alone.
RefsKept ==
  /\ \A r \in Rails : rail'[r].refs = rail[r].refs /\ rail'[r].listed = rail[r].listed
  /\ \A t \in Threads : act'[t].rail = act[t].rail
  /\ \A q \in Qps : qp'[q] = qp[q]

\* Thread t takes a reference on rail r, or gives one back.
RefTaken(t, r) ==
  /\ t \in Threads /\ act[t].rail = Nobody /\ act'[t].rail = r /\ r \in Rails /\ rail[r].listed
  /\ rail'[r].refs = rail[r].refs + 1 /\ \A x \in Rails \ {r} : rail'[x].refs = rail[x].refs
  /\ \A x \in Rails : rail'[x].listed = rail[x].listed
  /\ \A u \in Threads \ {t} : act'[u].rail = act[u].rail
  /\ \A q \in Qps : qp'[q] = qp[q]
RefGiven(t, r) ==
  /\ t \in Threads /\ act[t].rail = r /\ r \in Rails /\ act'[t].rail = Nobody
  /\ rail'[r].refs = rail[r].refs - 1 /\ \A x \in Rails \ {r} : rail'[x].refs = rail[x].refs
  /\ \A x \in Rails : rail'[x].listed = rail[x].listed
  /\ \A u \in Threads \ {t} : act'[u].rail = act[u].rail
  /\ \A q \in Qps : qp'[q] = qp[q]

\* The removal is past giving back the rail's own reference, or not, as before.
OwnRefKept ==
  \A r \in Rails : svc'[r].pc \in {"wait", "unlink"} <=> svc[r].pc \in {"wait", "unlink"}

\* Such a step keeps the counts right.
LEMMA KeptFacts ==
  ASSUME RefsKept
  PROVE  /\ \A r \in Rails : Holders(r)' = Holders(r) /\ QpsOn(r)' = QpsOn(r)
         /\ RefsExact /\ OwnRefKept => RefsExact'
         /\ UsersOK => UsersOK'
<1>1. ASSUME NEW r \in Rails
      PROVE  Holders(r)' = Holders(r) /\ QpsOn(r)' = QpsOn(r)
  BY DEF RefsKept, Holders, QpsOn
<1>2. ASSUME RefsExact, OwnRefKept
      PROVE  RefsExact'
  BY <1>1, <1>2 DEF RefsKept, RefsExact, OwnRefKept
<1>3. ASSUME UsersOK
      PROVE  UsersOK'
  BY <1>1, <1>3 DEF RefsKept, UsersOK
<1> QED
  BY <1>1, <1>2, <1>3

\* Taking a reference keeps the counts right.
LEMMA TakenFacts ==
  ASSUME NEW t, NEW r, RefTaken(t, r), OwnRefKept, RefsExact, UsersOK
  PROVE  RefsExact' /\ UsersOK'
<1>1. r \in Rails /\ r # Nobody /\ t \notin Holders(r) /\ t \in Threads
  BY RailAssumption DEF RefTaken, Holders
<1>2. Holders(r)' = Holders(r) \cup {t} /\ \A x \in Rails \ {r} : Holders(x)' = Holders(x)
  BY <1>1, RailAssumption DEF RefTaken, Holders
<1>3. \A x \in Rails : QpsOn(x)' = QpsOn(x)
  BY DEF RefTaken, QpsOn
<1>4. Cardinality(Holders(r)') = Cardinality(Holders(r)) + 1
  BY <1>1, <1>2, CountFacts, FS_AddElement
<1>5. RefsExact'
  <2> SUFFICES ASSUME NEW x \in Rails, rail'[x].listed
               PROVE  rail'[x].refs = (IF svc'[x].pc \in {"wait", "unlink"} THEN 0 ELSE 1)
                        + Cardinality(Holders(x)') + Cardinality(QpsOn(x)')
    BY DEF RefsExact
  <2>1. rail[x].refs = (IF svc[x].pc \in {"wait", "unlink"} THEN 0 ELSE 1)
                         + Cardinality(Holders(x)) + Cardinality(QpsOn(x))
    BY DEF RefsExact, RefTaken
  <2>2. Cardinality(Holders(x)) \in Nat /\ Cardinality(QpsOn(x)) \in Nat
    BY CountFacts
  <2>3. CASE x = r
    BY <1>3, <1>4, <2>1, <2>2, <2>3 DEF RefTaken, OwnRefKept
  <2>4. CASE x # r
    BY <1>2, <1>3, <2>1, <2>2, <2>4 DEF RefTaken, OwnRefKept
  <2> QED
    BY <2>3, <2>4
<1>6. UsersOK'
  BY <1>2, <1>3 DEF UsersOK, RefTaken
<1> QED
  BY <1>5, <1>6

\* So does giving one back, and there was one to give.
LEMMA GivenFacts ==
  ASSUME NEW t, NEW r, RefGiven(t, r), OwnRefKept, RefsExact, UsersOK, TypeOK
  PROVE  RefsExact' /\ UsersOK' /\ rail[r].refs - 1 \in Nat
<1>1. r \in Rails /\ r # Nobody /\ t \in Holders(r)
  BY RailAssumption DEF RefGiven, Holders
<1>2. rail[r].listed
  BY <1>1 DEF UsersOK
<1>3. Holders(r)' = Holders(r) \ {t} /\ \A x \in Rails \ {r} : Holders(x)' = Holders(x)
  BY <1>1, RailAssumption DEF RefGiven, Holders
<1>4. \A x \in Rails : QpsOn(x)' = QpsOn(x)
  BY DEF RefGiven, QpsOn
<1>5. /\ Cardinality(Holders(r)') = Cardinality(Holders(r)) - 1
      /\ Cardinality(Holders(r)') \in Nat
  BY <1>1, <1>3, CountFacts, FS_RemoveElement, FS_CardinalityType
<1>6. RefsExact'
  <2> SUFFICES ASSUME NEW x \in Rails, rail'[x].listed
               PROVE  rail'[x].refs = (IF svc'[x].pc \in {"wait", "unlink"} THEN 0 ELSE 1)
                        + Cardinality(Holders(x)') + Cardinality(QpsOn(x)')
    BY DEF RefsExact
  <2>1. rail[x].refs = (IF svc[x].pc \in {"wait", "unlink"} THEN 0 ELSE 1)
                         + Cardinality(Holders(x)) + Cardinality(QpsOn(x))
    BY DEF RefsExact, RefGiven
  <2>2. Cardinality(Holders(x)) \in Nat /\ Cardinality(QpsOn(x)) \in Nat
    BY CountFacts
  <2>3. CASE x = r
    BY <1>4, <1>5, <2>1, <2>2, <2>3 DEF RefGiven, OwnRefKept
  <2>4. CASE x # r
    BY <1>3, <1>4, <2>1, <2>2, <2>4 DEF RefGiven, OwnRefKept
  <2> QED
    BY <2>3, <2>4
<1>7. UsersOK'
  BY <1>2, <1>3, <1>4 DEF UsersOK, RefGiven
<1>8. rail[r].refs - 1 \in Nat
  <2>1. rail[r].refs = (IF svc[r].pc \in {"wait", "unlink"} THEN 0 ELSE 1)
                         + Cardinality(Holders(r)) + Cardinality(QpsOn(r))
    BY <1>1, <1>2 DEF RefsExact
  <2> QED
    BY <1>5, <2>1, CountFacts
<1> QED
  BY <1>6, <1>7, <1>8

\* Queue pair q is pinned to rail r, or gives its reference back.
QpPinned(q, r) ==
  /\ q \in Qps /\ qp[q].st # "live" /\ qp'[q].st = "live" /\ qp'[q].rail = r
  /\ r \in Rails /\ rail[r].listed
  /\ rail'[r].refs = rail[r].refs + 1 /\ \A x \in Rails \ {r} : rail'[x].refs = rail[x].refs
  /\ \A x \in Rails : rail'[x].listed = rail[x].listed
  /\ \A o \in Qps \ {q} : qp'[o] = qp[o]
  /\ \A u \in Threads : act'[u] = act[u]
QpFreed(q, r) ==
  /\ q \in Qps /\ qp[q].st = "live" /\ qp[q].rail = r /\ qp'[q].st = "dead"
  /\ rail'[r].refs = rail[r].refs - 1 /\ \A x \in Rails \ {r} : rail'[x].refs = rail[x].refs
  /\ \A x \in Rails : rail'[x].listed = rail[x].listed
  /\ \A o \in Qps \ {q} : qp'[o] = qp[o]
  /\ \A u \in Threads : act'[u] = act[u]

\* Pinning a queue pair keeps the counts right.
LEMMA PinnedFacts ==
  ASSUME NEW q, NEW r, QpPinned(q, r), OwnRefKept, RefsExact, UsersOK
  PROVE  RefsExact' /\ UsersOK'
<1>1. r \in Rails /\ q \notin QpsOn(r) /\ q \in Qps
  BY DEF QpPinned, QpsOn
<1>2. QpsOn(r)' = QpsOn(r) \cup {q} /\ \A x \in Rails \ {r} : QpsOn(x)' = QpsOn(x)
  BY <1>1 DEF QpPinned, QpsOn
<1>3. \A x \in Rails : Holders(x)' = Holders(x)
  BY DEF QpPinned, Holders
<1>4. Cardinality(QpsOn(r)') = Cardinality(QpsOn(r)) + 1
  BY <1>1, <1>2, CountFacts, FS_AddElement
<1>5. RefsExact'
  <2> SUFFICES ASSUME NEW x \in Rails, rail'[x].listed
               PROVE  rail'[x].refs = (IF svc'[x].pc \in {"wait", "unlink"} THEN 0 ELSE 1)
                        + Cardinality(Holders(x)') + Cardinality(QpsOn(x)')
    BY DEF RefsExact
  <2>1. rail[x].refs = (IF svc[x].pc \in {"wait", "unlink"} THEN 0 ELSE 1)
                         + Cardinality(Holders(x)) + Cardinality(QpsOn(x))
    BY DEF RefsExact, QpPinned
  <2>2. Cardinality(Holders(x)) \in Nat /\ Cardinality(QpsOn(x)) \in Nat
    BY CountFacts
  <2>3. CASE x = r
    BY <1>3, <1>4, <2>1, <2>2, <2>3 DEF QpPinned, OwnRefKept
  <2>4. CASE x # r
    BY <1>2, <1>3, <2>1, <2>2, <2>4 DEF QpPinned, OwnRefKept
  <2> QED
    BY <2>3, <2>4
<1>6. UsersOK'
  BY <1>2, <1>3 DEF UsersOK, QpPinned
<1> QED
  BY <1>5, <1>6

\* So does freeing it, and there was a reference to give.
LEMMA FreedFacts ==
  ASSUME NEW q, NEW r, QpFreed(q, r), OwnRefKept, RefsExact, UsersOK
  PROVE  /\ RefsExact' /\ UsersOK' /\ rail[r].refs - 1 \in Nat
         /\ r \in Rails /\ rail[r].listed
<1>1. r \in Rails /\ q \in QpsOn(r)
  BY DEF QpFreed, QpsOn, UsersOK
<1>2. rail[r].listed
  BY <1>1 DEF UsersOK
<1>3. QpsOn(r)' = QpsOn(r) \ {q} /\ \A x \in Rails \ {r} : QpsOn(x)' = QpsOn(x)
  BY <1>1 DEF QpFreed, QpsOn
<1>4. \A x \in Rails : Holders(x)' = Holders(x)
  BY DEF QpFreed, Holders
<1>5. /\ Cardinality(QpsOn(r)') = Cardinality(QpsOn(r)) - 1
      /\ Cardinality(QpsOn(r)') \in Nat
  BY <1>1, <1>3, CountFacts, FS_RemoveElement, FS_CardinalityType
<1>6. RefsExact'
  <2> SUFFICES ASSUME NEW x \in Rails, rail'[x].listed
               PROVE  rail'[x].refs = (IF svc'[x].pc \in {"wait", "unlink"} THEN 0 ELSE 1)
                        + Cardinality(Holders(x)') + Cardinality(QpsOn(x)')
    BY DEF RefsExact
  <2>1. rail[x].refs = (IF svc[x].pc \in {"wait", "unlink"} THEN 0 ELSE 1)
                         + Cardinality(Holders(x)) + Cardinality(QpsOn(x))
    BY DEF RefsExact, QpFreed
  <2>2. Cardinality(Holders(x)) \in Nat /\ Cardinality(QpsOn(x)) \in Nat
    BY CountFacts
  <2>3. CASE x = r
    BY <1>4, <1>5, <2>1, <2>2, <2>3 DEF QpFreed, OwnRefKept
  <2>4. CASE x # r
    BY <1>3, <1>4, <2>1, <2>2, <2>4 DEF QpFreed, OwnRefKept
  <2> QED
    BY <2>3, <2>4
<1>7. UsersOK'
  BY <1>2, <1>3, <1>4 DEF UsersOK, QpFreed
<1>8. rail[r].refs - 1 \in Nat
  <2>1. rail[r].refs = (IF svc[r].pc \in {"wait", "unlink"} THEN 0 ELSE 1)
                         + Cardinality(Holders(r)) + Cardinality(QpsOn(r))
    BY <1>1, <1>2 DEF RefsExact
  <2> QED
    BY <1>5, <2>1, CountFacts
<1> QED
  BY <1>1, <1>2, <1>6, <1>7, <1>8

\* What is spent of a bound leaves a scenario of the same kind.
LEMMA SpendFacts ==
  ASSUME NEW what \in {"nets", "tbs", "fails"}, conf \in Conf, conf.late = FALSE, Spend(what)
  PROVE  conf' \in Conf /\ conf'.late = FALSE
<1>1. CASE what = "nets"
  BY <1>1 DEF Spend, Conf
<1>2. CASE what = "tbs"
  BY <1>2 DEF Spend, Conf
<1>3. CASE what = "fails"
  BY <1>3 DEF Spend, Conf
<1> QED
  BY <1>1, <1>2, <1>3

\* Thread t goes to p with rail x, the other threads stay where they are.
Moved(t, p, x) ==
  /\ act' \in [Threads -> ActStates] /\ act'[t].pc = p /\ act'[t].rail = x
  /\ \A u \in Threads \ {t} : act'[u] = act[u]

\* A thread that goes on keeps its rail.
LEMMA GoFacts ==
  ASSUME NEW t \in Threads, NEW p \in ActPcs, act \in [Threads -> ActStates], Go(t, p)
  PROVE  Moved(t, p, act[t].rail)
  BY DEF Go, Moved, ActStates

\* A thread that goes on with another rail, or without.
LEMMA JumpFacts ==
  ASSUME NEW t \in Threads, NEW p \in ActPcs, NEW x \in Rails \cup {Nobody},
         act \in [Threads -> ActStates], act' = [act EXCEPT ![t] = [pc |-> p, rail |-> x]]
  PROVE  Moved(t, p, x)
  BY DEF Moved, ActStates

\* The bounds, the flags and the environment stay within their types.
OthersTyped ==
  /\ conf' \in Conf /\ conf'.late = FALSE
  /\ st' \in [enabled : BOOLEAN, services : BOOLEAN, pending : BOOLEAN, notifier : BOOLEAN]
  /\ todo' \in [apple : BOOLEAN, retry : BOOLEAN]
  /\ net' \in [exists : BOOLEAN, gone : BOOLEAN] /\ tb' \in [up : BOOLEAN, kick : BOOLEAN]

\* Rail r may change, not the others, and of r neither its place in the list
\* nor its mark of removal nor its device.
RailKeeps(r) ==
  /\ rail' \in [Rails -> RailStates] /\ \A x \in Rails \ {r} : rail'[x] = rail[x]
  /\ rail'[r].listed = rail[r].listed /\ rail'[r].removing = rail[r].removing
  /\ rail'[r].ibdev = rail[r].ibdev

\* A reference is taken under state->lock.
LEMMA PickFacts ==
  ASSUME NEW r \in Rails, rail \in [Rails -> RailStates], NEW x \in RailStates,
         x.listed = rail[r].listed, x.removing = rail[r].removing, x.ibdev = rail[r].ibdev,
         x.refs = rail[r].refs, rail' = [rail EXCEPT ![r] = [x EXCEPT !.refs = @ + 1]]
  PROVE  RailKeeps(r) /\ rail'[r].refs = rail[r].refs + 1
<1>1. x.refs \in Nat /\ x.refs + 1 \in Nat
  BY DEF RailStates
<1>2. [x EXCEPT !.refs = @ + 1] \in RailStates
  BY <1>1 DEF RailStates
<1>3. rail'[r] = [x EXCEPT !.refs = @ + 1]
  OBVIOUS
<1>4. /\ rail'[r].listed = rail[r].listed /\ rail'[r].removing = rail[r].removing
      /\ rail'[r].ibdev = rail[r].ibdev /\ rail'[r].refs = rail[r].refs + 1
  BY <1>3 DEF RailStates
<1> QED
  BY <1>2, <1>4 DEF RailKeeps

\* A step that neither publishes nor withdraws: devices and services stay, and
\* a netdev that goes away leaves its notifier to run.
Steady ==
  /\ svc' = svc /\ dev' = dev /\ st'.enabled = st.enabled
  /\ \A r \in Rails : /\ rail'[r].listed = rail[r].listed /\ rail'[r].removing = rail[r].removing
                      /\ rail'[r].ibdev = rail[r].ibdev
                      /\ svc[r].pc = "unlink" => rail'[r].refs = rail[r].refs
  /\ net.exists \/ net.gone \/ ~st.notifier => net'.exists \/ net'.gone \/ ~st'.notifier

\* Where thread t may go without the lock: p is one of its places, it has a
\* rail there exactly if it holds one, and init and exit keep their order.
MayGo(t, p, x) ==
  /\ p \notin InLock /\ (p \in Holding => x \in Rails) /\ (p \notin Holding => x = Nobody)
  /\ t = "init" => /\ p \in {"kick", "enable", "scan", "up", "put", "done"}
                   /\ act["init"].pc # "done"
                   /\ p \in {"kick", "enable"} => act["init"].pc \in {"services", "kick"}
  /\ t = "exit" => /\ p \in {"disable", "quiesce", "qput", "flush", "unreg", "take", "put", "flush2",
                             "notifier", "detach", "cancel", "done"}
                   /\ act["exit"].pc = "devgone" => dev[act["exit"].rail].st = "none"
                   /\ act["init"].pc = "done"
                   /\ p # "disable" => ~st.enabled
                   /\ p \in {"flush2", "notifier", "detach", "cancel", "done"} =>
                        \A r \in Rails : ~rail[r].ibdev

\* A thread that moves outside the lock keeps the invariant, if the counts of
\* references are right.
LEMMA StepInv ==
  ASSUME Inv, NEW t \in Threads, NEW p, NEW x, Moved(t, p, x), MayGo(t, p, x), Steady,
         OthersTyped, rail' \in [Rails -> RailStates], qp' \in [Qps -> QpStates],
         RefsExact', UsersOK'
  PROVE  Inv'
<1>1. TypeOK' /\ conf'.late = FALSE
  BY DEF TypeOK, Inv, OthersTyped, Moved, Steady
<1>2. ThreadsOK'
  <2>1. \A u \in Threads \ {t} : act'[u] = act[u]
    BY DEF Moved
  <2>2. act'[t].pc = p /\ act'[t].rail = x
    BY DEF Moved
  <2> QED
    BY <2>1, <2>2 DEF Inv, ThreadsOK, MayGo, Threads
<1>3. ListedOK'
  BY DEF Inv, ListedOK, Steady
<1>4. LockOK'
  <2>1. \A u \in Threads : act'[u].pc \in InLock => act'[u] = act[u]
    BY DEF Moved, MayGo
  <2>2. \A u \in Threads : act[u].pc \in InLock => act[u].rail \in Rails
    BY DEF Inv, ThreadsOK, InLock, Holding
  <2> QED
    BY <2>1, <2>2 DEF Inv, LockOK, Steady
<1>5. DevOK'
  <2>1. act["exit"].pc = "devgone" =>
          act'["exit"] = act["exit"] \/ dev[act["exit"].rail].st = "none"
    BY DEF Moved, MayGo, Threads
  <2> QED
    BY <2>1 DEF Inv, DevOK, Steady
<1>6. StagesOK'
  <2>1. \A u \in Threads \ {t} : act'[u] = act[u]
    BY DEF Moved
  <2>2. act'[t].pc = p
    BY DEF Moved
  <2> QED
    BY <2>1, <2>2 DEF Inv, StagesOK, Steady, MayGo, Threads
<1>7. NetOK'
  <2>1. \A u \in Threads : act'[u].pc = "register" => act'[u] = act[u]
    BY DEF Moved, MayGo, InLock
  <2> QED
    BY <2>1 DEF Inv, NetOK, Steady
<1> QED
  BY <1>1, <1>2, <1>3, <1>4, <1>5, <1>6, <1>7 DEF Inv

\* It moves with the rail it has; some rail may change otherwise.
LEMMA MoveInv ==
  ASSUME Inv, NEW t \in Threads, NEW p, Moved(t, p, act[t].rail), MayGo(t, p, act[t].rail), Steady,
         OthersTyped, rail' \in [Rails -> RailStates], qp' = qp,
         \A r \in Rails : rail'[r].refs = rail[r].refs
  PROVE  Inv'
<1>1. RefsKept /\ OwnRefKept
  BY DEF RefsKept, OwnRefKept, Steady, Moved
<1>2. RefsExact' /\ UsersOK'
  BY <1>1, KeptFacts DEF Inv
<1> QED
  BY <1>2, StepInv DEF Inv, TypeOK

\* It takes a reference on a listed rail whose own reference is not gone.
LEMMA TakeInv ==
  ASSUME Inv, NEW t \in Threads, NEW p, NEW r \in Rails, act[t].pc \notin Holding,
         Moved(t, p, r), MayGo(t, p, r), RailKeeps(r), rail'[r].refs = rail[r].refs + 1,
         rail[r].listed, ~rail[r].removing \/ rail[r].refs > 0, OthersTyped,
         svc' = svc, dev' = dev, qp' = qp, st' = st, net' = net
  PROVE  Inv'
<1>1. act[t].rail = Nobody
  BY DEF Inv, ThreadsOK
<1>2. RefTaken(t, r) /\ OwnRefKept
  BY <1>1 DEF RefTaken, OwnRefKept, RailKeeps, Moved
<1>3. RefsExact' /\ UsersOK'
  BY <1>2, TakenFacts DEF Inv
<1>4. svc[r].pc # "unlink"
  BY DEF Inv, ListedOK, Withdrawn
<1>5. Steady
  BY <1>4 DEF Steady, RailKeeps
<1> QED
  BY <1>3, <1>5, StepInv DEF Inv, TypeOK, RailKeeps

\* It gives back the reference it holds.
LEMMA GiveInv ==
  ASSUME Inv, NEW t \in Threads, NEW p, act[t].pc \in Holding, Moved(t, p, Nobody),
         MayGo(t, p, Nobody), rail' = [rail EXCEPT ![act[t].rail].refs = @ - 1], OthersTyped,
         svc' = svc, dev' = dev, qp' = qp, st'.enabled = st.enabled, st'.notifier = st.notifier,
         net' = net
  PROVE  Inv'
<1> DEFINE r == act[t].rail
<1>1. r \in Rails /\ rail \in [Rails -> RailStates] /\ rail[r] \in RailStates
  BY DEF Inv, ThreadsOK, TypeOK
<1>2. /\ \A x \in Rails \ {r} : rail'[x] = rail[x]
      /\ rail'[r].listed = rail[r].listed /\ rail'[r].removing = rail[r].removing
      /\ rail'[r].ibdev = rail[r].ibdev /\ rail'[r].refs = rail[r].refs - 1
      /\ rail[r].refs - 1 \in Nat => rail' \in [Rails -> RailStates]
  BY <1>1 DEF RailStates
<1>3. RefGiven(t, r) /\ OwnRefKept
  BY <1>1, <1>2 DEF RefGiven, OwnRefKept, Moved
<1>4. RefsExact' /\ UsersOK' /\ rail[r].refs - 1 \in Nat
  BY <1>3, GivenFacts DEF Inv
<1>5. Steady
  <2>1. svc[r].pc # "unlink"
    BY <1>1, <1>4 DEF Inv, ListedOK
  <2> QED
    BY <1>2, <2>1 DEF Steady
<1> QED
  BY <1>2, <1>4, <1>5, StepInv DEF Inv, TypeOK

-----------------------------------------------------------------------------
(* The threads.                                                            *)

\* Nothing but the place of a thread, works and pending changes.
LEMMA SameTyped ==
  ASSUME Inv
  PROVE  /\ UNCHANGED <<conf, st, todo, net, tb>> => OthersTyped
         /\ UNCHANGED <<rail, svc, dev, st, net>> => Steady
         /\ \A t \in Threads : act[t].pc \in Holding => act[t].rail \in Rails
         /\ \A t \in Threads : act[t].pc \notin Holding => act[t].rail = Nobody
         /\ act \in [Threads -> ActStates] /\ rail \in [Rails -> RailStates]
         /\ \A r \in Rails : rail[r] \in RailStates
<1>1. UNCHANGED <<conf, st, todo, net, tb>> => OthersTyped
  BY DEF Inv, TypeOK, OthersTyped
<1>2. UNCHANGED <<rail, svc, dev, st, net>> => Steady
  BY DEF Steady
<1> QED
  BY <1>1, <1>2 DEF Inv, TypeOK, ThreadsOK

\* apple_rail_work
LEMMA AppleInv ==
  ASSUME Inv, AppleWork
  PROVE  Inv'
<1>0. "apple" \in Threads /\ "apple" # "init" /\ "apple" # "exit"
  BY DEF Threads
<1>1. CASE AppleStart
  <2>1. PICK p \in {"idle", "next"} : Moved("apple", p, act["apple"].rail)
    <3>1. CASE act' = act
      BY <1>0, <1>1, <3>1, SameTyped DEF AppleStart, At, Moved
    <3>2. CASE Go("apple", "next")
      BY <1>0, <3>2, SameTyped, GoFacts DEF ActPcs
    <3> QED
      BY <1>1, <3>1, <3>2 DEF AppleStart
  <2>2. MayGo("apple", p, act["apple"].rail)
    BY <1>0, <1>1, <2>1, SameTyped DEF AppleStart, At, MayGo, Holding, InLock
  <2>3. OthersTyped /\ Steady
    BY <1>1, SameTyped DEF AppleStart, OthersTyped, Inv, TypeOK
  <2> QED
    BY <1>0, <1>1, <2>1, <2>2, <2>3, SameTyped, MoveInv DEF AppleStart
<1>2. CASE AppleNext
  <2>1. At("apple", "next") /\ UNCHANGED <<conf, svc, dev, qp, todo, net, tb>>
    BY <1>2 DEF AppleNext
  <2>2. CASE PendingApple # {} /\ tb.up
    <3>1. PICK r \in PendingApple : Pick("apple", r, "tunnel") /\ UNCHANGED st
      BY <1>2, <2>2 DEF AppleNext
    <3>2. r \in Rails /\ rail[r].listed /\ ~rail[r].removing
      BY <3>1 DEF PendingApple, Rails
    <3>3. Moved("apple", "tunnel", r)
      BY <1>0, <3>1, <3>2, SameTyped, JumpFacts DEF Pick, ActPcs
    <3>4. RailKeeps(r) /\ rail'[r].refs = rail[r].refs + 1
      BY <3>1, <3>2, SameTyped, PickFacts DEF Pick
    <3>5. MayGo("apple", "tunnel", r)
      BY <1>0, <3>2 DEF MayGo, Holding, InLock
    <3>6. OthersTyped
      BY <2>1, <3>1, SameTyped
    <3>7. act["apple"].pc \notin Holding
      BY <2>1 DEF At, Holding
    <3> QED
      BY <1>0, <2>1, <3>1, <3>2, <3>3, <3>4, <3>5, <3>6, <3>7, TakeInv
  <2>3. CASE ~(PendingApple # {} /\ tb.up)
    <3>1. /\ GoIdle("apple") /\ UNCHANGED rail
          /\ st' = [st EXCEPT !.pending = PendingApple # {}]
      BY <1>2, <2>3 DEF AppleNext
    <3>2. act["apple"].rail = Nobody
      BY <1>0, <2>1, SameTyped DEF At, Holding
    <3>3. Moved("apple", "idle", act["apple"].rail)
      BY <1>0, <3>1, <3>2, SameTyped, JumpFacts DEF GoIdle, Idle, ActPcs
    <3>4. MayGo("apple", "idle", act["apple"].rail)
      BY <1>0, <3>2 DEF MayGo, Holding, InLock
    <3>5. OthersTyped /\ Steady
      BY <2>1, <3>1 DEF Inv, TypeOK, OthersTyped, Steady
    <3> QED
      BY <1>0, <2>1, <3>1, <3>3, <3>4, <3>5, SameTyped, MoveInv
  <2> QED
    BY <2>2, <2>3
<1>3. CASE AppleTunnel
  <2> DEFINE r == act["apple"].rail
  <2>1. /\ At("apple", "tunnel") /\ UNCHANGED <<conf, svc, dev, qp, st, todo, net, tb>>
        /\ r \in Rails
    BY <1>0, <1>3, SameTyped DEF AppleTunnel, At, Holding
  <2>2. PICK p \in {"up", "failed"} : Go("apple", p)
    BY <1>3 DEF AppleTunnel
  <2>3. Moved("apple", p, r) /\ MayGo("apple", p, r)
    BY <1>0, <2>1, <2>2, SameTyped, GoFacts DEF ActPcs, MayGo, Holding, InLock
  <2>4. rail' = rail \/ rail' = [rail EXCEPT ![r].path = "tunnel"]
    BY <1>3 DEF AppleTunnel
  <2>5. RailKeeps(r) /\ rail'[r].refs = rail[r].refs
    BY <2>1, <2>4, SameTyped DEF RailKeeps, RailStates
  <2>6. OthersTyped /\ Steady
    BY <2>1, <2>5, SameTyped DEF Steady, RailKeeps
  <2> QED
    BY <1>0, <2>1, <2>3, <2>5, <2>6, MoveInv DEF RailKeeps
<1>4. CASE AppleTunnelFails
  <2>1. act["apple"].rail \in Rails
    BY <1>0, <1>4, SameTyped DEF AppleTunnelFails, At, Holding
  <2>2. Moved("apple", "failed", act["apple"].rail)
    BY <1>0, <1>4, SameTyped, GoFacts DEF AppleTunnelFails, ActPcs
  <2>3. MayGo("apple", "failed", act["apple"].rail)
    BY <1>0, <2>1 DEF MayGo, Holding, InLock
  <2>4. conf' \in Conf /\ conf'.late = FALSE
    BY <1>4, SpendFacts DEF AppleTunnelFails, Inv, TypeOK
  <2>5. OthersTyped /\ Steady
    BY <1>4, <2>4, SameTyped DEF AppleTunnelFails, OthersTyped, Inv, TypeOK
  <2> QED
    BY <1>0, <1>4, <2>2, <2>3, <2>5, SameTyped, MoveInv DEF AppleTunnelFails
<1>5. CASE AppleFailed
  <2>1. Moved("apple", "idle", Nobody)
    BY <1>0, <1>5, SameTyped, JumpFacts DEF AppleFailed, GoIdle, Idle, ActPcs
  <2>2. MayGo("apple", "idle", Nobody) /\ act["apple"].pc \in Holding
    BY <1>0, <1>5 DEF AppleFailed, At, MayGo, Holding, InLock
  <2>3. OthersTyped /\ st'.enabled = st.enabled /\ st'.notifier = st.notifier
    BY <1>5 DEF AppleFailed, Inv, TypeOK, OthersTyped
  <2> QED
    BY <1>0, <1>5, <2>1, <2>2, <2>3, GiveInv DEF AppleFailed
<1> QED
  BY <1>1, <1>2, <1>3, <1>4, <1>5 DEF AppleWork

\* ibdev_netdev_retry_work
LEMMA RetryInv ==
  ASSUME Inv, RetryWork
  PROVE  Inv'
<1>0. "retry" \in Threads /\ "retry" # "init" /\ "retry" # "exit"
  BY DEF Threads
<1>1. CASE RetryStart
  <2>1. Moved("retry", "scan", act["retry"].rail)
    BY <1>0, <1>1, SameTyped, GoFacts DEF RetryStart, ActPcs
  <2>2. MayGo("retry", "scan", act["retry"].rail)
    BY <1>0, <1>1, SameTyped DEF RetryStart, At, MayGo, Holding, InLock
  <2>3. OthersTyped /\ Steady
    BY <1>1, SameTyped DEF RetryStart, OthersTyped, Inv, TypeOK
  <2> QED
    BY <1>0, <1>1, <2>1, <2>2, <2>3, SameTyped, MoveInv DEF RetryStart
<1>2. CASE RetryScan
  <2>1. /\ At("retry", "scan") /\ UNCHANGED <<conf, svc, dev, qp, st, todo, net, tb>>
        /\ act["retry"].pc \notin Holding
    BY <1>2 DEF RetryScan, At, Holding
  <2>2. CASE Retriable # {}
    <3>1. PICK r \in Retriable : Pick("retry", r, "latch")
      BY <1>2, <2>2 DEF RetryScan
    <3>2. r \in Rails /\ rail[r].listed /\ ~rail[r].removing
      BY <3>1 DEF Retriable, PublishReady
    <3>3. Moved("retry", "latch", r) /\ MayGo("retry", "latch", r)
      BY <1>0, <3>1, <3>2, SameTyped, JumpFacts DEF Pick, ActPcs, MayGo, Holding, InLock
    <3>4. RailKeeps(r) /\ rail'[r].refs = rail[r].refs + 1
      BY <3>1, <3>2, SameTyped, PickFacts DEF Pick
    <3> QED
      BY <1>0, <2>1, <3>2, <3>3, <3>4, SameTyped, TakeInv
  <2>3. CASE Retriable = {}
    <3>1. GoIdle("retry") /\ UNCHANGED rail /\ act["retry"].rail = Nobody
      BY <1>0, <1>2, <2>1, <2>3, SameTyped DEF RetryScan
    <3>2. Moved("retry", "idle", act["retry"].rail)
      BY <1>0, <3>1, SameTyped, JumpFacts DEF GoIdle, Idle, ActPcs
    <3>3. MayGo("retry", "idle", act["retry"].rail)
      BY <1>0, <3>1 DEF MayGo, Holding, InLock
    <3> QED
      BY <1>0, <2>1, <3>1, <3>2, <3>3, SameTyped, MoveInv
  <2> QED
    BY <2>2, <2>3
<1>3. CASE RetryLatch
  <2> DEFINE r == act["retry"].rail
  <2>1. /\ At("retry", "latch") /\ UNCHANGED <<conf, svc, dev, qp, st, todo, net, tb>>
        /\ r \in Rails
    BY <1>0, <1>3, SameTyped DEF RetryLatch, At, Holding
  <2>2. PICK p \in {"up", "put"} : Go("retry", p)
    BY <1>3 DEF RetryLatch
  <2>3. Moved("retry", p, r) /\ MayGo("retry", p, r)
    BY <1>0, <2>1, <2>2, SameTyped, GoFacts DEF ActPcs, MayGo, Holding, InLock
  <2>4. PICK b \in BOOLEAN : rail' = [rail EXCEPT ![r].deferred = b]
    BY <1>3, <2>1, SameTyped DEF RetryLatch, RailStates
  <2>5. RailKeeps(r) /\ rail'[r].refs = rail[r].refs
    BY <2>1, <2>4, SameTyped DEF RailKeeps, RailStates
  <2>6. OthersTyped /\ Steady
    BY <2>1, <2>5, SameTyped DEF Steady, RailKeeps
  <2> QED
    BY <1>0, <2>1, <2>3, <2>5, <2>6, MoveInv DEF RailKeeps
<1> QED
  BY <1>1, <1>2, <1>3 DEF RetryWork

\* native_work and the packet handler
LEMMA EdgeInv ==
  ASSUME Inv, NEW t \in Threads, NEW r \in Native, NEW tunnel \in BOOLEAN, NativeEdge(t, r, tunnel)
  PROVE  Inv'
<1>1. /\ t # "init" /\ t # "exit" /\ At(t, "idle") /\ rail[r].listed /\ r \in Rails
      /\ UNCHANGED <<conf, svc, dev, qp, st, todo, net, tb>> /\ rail[r] \in RailStates
      /\ act[t].pc \notin Holding /\ act[t].rail = Nobody
  BY SameTyped DEF NativeEdge, Rails, At, Holding
<1> DEFINE now == [rail[r] EXCEPT !.path = IF tunnel THEN "tunnel" ELSE @, !.ready = ~tunnel \/ @]
           go == now.path = "tunnel" /\ now.ready /\ ~now.removing
<1>2. /\ rail' = [rail EXCEPT ![r] = [now EXCEPT !.refs = IF go THEN @ + 1 ELSE @]]
      /\ act' = IF go THEN [act EXCEPT ![t] = [pc |-> "up", rail |-> r]] ELSE act
  BY DEF NativeEdge
<1>3. /\ now \in RailStates /\ now.listed = rail[r].listed /\ now.removing = rail[r].removing
      /\ now.ibdev = rail[r].ibdev /\ now.refs = rail[r].refs
  BY <1>1 DEF RailStates
<1> HIDE DEF now
<1>4. CASE go
  <2>1. RailKeeps(r) /\ rail'[r].refs = rail[r].refs + 1
    BY <1>1, <1>2, <1>3, <1>4, SameTyped, PickFacts
  <2>2. Moved(t, "up", r) /\ MayGo(t, "up", r)
    BY <1>1, <1>2, <1>4, SameTyped, JumpFacts DEF ActPcs, MayGo, Holding, InLock
  <2>3. ~rail[r].removing
    BY <1>3, <1>4
  <2> QED
    BY <1>1, <2>1, <2>2, <2>3, SameTyped, TakeInv
<1>5. CASE ~go
  <2>1. RailKeeps(r) /\ rail'[r].refs = rail[r].refs
    BY <1>1, <1>2, <1>3, <1>5, SameTyped DEF RailKeeps, RailStates
  <2>2. Moved(t, "idle", act[t].rail) /\ MayGo(t, "idle", act[t].rail)
    BY <1>1, <1>2, <1>5, SameTyped DEF Moved, At, MayGo, Holding, InLock
  <2>3. OthersTyped /\ Steady
    BY <1>1, <2>1, SameTyped DEF Steady, RailKeeps
  <2> QED
    BY <1>1, <2>1, <2>2, <2>3, MoveInv DEF RailKeeps
<1> QED
  BY <1>4, <1>5

\* Where init and exit are, and what that says of the other.
LEMMA Order ==
  ASSUME Inv
  PROVE  /\ "init" \in Threads /\ "exit" \in Threads /\ "init" # "exit"
         /\ act["exit"].pc # "idle" => act["init"].pc = "done"
         /\ act["exit"].pc \notin {"idle", "disable"} => ~st.enabled
         /\ act["exit"].pc \in {"flush2", "notifier", "detach", "cancel", "done"} =>
              \A r \in Rails : ~rail[r].ibdev
         /\ act["init"].pc \in {"services", "kick", "enable"} =>
              ~st.enabled /\ \A r \in Rails : ~rail[r].ibdev
  BY DEF Inv, StagesOK, Threads

\* What the record of a service becomes.
LEMMA SvcFacts ==
  ASSUME Inv, NEW r \in Rails, NEW p \in SvcPcs, svc' = [svc EXCEPT ![r].pc = p]
  PROVE  /\ svc' \in [Rails -> SvcStates] /\ svc'[r].pc = p
         /\ \A x \in Rails \ {r} : svc'[x] = svc[x]
  BY DEF Inv, TypeOK, SvcStates

-----------------------------------------------------------------------------
(* Publication and withdrawal.                                             *)

\* The exit withdraws a device unless somebody else has.
LEMMA ExitTakeInv ==
  ASSUME Inv, ExitTake
  PROVE  Inv'
<1> DEFINE r == act["exit"].rail
<1>1. /\ At("exit", "take") /\ ~Locked /\ UNCHANGED <<conf, svc, qp, st, todo, net, tb>>
      /\ r \in Rails /\ rail[r] \in RailStates /\ dev \in [Rails -> DevStates]
      /\ rail' = [rail EXCEPT ![r].ibdev = FALSE, ![r].deferred = FALSE]
  BY SameTyped, Order DEF ExitTake, Withdraw, At, Holding, Inv, TypeOK
<1>2. PICK p \in {"devgone", "put"} : Go("exit", p) /\ (p = "devgone" <=> rail[r].ibdev)
  BY <1>1 DEF ExitTake, RailStates
<1>3. Moved("exit", p, r)
  BY <1>2, SameTyped, Order, GoFacts DEF ActPcs
<1>4. /\ act'["exit"].pc = p /\ act'["exit"].rail = r
      /\ \A u \in Threads \ {"exit"} : act'[u] = act[u]
  BY <1>3 DEF Moved
<1>5. /\ rail' \in [Rails -> RailStates] /\ \A x \in Rails \ {r} : rail'[x] = rail[x]
      /\ rail'[r].ibdev = FALSE /\ rail'[r].listed = rail[r].listed
      /\ rail'[r].removing = rail[r].removing /\ rail'[r].refs = rail[r].refs
  BY <1>1, SameTyped DEF RailStates
<1>6. /\ dev' \in [Rails -> DevStates] /\ \A x \in Rails \ {r} : dev'[x] = dev[x]
      /\ IF rail[r].ibdev THEN dev'[r].st = "unreg" ELSE dev'[r] = dev[r]
  BY <1>1 DEF ExitTake, Withdraw, DevStates
<1>7. \A u \in Threads : act'[u].pc \notin InLock
  BY <1>1, <1>4 DEF Locked, InLock
<1>8. RefsExact' /\ UsersOK'
  <2>1. RefsKept /\ OwnRefKept
    BY <1>1, <1>4, <1>5 DEF RefsKept, OwnRefKept
  <2> QED
    BY <2>1, KeptFacts DEF Inv
<1>9. TypeOK' /\ conf'.late = FALSE
  BY <1>1, <1>3, <1>5, <1>6 DEF Inv, TypeOK, Moved
<1>10. ThreadsOK'
  BY <1>1, <1>4 DEF Inv, ThreadsOK, Holding, Threads
<1>11. ListedOK' /\ LockOK'
  BY <1>1, <1>5, <1>7 DEF Inv, ListedOK, LockOK
<1>12. DevOK'
  BY <1>1, <1>2, <1>4, <1>5, <1>6 DEF Inv, DevOK, At
<1>13. StagesOK'
  BY <1>1, <1>4, <1>5, Order DEF StagesOK, At
<1>14. NetOK'
  BY <1>1, <1>5, <1>6, <1>7 DEF Inv, NetOK, InLock
<1> QED
  BY <1>8, <1>9, <1>10, <1>11, <1>12, <1>13, <1>14 DEF Inv

\* The removal withdraws it unless somebody else has.
LEMMA RemoveDownInv ==
  ASSUME Inv, NEW r \in Rails, RemoveDown(r)
  PROVE  Inv'
<1>1. /\ svc[r].pc = "down" /\ ~Locked /\ UNCHANGED <<conf, qp, act, st, todo, net, tb>>
      /\ rail[r] \in RailStates /\ dev \in [Rails -> DevStates]
      /\ rail' = [rail EXCEPT ![r].ibdev = FALSE, ![r].deferred = FALSE]
  BY SameTyped DEF RemoveDown, Withdraw, Inv, TypeOK
<1>2. /\ svc' \in [Rails -> SvcStates] /\ \A x \in Rails \ {r} : svc'[x] = svc[x]
      /\ svc'[r].pc = IF rail[r].ibdev THEN "unreg" ELSE "cancel"
  BY DEF RemoveDown, Inv, TypeOK, SvcStates, SvcPcs
<1>3. /\ rail' \in [Rails -> RailStates] /\ \A x \in Rails \ {r} : rail'[x] = rail[x]
      /\ rail'[r].ibdev = FALSE /\ rail'[r].listed = rail[r].listed
      /\ rail'[r].removing = rail[r].removing /\ rail'[r].refs = rail[r].refs
  BY <1>1, SameTyped DEF RailStates
<1>4. /\ dev' \in [Rails -> DevStates] /\ \A x \in Rails \ {r} : dev'[x] = dev[x]
      /\ IF rail[r].ibdev THEN dev'[r].st = "unreg" ELSE dev'[r] = dev[r]
  BY <1>1 DEF RemoveDown, Withdraw, DevStates
<1>5. RefsExact' /\ UsersOK'
  <2>1. RefsKept /\ OwnRefKept
    BY <1>1, <1>2, <1>3 DEF RefsKept, OwnRefKept
  <2> QED
    BY <2>1, KeptFacts DEF Inv
<1>6. TypeOK' /\ conf'.late = FALSE
  BY <1>1, <1>2, <1>3, <1>4 DEF Inv, TypeOK
<1>7. ThreadsOK'
  BY <1>1 DEF Inv, ThreadsOK
<1>8. ListedOK'
  BY <1>1, <1>2, <1>3 DEF Inv, ListedOK, Withdrawn
<1>9. LockOK'
  BY <1>1 DEF LockOK, Locked, InLock
<1>10. DevOK'
  BY <1>1, <1>2, <1>3, <1>4 DEF Inv, DevOK, Withdrawn
<1>11. StagesOK'
  BY <1>1, <1>3 DEF Inv, StagesOK
<1>12. NetOK'
  BY <1>1, <1>3, <1>4 DEF Inv, NetOK, Locked
<1> QED
  BY <1>5, <1>6, <1>7, <1>8, <1>9, <1>10, <1>11, <1>12 DEF Inv

\* The rail leaves the list and is freed: nobody used it.
LEMMA RemoveFreeInv ==
  ASSUME Inv, NEW r \in Rails, RemoveFree(r)
  PROVE  Inv'
<1>1. /\ svc[r].pc = "unlink" /\ UNCHANGED <<conf, dev, qp, act, todo, net, tb>>
      /\ rail' = [rail EXCEPT ![r] = NoRail] /\ rail[r].listed /\ ~rail[r].ibdev
      /\ rail[r].refs = 0
  BY DEF RemoveFree, Inv, ListedOK, DevOK, Withdrawn
<1>2. /\ svc' \in [Rails -> SvcStates] /\ svc'[r].pc = "gone"
      /\ \A x \in Rails \ {r} : svc'[x] = svc[x]
  BY SvcFacts DEF RemoveFree, SvcPcs
<1>3. /\ rail' \in [Rails -> RailStates] /\ \A x \in Rails \ {r} : rail'[x] = rail[x]
      /\ rail'[r].listed = FALSE /\ rail'[r].ibdev = FALSE
  <2>1. NoRail \in RailStates /\ NoRail.listed = FALSE /\ NoRail.ibdev = FALSE
    BY DEF NoRail, RailStates
  <2> QED
    BY <1>1, <2>1, SameTyped
<1>4. /\ st' \in [enabled : BOOLEAN, services : BOOLEAN, pending : BOOLEAN, notifier : BOOLEAN]
      /\ st'.enabled = st.enabled /\ st'.notifier = st.notifier
  BY DEF RemoveFree, Inv, TypeOK
<1>5. Holders(r) = {} /\ QpsOn(r) = {}
  <2>1. /\ Cardinality(Holders(r)) \in Nat /\ Cardinality(QpsOn(r)) \in Nat
        /\ IsFiniteSet(Holders(r)) /\ IsFiniteSet(QpsOn(r))
    BY CountFacts
  <2>2. 0 = 0 + Cardinality(Holders(r)) + Cardinality(QpsOn(r))
    BY <1>1 DEF Inv, RefsExact
  <2>3. Cardinality(Holders(r)) = 0 /\ Cardinality(QpsOn(r)) = 0
    BY <2>1, <2>2
  <2> QED
    BY <2>1, <2>3, FS_EmptySet
<1>6. \A x \in Rails : Holders(x)' = Holders(x) /\ QpsOn(x)' = QpsOn(x)
  BY <1>1 DEF Holders, QpsOn
<1>7. RefsExact' /\ UsersOK'
  BY <1>1, <1>2, <1>3, <1>5, <1>6 DEF Inv, RefsExact, UsersOK
<1>8. TypeOK' /\ conf'.late = FALSE
  BY <1>1, <1>2, <1>3, <1>4 DEF Inv, TypeOK
<1>9. ThreadsOK'
  BY <1>1 DEF Inv, ThreadsOK
<1>10. ListedOK'
  BY <1>2, <1>3 DEF Inv, ListedOK, Withdrawn
<1>11. \A u \in Threads : act[u].rail # r
  BY <1>5 DEF Holders
<1>12. LockOK'
  <2>1. \A u \in Threads : act[u].pc \in InLock => act[u].rail \in Rails \ {r}
    BY <1>11 DEF Inv, ThreadsOK, InLock, Holding
  <2> QED
    BY <1>1, <1>2, <1>3, <1>4, <2>1 DEF Inv, LockOK
<1>13. DevOK'
  BY <1>1, <1>2, <1>3 DEF Inv, DevOK, Withdrawn
<1>14. StagesOK' /\ NetOK'
  BY <1>1, <1>3, <1>4 DEF Inv, StagesOK, NetOK
<1> QED
  BY <1>7, <1>8, <1>9, <1>10, <1>12, <1>13, <1>14 DEF Inv

\* tbv_init()
LEMMA ModuleInitInv ==
  ASSUME Inv, ModuleInit
  PROVE  Inv'
<1>1. CASE InitServices
  <2>1. Moved("init", "kick", act["init"].rail)
    BY <1>1, SameTyped, Order, GoFacts DEF InitServices, ActPcs
  <2>2. MayGo("init", "kick", act["init"].rail)
    BY <1>1, SameTyped, Order DEF InitServices, At, MayGo, Holding, InLock
  <2>3. OthersTyped /\ Steady
    BY <1>1, SameTyped DEF InitServices, OthersTyped, Steady, Inv, TypeOK
  <2> QED
    BY <1>1, <2>1, <2>2, <2>3, SameTyped, Order, MoveInv DEF InitServices
<1>2. CASE InitKick
  <2>1. Moved("init", "enable", act["init"].rail)
    BY <1>2, SameTyped, Order, GoFacts DEF InitKick, ActPcs
  <2>2. MayGo("init", "enable", act["init"].rail)
    BY <1>2, SameTyped, Order DEF InitKick, At, MayGo, Holding, InLock
  <2>3. OthersTyped /\ Steady
    BY <1>2, SameTyped DEF InitKick, OthersTyped, Steady, Inv, TypeOK
  <2> QED
    BY <1>2, <2>1, <2>2, <2>3, SameTyped, Order, MoveInv DEF InitKick
<1>3. CASE InitEnable
  <2>1. /\ At("init", "enable") /\ ~Locked /\ UNCHANGED <<conf, rail, svc, dev, qp, todo, net, tb>>
        /\ st' = [st EXCEPT !.enabled = TRUE, !.notifier = TRUE]
    BY <1>3 DEF InitEnable
  <2>2. Moved("init", "scan", act["init"].rail) /\ act["init"].rail = Nobody
    BY <1>3, <2>1, SameTyped, Order, GoFacts DEF InitEnable, ActPcs, At, Holding
  <2>3. (\A r \in Rails : ~rail[r].ibdev) /\ act["exit"].pc = "idle"
    BY <2>1, Order DEF At
  <2>4. \A u \in Threads : act'[u].pc \notin InLock
    BY <2>1, <2>2 DEF Locked, InLock, Moved
  <2>5. RefsExact' /\ UsersOK'
    BY <2>1, <2>2, KeptFacts DEF RefsKept, OwnRefKept, Moved, Inv
  <2>6. TypeOK' /\ conf'.late = FALSE
    BY <2>1, <2>2 DEF Inv, TypeOK, Moved
  <2>7. act'["init"].pc = "scan" /\ act'["init"].rail = Nobody
        /\ \A u \in Threads \ {"init"} : act'[u] = act[u]
    BY <2>2 DEF Moved
  <2>8. ThreadsOK'
    BY <2>7 DEF Inv, ThreadsOK, Holding, Threads
  <2>9. ListedOK' /\ LockOK'
    BY <2>1, <2>4 DEF Inv, ListedOK, LockOK
  <2>10. DevOK' /\ StagesOK'
    BY <2>1, <2>3, <2>7, Order DEF Inv, DevOK, StagesOK
  <2>11. NetOK'
    BY <2>1, <2>3, <2>4 DEF NetOK, InLock
  <2> QED
    BY <2>5, <2>6, <2>8, <2>9, <2>10, <2>11 DEF Inv
<1>4. CASE InitScan
  <2>1. /\ At("init", "scan") /\ UNCHANGED <<conf, svc, dev, qp, st, todo, net, tb>>
        /\ act["init"].pc \notin Holding
    BY <1>4 DEF InitScan, At, Holding
  <2>2. CASE Missed # {}
    <3>1. PICK r \in Missed : Pick("init", r, "up")
      BY <1>4, <2>2 DEF InitScan
    <3>2. r \in Rails /\ rail[r].listed /\ ~rail[r].removing
      BY <3>1 DEF Missed, PublishReady
    <3>3. Moved("init", "up", r) /\ MayGo("init", "up", r)
      BY <2>1, <3>1, <3>2, SameTyped, Order, JumpFacts DEF Pick, ActPcs, MayGo, Holding, InLock, At
    <3>4. RailKeeps(r) /\ rail'[r].refs = rail[r].refs + 1
      BY <3>1, <3>2, SameTyped, PickFacts DEF Pick
    <3> QED
      BY <2>1, <3>2, <3>3, <3>4, SameTyped, Order, TakeInv
  <2>3. CASE Missed = {}
    <3>1. Go("init", "done") /\ UNCHANGED rail /\ act["init"].rail = Nobody
      BY <1>4, <2>1, <2>3, SameTyped, Order DEF InitScan
    <3>2. Moved("init", "done", act["init"].rail) /\ MayGo("init", "done", act["init"].rail)
      BY <2>1, <3>1, SameTyped, Order, GoFacts DEF ActPcs, MayGo, Holding, InLock, At
    <3> QED
      BY <2>1, <3>1, <3>2, SameTyped, Order, MoveInv
  <2> QED
    BY <2>2, <2>3
<1> QED
  BY <1>1, <1>2, <1>3, <1>4 DEF ModuleInit

\* Exit goes on to p with the rail it has, and only works, pending and the
\* notifier change.
LEMMA ExitGoes ==
  ASSUME Inv, NEW p \in ActPcs, Go("exit", p), MayGo("exit", p, act["exit"].rail),
         UNCHANGED <<conf, rail, svc, dev, qp, net, tb>>, st'.enabled = st.enabled,
         st' \in [enabled : BOOLEAN, services : BOOLEAN, pending : BOOLEAN, notifier : BOOLEAN],
         todo' \in [apple : BOOLEAN, retry : BOOLEAN], ~st.notifier => ~st'.notifier
  PROVE  Inv'
<1>1. Moved("exit", p, act["exit"].rail)
  BY SameTyped, Order, GoFacts
<1>2. OthersTyped /\ Steady
  BY DEF OthersTyped, Steady, Inv, TypeOK
<1> QED
  BY <1>1, <1>2, SameTyped, Order, MoveInv

\* tbv_exit()
LEMMA ModuleExitInv ==
  ASSUME Inv, ExitStart \/ ModuleExit
  PROVE  Inv'
<1> DEFINE r == act["exit"].rail
<1>0. /\ st \in [enabled : BOOLEAN, services : BOOLEAN, pending : BOOLEAN, notifier : BOOLEAN]
      /\ todo \in [apple : BOOLEAN, retry : BOOLEAN]
      /\ \A p : p \in {"disable", "quiesce", "flush", "unreg", "flush2", "notifier", "detach",
                       "cancel", "done"} =>
           p \in ActPcs /\ p \notin InLock /\ p \notin Holding
  BY DEF Inv, TypeOK, ActPcs, InLock, Holding
<1>1. CASE ExitStart
  <2>1. MayGo("exit", "disable", r)
    BY <1>0, <1>1, SameTyped, Order DEF ExitStart, At, MayGo, Holding
  <2> QED
    BY <1>0, <1>1, <2>1, ExitGoes DEF ExitStart
<1>2. CASE ExitDisable
  <2>1. /\ At("exit", "disable") /\ ~Locked /\ UNCHANGED <<conf, rail, svc, dev, qp, todo, net, tb>>
        /\ st' = [st EXCEPT !.enabled = FALSE] /\ act["exit"].rail = Nobody
    BY <1>2, SameTyped, Order DEF ExitDisable, At, Holding
  <2>2. Moved("exit", "quiesce", Nobody)
    BY <1>0, <1>2, <2>1, SameTyped, Order, GoFacts DEF ExitDisable
  <2>3. act'["exit"].pc = "quiesce" /\ act'["exit"].rail = Nobody
        /\ \A u \in Threads \ {"exit"} : act'[u] = act[u]
    BY <2>2 DEF Moved
  <2>4. \A u \in Threads : act'[u].pc \notin InLock
    BY <2>1, <2>3 DEF Locked, InLock
  <2>5. RefsExact' /\ UsersOK'
    BY <2>1, <2>3, KeptFacts DEF RefsKept, OwnRefKept, Inv
  <2>6. TypeOK' /\ conf'.late = FALSE
    BY <2>1, <2>2 DEF Inv, TypeOK, Moved
  <2>7. ThreadsOK'
    BY <2>3 DEF Inv, ThreadsOK, Holding, Threads
  <2>8. ListedOK' /\ LockOK'
    BY <2>1, <2>4 DEF Inv, ListedOK, LockOK
  <2>9. DevOK'
    BY <2>1, <2>3 DEF Inv, DevOK, At
  <2>10. StagesOK'
    BY <1>0, <2>1, <2>3, Order DEF StagesOK, At
  <2>11. NetOK'
    BY <2>1, <2>4, <1>0 DEF Inv, NetOK, InLock
  <2> QED
    BY <2>5, <2>6, <2>7, <2>8, <2>9, <2>10, <2>11 DEF Inv
<1>3. CASE ExitQuiesce
  <2>1. /\ At("exit", "quiesce") /\ UNCHANGED <<conf, svc, dev, qp, st, todo, net, tb>>
        /\ act["exit"].pc \notin Holding
    BY <1>3 DEF ExitQuiesce, At, Holding
  <2>2. CASE Unquiesced = {}
    <3>1. MayGo("exit", "flush", r)
      BY <1>0, <2>1, SameTyped, Order DEF At, MayGo
    <3> QED
      BY <1>0, <1>3, <2>1, <2>2, <3>1, ExitGoes DEF ExitQuiesce
  <2>3. CASE Unquiesced # {}
    <3>1. PICK x \in Unquiesced :
            /\ rail[x].refs > 0 \/ conf.late
            /\ act' = [act EXCEPT !["exit"] = [pc |-> "qput", rail |-> x]]
            /\ rail' = [rail EXCEPT ![x].quiesced = TRUE, ![x].refs = @ + 1]
      BY <1>3, <2>3 DEF ExitQuiesce
    <3>2. x \in Rails /\ rail[x].listed /\ rail[x].refs > 0
      BY <3>1 DEF Unquiesced, Inv
    <3>3. Moved("exit", "qput", x) /\ MayGo("exit", "qput", x)
      BY <2>1, <3>1, <3>2, SameTyped, Order, JumpFacts DEF ActPcs, MayGo, Holding, InLock, At
    <3>4. RailKeeps(x) /\ rail'[x].refs = rail[x].refs + 1
      <4> DEFINE y == [rail[x] EXCEPT !.quiesced = TRUE]
      <4>1. rail' = [rail EXCEPT ![x] = [y EXCEPT !.refs = @ + 1]]
        BY <3>1, <3>2, SameTyped
      <4>2. /\ y \in RailStates /\ y.listed = rail[x].listed /\ y.removing = rail[x].removing
            /\ y.ibdev = rail[x].ibdev /\ y.refs = rail[x].refs
        BY <3>2, SameTyped DEF RailStates
      <4> QED
        BY <3>2, <4>1, <4>2, SameTyped, PickFacts
    <3> QED
      BY <2>1, <3>2, <3>3, <3>4, SameTyped, Order, TakeInv
  <2> QED
    BY <2>2, <2>3
<1>4. CASE ExitQuiesced
  <2>1. Moved("exit", "quiesce", Nobody)
    BY <1>0, <1>4, SameTyped, Order, JumpFacts DEF ExitQuiesced
  <2>2. MayGo("exit", "quiesce", Nobody) /\ act["exit"].pc \in Holding
    BY <1>0, <1>4, Order DEF ExitQuiesced, At, MayGo, Holding
  <2> QED
    BY <1>4, <2>1, <2>2, SameTyped, Order, GiveInv DEF ExitQuiesced
<1>5. CASE ExitFlush
  <2>1. CASE At("exit", "flush")
    <3>1. MayGo("exit", "unreg", r)
      BY <1>0, <2>1, SameTyped, Order DEF At, MayGo
    <3> QED
      BY <1>0, <1>5, <2>1, <3>1, ExitGoes DEF ExitFlush
  <2>2. CASE At("exit", "flush2") /\ ~At("exit", "flush")
    <3>1. MayGo("exit", "notifier", r)
      BY <1>0, <2>2, SameTyped, Order DEF At, MayGo
    <3> QED
      BY <1>0, <1>5, <2>2, <3>1, ExitGoes DEF ExitFlush
  <2> QED
    BY <1>5, <2>1, <2>2 DEF ExitFlush, At
<1>6. CASE ExitUnregister
  <2> DEFINE left == {x \in Rails : rail[x].listed /\ rail[x].ibdev}
  <2>1. /\ At("exit", "unreg") /\ UNCHANGED <<conf, svc, dev, qp, st, todo, net, tb>>
        /\ act["exit"].pc \notin Holding
    BY <1>6 DEF ExitUnregister, At, Holding
  <2>2. CASE left = {}
    <3>1. \A x \in Rails : ~rail[x].ibdev
      BY <2>2 DEF Inv, DevOK
    <3>2. MayGo("exit", "flush2", r)
      BY <1>0, <2>1, <3>1, SameTyped, Order DEF At, MayGo
    <3> QED
      BY <1>0, <1>6, <2>1, <2>2, <3>2, ExitGoes DEF ExitUnregister
  <2>3. CASE left # {}
    <3>1. PICK x \in left : Pick("exit", x, "take")
      BY <1>6, <2>3 DEF ExitUnregister
    <3>2. x \in Rails /\ rail[x].listed /\ rail[x].refs > 0
      <4>1. x \in Rails /\ rail[x].listed /\ svc[x].pc \notin {"wait", "unlink"}
        BY <3>1 DEF Inv, DevOK, Withdrawn
      <4> QED
        BY <4>1, CountFacts DEF Inv, RefsExact
    <3>3. Moved("exit", "take", x) /\ MayGo("exit", "take", x)
      BY <2>1, <3>1, <3>2, SameTyped, Order, JumpFacts DEF Pick, ActPcs, MayGo, Holding, InLock, At
    <3>4. RailKeeps(x) /\ rail'[x].refs = rail[x].refs + 1
      BY <3>1, <3>2, SameTyped, PickFacts DEF Pick
    <3> QED
      BY <2>1, <3>2, <3>3, <3>4, SameTyped, Order, TakeInv
  <2> QED
    BY <2>2, <2>3
<1>7. CASE ExitTake
  <2> QED
    BY <1>7, ExitTakeInv
<1>8. CASE ExitUnregistered
  <2>1. MayGo("exit", "put", r) /\ "put" \in ActPcs
    BY <1>8, SameTyped, Order DEF ExitUnregistered, At, MayGo, Holding, InLock, ActPcs
  <2> QED
    BY <1>0, <1>8, <2>1, ExitGoes DEF ExitUnregistered
<1>9. CASE ExitNotifier
  <2>1. MayGo("exit", "detach", r)
    BY <1>0, <1>9, SameTyped, Order DEF ExitNotifier, At, MayGo, Holding
  <2> QED
    BY <1>0, <1>9, <2>1, ExitGoes DEF ExitNotifier
<1>10. CASE ExitDetached
  <2>1. MayGo("exit", "cancel", r)
    BY <1>0, <1>10, SameTyped, Order DEF ExitDetached, At, MayGo, Holding
  <2> QED
    BY <1>0, <1>10, <2>1, ExitGoes DEF ExitDetached
<1>11. CASE ExitCancel
  <2>1. MayGo("exit", "done", r)
    BY <1>0, <1>11, SameTyped, Order DEF ExitCancel, At, MayGo, Holding
  <2> QED
    BY <1>0, <1>11, <2>1, ExitGoes DEF ExitCancel
<1> QED
  BY <1>1, <1>2, <1>3, <1>4, <1>5, <1>6, <1>7, <1>8, <1>9, <1>10, <1>11 DEF ModuleExit

\* The thread that holds the lock goes on, or back, without a device: it may
\* have taken or released the netdev.
LEMMA LockedInv ==
  ASSUME Inv, NEW t \in Threads, NEW p \in {"register", "defer", "put", "failed"},
         act[t].pc \in InLock, t # "exit", p = "failed" => t = "apple", Moved(t, p, act[t].rail),
         RailKeeps(act[t].rail), rail'[act[t].rail].refs = rail[act[t].rail].refs,
         NEW a \in BOOLEAN, a => net.exists, dev' \in [Rails -> DevStates],
         \A x \in Rails \ {act[t].rail} : dev'[x] = dev[x],
         dev'[act[t].rail].st = dev[act[t].rail].st, dev'[act[t].rail].att = a,
         OthersTyped, UNCHANGED <<svc, qp, st, net>>
  PROVE  Inv'
<1> DEFINE r == act[t].rail
<1>1. /\ r \in Rails /\ st.enabled /\ ~rail[r].ibdev /\ dev[r].st = "none"
      /\ svc[r].pc \notin Withdrawn
  BY DEF Inv, LockOK, ThreadsOK, InLock, Holding
<1>2. act'[t].pc = p /\ act'[t].rail = r /\ \A u \in Threads \ {t} : act'[u] = act[u]
  BY DEF Moved
<1>3. /\ \A x \in Rails : /\ rail'[x].listed = rail[x].listed /\ rail'[x].refs = rail[x].refs
                          /\ rail'[x].removing = rail[x].removing /\ rail'[x].ibdev = rail[x].ibdev
                          /\ dev'[x].st = dev[x].st
  BY <1>1 DEF RailKeeps
<1>4. RefsExact' /\ UsersOK'
  BY <1>2, <1>3, KeptFacts DEF RefsKept, OwnRefKept, Inv
<1>5. TypeOK' /\ conf'.late = FALSE
  BY DEF Inv, TypeOK, Moved, RailKeeps, OthersTyped
<1>6. ThreadsOK'
  BY <1>1, <1>2 DEF Inv, ThreadsOK, Holding, Threads
<1>7. ListedOK'
  BY <1>3 DEF Inv, ListedOK
<1>8. LockOK'
  <2>1. \A u \in Threads : act'[u].pc \in InLock => u = t
    BY <1>2 DEF Inv, LockOK
  <2> QED
    BY <1>1, <1>2, <1>3, <2>1 DEF LockOK
<1>9. DevOK'
  <2>1. act'["exit"] = act["exit"]
    BY <1>2, Order
  <2> QED
    BY <1>3, <2>1 DEF Inv, DevOK
<1>10. StagesOK'
  <2>1. act'["exit"] = act["exit"]
    BY <1>2, Order
  <2>2. act'["init"].pc = "done" <=> act["init"].pc = "done"
    BY <1>2, Order DEF InLock
  <2>3. act'["init"].pc \notin {"services", "kick", "enable"}
    BY <1>1, <1>2, Order
  <2> QED
    BY <1>1, <1>3, <2>1, <2>2, <2>3 DEF Inv, StagesOK
<1>11. NetOK'
  <2> SUFFICES ASSUME NEW x \in Rails, dev'[x].att,
                      rail'[x].ibdev \/ \E u \in Threads : act'[u].pc = "register" /\ act'[u].rail = x
               PROVE  net.exists \/ net.gone \/ ~st.notifier
    BY DEF NetOK
  <2>1. CASE x = r
    BY <2>1
  <2>2. CASE x # r
    <3>1. \A u \in Threads : act'[u].pc = "register" /\ act'[u].rail = x => act'[u] = act[u]
      BY <1>2, <2>2
    <3> QED
      BY <1>3, <2>2, <3>1 DEF Inv, NetOK
  <2> QED
    BY <2>1, <2>2
<1> QED
  BY <1>4, <1>5, <1>6, <1>7, <1>8, <1>9, <1>10, <1>11 DEF Inv

\* It has registered the device.
LEMMA RegisteredInv ==
  ASSUME Inv, NEW t \in Threads, act[t].pc = "register", t # "exit",
         Moved(t, "put", act[t].rail), dev' \in [Rails -> DevStates],
         \A x \in Rails \ {act[t].rail} : dev'[x] = dev[x],
         dev'[act[t].rail].st = "reg", dev'[act[t].rail].att = dev[act[t].rail].att,
         rail' \in [Rails -> RailStates], \A x \in Rails \ {act[t].rail} : rail'[x] = rail[x],
         rail'[act[t].rail].ibdev = TRUE, rail'[act[t].rail].listed = rail[act[t].rail].listed,
         rail'[act[t].rail].removing = rail[act[t].rail].removing,
         rail'[act[t].rail].refs = rail[act[t].rail].refs,
         UNCHANGED <<conf, svc, qp, st, todo, net, tb>>
  PROVE  Inv'
<1> DEFINE r == act[t].rail
<1>1. /\ r \in Rails /\ st.enabled /\ ~rail[r].ibdev /\ dev[r].st = "none"
      /\ svc[r].pc \notin Withdrawn
  BY DEF Inv, LockOK, ThreadsOK, InLock, Holding
<1>2. act'[t].pc = "put" /\ act'[t].rail = r /\ \A u \in Threads \ {t} : act'[u] = act[u]
  BY DEF Moved
<1>3. rail[r].listed
  BY <1>1 DEF Inv, UsersOK, Holders
<1>4. \A x \in Rails : /\ rail'[x].listed = rail[x].listed /\ rail'[x].refs = rail[x].refs
                       /\ rail'[x].removing = rail[x].removing
  BY <1>1
<1>5. RefsExact' /\ UsersOK'
  BY <1>2, <1>4, KeptFacts DEF RefsKept, OwnRefKept, Inv
<1>6. TypeOK' /\ conf'.late = FALSE
  BY DEF Inv, TypeOK, Moved
<1>7. ThreadsOK'
  BY <1>1, <1>2 DEF Inv, ThreadsOK, Holding, Threads
<1>8. ListedOK'
  BY <1>4 DEF Inv, ListedOK
<1>9. LockOK'
  <2>1. \A u \in Threads : act'[u].pc \notin InLock
    BY <1>2 DEF Inv, LockOK, InLock
  <2> QED
    BY <2>1 DEF LockOK
<1>10. act'["exit"] = act["exit"] /\ act["exit"].pc \in {"idle", "disable"}
  BY <1>1, <1>2, Order
<1>11. DevOK'
  BY <1>1, <1>2, <1>3, <1>4, <1>10 DEF Inv, DevOK
<1>12. StagesOK'
  <2>1. act'["init"].pc = "done" <=> act["init"].pc = "done"
    BY <1>2, Order
  <2>2. act'["init"].pc \notin {"services", "kick", "enable"}
    BY <1>1, <1>2, Order
  <2> QED
    BY <1>10, <2>1, <2>2, Order DEF StagesOK
<1>13. NetOK'
  <2> SUFFICES ASSUME NEW x \in Rails, dev'[x].att,
                      rail'[x].ibdev \/ \E u \in Threads : act'[u].pc = "register" /\ act'[u].rail = x
               PROVE  net.exists \/ net.gone \/ ~st.notifier
    BY DEF NetOK
  <2>1. CASE x = r
    BY <1>1, <2>1 DEF Inv, NetOK
  <2>2. CASE x # r
    BY <1>1, <1>2, <2>2 DEF Inv, NetOK
  <2> QED
    BY <2>1, <2>2
<1> QED
  BY <1>5, <1>6, <1>7, <1>8, <1>9, <1>11, <1>12, <1>13 DEF Inv

\* tbv_ibdev_rail_event() keeps it, on whichever thread it runs.
LEMMA PublishInv ==
  ASSUME Inv, NEW t \in Threads, Publish(t)
  PROVE  Inv'
<1> DEFINE r == act[t].rail
<1>0. t # "exit" \/ act["exit"].pc = "put"
  BY DEF Publish, Up, Attach, Register, RegisterFails, Defer, Put, At, Inv, ThreadsOK
<1>1. CASE Up(t)
  <2>1. /\ At(t, "up") /\ ~Locked /\ UNCHANGED <<conf, rail, svc, dev, qp, st, todo, net, tb>>
        /\ r \in Rails /\ t # "exit" /\ act[t].pc # "done"
    BY <1>0, <1>1, SameTyped DEF Up, At, Holding
  <2>2. CASE Go(t, "put")
    <3>1. Moved(t, "put", r) /\ MayGo(t, "put", r)
      BY <2>1, <2>2, SameTyped, GoFacts DEF ActPcs, MayGo, Holding, InLock
    <3> QED
      BY <2>1, <3>1, SameTyped, MoveInv
  <2>3. CASE Go(t, "attach") /\ st.enabled /\ ~rail[r].ibdev /\ ~rail[r].removing
    <3>1. Moved(t, "attach", r)
      BY <2>3, SameTyped, GoFacts DEF ActPcs
    <3>2. /\ act'[t].pc = "attach" /\ act'[t].rail = r
          /\ \A u \in Threads \ {t} : act'[u] = act[u]
      BY <3>1 DEF Moved
    <3>3. svc[r].pc \notin Withdrawn /\ dev[r].st = "none"
      <4>1. svc[r].pc \notin Withdrawn
        BY <2>1, <2>3 DEF Inv, ListedOK
      <4>2. act["exit"].pc # "devgone" /\ dev[r] \in DevStates
        BY <2>1, <2>3, Order DEF Inv, TypeOK
      <4> QED
        BY <2>1, <2>3, <4>1, <4>2 DEF Inv, DevOK, DevStates, Withdrawn
    <3>4. RefsExact' /\ UsersOK'
      BY <2>1, <3>2, KeptFacts DEF RefsKept, OwnRefKept, Inv
    <3>5. TypeOK' /\ conf'.late = FALSE
      BY <2>1, <3>1 DEF Inv, TypeOK, Moved
    <3>6. ThreadsOK'
      BY <2>1, <2>3, <3>2, Order DEF Inv, ThreadsOK, Holding, Threads
    <3>7. LockOK'
      <4>1. \A u \in Threads : act'[u].pc \in InLock => u = t
        BY <2>1, <3>2 DEF Locked, InLock
      <4> QED
        BY <2>1, <2>3, <3>2, <3>3, <4>1 DEF LockOK
    <3>8. ListedOK' /\ DevOK'
      BY <2>1, <3>2, Order DEF Inv, ListedOK, DevOK
    <3>9. StagesOK'
      BY <2>1, <2>3, <3>2, Order DEF Inv, StagesOK, At
    <3>10. NetOK'
      BY <2>1, <3>2 DEF Inv, NetOK
    <3> QED
      BY <3>4, <3>5, <3>6, <3>7, <3>8, <3>9, <3>10 DEF Inv
  <2> QED
    BY <1>1, <2>2, <2>3 DEF Up, PublishReady
<1>2. CASE Attach(t)
  <2>1. /\ act[t].pc \in InLock /\ UNCHANGED <<conf, rail, svc, qp, st, todo, net, tb>> /\ r \in Rails
        /\ t # "exit" /\ dev \in [Rails -> DevStates] /\ dev[r] \in DevStates
    BY <1>0, <1>2, SameTyped DEF Attach, At, Holding, InLock, Inv, TypeOK
  <2>2. PICK p \in {"register", "defer"}, a \in BOOLEAN :
          Go(t, p) /\ dev' = [dev EXCEPT ![r].att = a] /\ (a => net.exists)
    BY <1>2 DEF Attach, NetdevThere, Inv, TypeOK, Conf
  <2>3. Moved(t, p, r)
    BY <2>2, SameTyped, GoFacts DEF ActPcs
  <2>4. /\ dev' \in [Rails -> DevStates] /\ \A x \in Rails \ {r} : dev'[x] = dev[x]
        /\ dev'[r].st = dev[r].st /\ dev'[r].att = a
    BY <2>1, <2>2 DEF DevStates
  <2>5. RailKeeps(r) /\ rail'[r].refs = rail[r].refs
    BY <2>1, SameTyped DEF RailKeeps
  <2> QED
    BY <2>1, <2>2, <2>3, <2>4, <2>5, SameTyped, LockedInv
<1>3. CASE Register(t)
  <2>1. /\ act[t].pc = "register" /\ UNCHANGED <<conf, svc, qp, st, todo, net, tb>> /\ r \in Rails
        /\ t # "exit" /\ dev \in [Rails -> DevStates] /\ dev[r] \in DevStates
        /\ rail[r] \in RailStates
    BY <1>0, <1>3, SameTyped DEF Register, At, Holding, InLock, Inv, TypeOK
  <2>2. Moved(t, "put", r)
    BY <1>3, SameTyped, GoFacts DEF Register, ActPcs
  <2>3. /\ dev' \in [Rails -> DevStates] /\ \A x \in Rails \ {r} : dev'[x] = dev[x]
        /\ dev'[r].st = "reg" /\ dev'[r].att = dev[r].att
    BY <1>3, <2>1 DEF Register, DevStates
  <2>4. /\ rail' \in [Rails -> RailStates] /\ \A x \in Rails \ {r} : rail'[x] = rail[x]
        /\ rail'[r].ibdev = TRUE /\ rail'[r].listed = rail[r].listed
        /\ rail'[r].removing = rail[r].removing /\ rail'[r].refs = rail[r].refs
    BY <1>3, <2>1, SameTyped DEF Register, RailStates
  <2> QED
    BY <2>1, <2>2, <2>3, <2>4, RegisteredInv
<1>4. CASE RegisterFails(t)
  <2>1. /\ act[t].pc \in InLock /\ UNCHANGED <<svc, qp, st, todo, net, tb>> /\ r \in Rails
        /\ t # "exit" /\ dev \in [Rails -> DevStates] /\ dev[r] \in DevStates
        /\ rail[r] \in RailStates
    BY <1>0, <1>4, SameTyped DEF RegisterFails, At, Holding, InLock, Inv, TypeOK
  <2>2. PICK p \in {"put", "failed"} : Go(t, p) /\ (p = "failed" => t = "apple")
    BY <1>4 DEF RegisterFails, Failed
  <2>3. Moved(t, p, r)
    BY <2>2, SameTyped, GoFacts DEF ActPcs
  <2>4. /\ dev' \in [Rails -> DevStates] /\ \A x \in Rails \ {r} : dev'[x] = dev[x]
        /\ dev'[r].st = dev[r].st /\ dev'[r].att = FALSE
    BY <1>4, <2>1 DEF RegisterFails, DevStates
  <2>5. RailKeeps(r) /\ rail'[r].refs = rail[r].refs
    BY <1>4, <2>1, SameTyped DEF RegisterFails, RailKeeps, RailStates
  <2>6. OthersTyped
    <3>1. conf' \in Conf /\ conf'.late = FALSE
      BY <1>4, SpendFacts DEF RegisterFails, Inv, TypeOK
    <3> QED
      BY <2>1, <3>1 DEF OthersTyped, Inv, TypeOK
  <2> QED
    BY <2>1, <2>2, <2>3, <2>4, <2>5, <2>6, LockedInv
<1>5. CASE Defer(t)
  <2>1. /\ At(t, "defer") /\ UNCHANGED <<conf, svc, dev, qp, st, todo, net, tb>>
        /\ r \in Rails /\ t # "exit" /\ rail' = [rail EXCEPT ![r].deferred = TRUE]
        /\ act[t].pc # "done"
    BY <1>0, <1>5, SameTyped DEF Defer, At, Holding
  <2>2. PICK p \in {"put", "failed"} : Go(t, p) /\ (p = "failed" => t = "apple")
    BY <1>5 DEF Defer, Failed
  <2>3. Moved(t, p, r) /\ MayGo(t, p, r)
    BY <2>1, <2>2, SameTyped, GoFacts DEF ActPcs, MayGo, Holding, InLock
  <2>4. RailKeeps(r) /\ rail'[r].refs = rail[r].refs
    BY <2>1, SameTyped DEF RailKeeps, RailStates
  <2>5. OthersTyped /\ Steady
    BY <2>1, <2>4, SameTyped DEF Steady, RailKeeps
  <2> QED
    BY <2>1, <2>3, <2>4, <2>5, MoveInv DEF RailKeeps
<1>6. CASE Put(t)
  <2>1. PICK p \in {"idle", "next", "scan", "unreg"} :
          /\ act' = [act EXCEPT ![t] = [pc |-> p, rail |-> Nobody]]
          /\ t = "init" => p = "scan"
          /\ t = "exit" => p = "unreg"
    BY <1>6 DEF Put, PutNext, Threads
  <2>2. p \in ActPcs /\ p \notin InLock /\ p \notin Holding
    BY DEF ActPcs, InLock, Holding
  <2>3. Moved(t, p, Nobody)
    BY <2>1, <2>2, SameTyped, JumpFacts
  <2>4. MayGo(t, p, Nobody) /\ act[t].pc \in Holding
    BY <1>6, <2>1, <2>2, Order DEF Put, At, MayGo, Holding
  <2> QED
    BY <1>6, <2>3, <2>4, SameTyped, GiveInv DEF Put
<1> QED
  BY <1>1, <1>2, <1>3, <1>4, <1>5, <1>6 DEF Publish

-----------------------------------------------------------------------------
(* Services: probe and removal.                                            *)

\* The service of rail r goes on to p while every thread stays where it is; the
\* rail keeps its device and its place in the list.
SvcGoes(r, p) ==
  /\ svc' \in [Rails -> SvcStates] /\ svc'[r].pc = p
  /\ \A x \in Rails \ {r} : svc'[x] = svc[x] /\ rail'[x] = rail[x]
  /\ rail' \in [Rails -> RailStates]
  /\ rail'[r].listed = rail[r].listed /\ rail'[r].ibdev = rail[r].ibdev
  /\ svc[r].pc \notin {"absent", "gone"} /\ p \notin {"absent", "gone"}
  /\ p \in Withdrawn \cup {"quiesce", "down"} => rail'[r].removing
  /\ p = "unlink" => rail'[r].refs = 0
  /\ p \in Withdrawn => svc[r].pc \in Withdrawn
  /\ svc[r].pc = "unreg" => p = "unreg" \/ dev[r].st = "none"
  /\ UNCHANGED <<dev, qp, act, net, tb>> /\ OthersTyped
  /\ st'.enabled = st.enabled /\ st'.notifier = st.notifier

\* A service that goes on so keeps the invariant, if the counts are right.
LEMMA SvcInv ==
  ASSUME Inv, NEW r \in Rails, NEW p, SvcGoes(r, p), RefsExact', UsersOK'
  PROVE  Inv'
<1>1. TypeOK' /\ conf'.late = FALSE
  BY DEF Inv, TypeOK, SvcGoes, OthersTyped
<1>2. ThreadsOK'
  BY DEF Inv, ThreadsOK, SvcGoes
<1>3. ListedOK'
  BY DEF Inv, ListedOK, SvcGoes
<1>4. \A x \in Rails : /\ rail'[x].ibdev = rail[x].ibdev /\ rail'[x].listed = rail[x].listed
                       /\ svc'[x].pc \in Withdrawn => svc[x].pc \in Withdrawn
  BY DEF SvcGoes
<1>5. LockOK'
  <2>1. \A u \in Threads : act[u].pc \in InLock => act[u].rail \in Rails
    BY DEF Inv, ThreadsOK, InLock, Holding
  <2> QED
    BY <1>4, <2>1 DEF Inv, LockOK, SvcGoes
<1>6. DevOK'
  BY <1>4 DEF Inv, DevOK, SvcGoes
<1>7. StagesOK' /\ NetOK'
  BY <1>4 DEF Inv, StagesOK, NetOK, SvcGoes
<1> QED
  BY <1>1, <1>2, <1>3, <1>5, <1>6, <1>7 DEF Inv

\* The same, and the references stay as they are.
LEMMA SvcKeptInv ==
  ASSUME Inv, NEW r \in Rails, NEW p, SvcGoes(r, p), rail'[r].refs = rail[r].refs,
         p \in {"wait", "unlink"} <=> svc[r].pc \in {"wait", "unlink"}
  PROVE  Inv'
<1>1. RefsKept /\ OwnRefKept
  BY DEF RefsKept, OwnRefKept, SvcGoes
<1>2. RefsExact' /\ UsersOK'
  BY <1>1, KeptFacts DEF Inv
<1> QED
  BY <1>2, SvcInv

\* tbv_service_probe()
LEMMA ProbeInv ==
  ASSUME Inv, NEW r \in Rails, Probe(r)
  PROVE  Inv'
<1>0. rail[r] \in RailStates /\ rail \in [Rails -> RailStates]
  BY SameTyped
<1>1. CASE ProbeAdd(r)
  <2> DEFINE new == [NoRail EXCEPT !.listed = TRUE, !.refs = 1, !.path = "idle"]
  <2>1. /\ svc[r].pc = "absent" /\ UNCHANGED <<conf, dev, qp, act, st, todo, net, tb>>
        /\ rail' = [rail EXCEPT ![r] = new]
    BY <1>1 DEF ProbeAdd
  <2>2. /\ svc' \in [Rails -> SvcStates] /\ svc'[r].pc = "added"
        /\ \A x \in Rails \ {r} : svc'[x] = svc[x]
    BY <1>1, SvcFacts DEF ProbeAdd, SvcPcs
  <2>3. /\ new \in RailStates /\ new.listed = TRUE /\ new.refs = 1 /\ new.ibdev = FALSE
        /\ new.removing = FALSE
    BY DEF NoRail, RailStates
  <2> HIDE DEF new
  <2>4. /\ rail' \in [Rails -> RailStates] /\ \A x \in Rails \ {r} : rail'[x] = rail[x]
        /\ rail'[r].listed = TRUE /\ rail'[r].refs = 1 /\ rail'[r].ibdev = FALSE
    BY <1>0, <2>1, <2>3
  <2>5. ~rail[r].listed /\ ~rail[r].ibdev /\ Holders(r) = {} /\ QpsOn(r) = {}
    BY <2>1 DEF Inv, ListedOK, DevOK, UsersOK
  <2>6. \A x \in Rails : Holders(x)' = Holders(x) /\ QpsOn(x)' = QpsOn(x)
    BY <2>1 DEF Holders, QpsOn
  <2>7. RefsExact'
    <3>1. Cardinality(Holders(r)') = 0 /\ Cardinality(QpsOn(r)') = 0
      BY <2>5, <2>6, FS_EmptySet
    <3> QED
      BY <2>2, <2>4, <2>6, <3>1 DEF Inv, RefsExact
  <2>8. UsersOK'
    BY <2>1, <2>4, <2>6 DEF Inv, UsersOK
  <2>9. TypeOK' /\ conf'.late = FALSE
    BY <2>1, <2>2, <2>4 DEF Inv, TypeOK
  <2>10. ThreadsOK'
    BY <2>1 DEF Inv, ThreadsOK
  <2>11. ListedOK'
    BY <2>2, <2>4 DEF Inv, ListedOK, Withdrawn
  <2>12. \A u \in Threads : act[u].rail # r
    BY <2>5 DEF Holders
  <2>13. LockOK'
    <3>1. \A u \in Threads : act[u].pc \in InLock => act[u].rail \in Rails \ {r}
      BY <2>12 DEF Inv, ThreadsOK, InLock, Holding
    <3> QED
      BY <2>1, <2>2, <2>4, <3>1 DEF Inv, LockOK
  <2>14. DevOK'
    BY <2>1, <2>2, <2>4, <2>5, <2>12, Order DEF Inv, DevOK, Withdrawn
  <2>15. StagesOK' /\ NetOK'
    BY <2>1, <2>4 DEF Inv, StagesOK, NetOK
  <2> QED
    BY <2>7, <2>8, <2>9, <2>10, <2>11, <2>13, <2>14, <2>15 DEF Inv
<1>2. CASE ProbeRings(r)
  <2>1. SvcGoes(r, "ringed") /\ rail'[r].refs = rail[r].refs
    BY <1>0, <1>2, SvcFacts, SameTyped DEF ProbeRings, SvcGoes, SvcPcs, Withdrawn, RailStates
  <2> QED
    BY <1>2, <2>1, SvcKeptInv DEF ProbeRings
<1>3. CASE ProbeFails(r)
  <2>1. conf' \in Conf /\ conf'.late = FALSE
    BY <1>3, SpendFacts DEF ProbeFails, Inv, TypeOK
  <2>2. OthersTyped
    BY <1>3, <2>1 DEF ProbeFails, OthersTyped, Inv, TypeOK
  <2>3. SvcGoes(r, "quiesce") /\ rail'[r].refs = rail[r].refs
    BY <1>0, <1>3, <2>2, SvcFacts DEF ProbeFails, SvcGoes, SvcPcs, Withdrawn, RailStates
  <2> QED
    BY <1>3, <2>3, SvcKeptInv DEF ProbeFails
<1>4. CASE ProbeQueue(r)
  <2>1. OthersTyped /\ st'.enabled = st.enabled /\ st'.notifier = st.notifier
    BY <1>4 DEF ProbeQueue, OthersTyped, Inv, TypeOK
  <2>2. SvcGoes(r, "bound") /\ rail'[r].refs = rail[r].refs
    BY <1>0, <1>4, <2>1, SvcFacts DEF ProbeQueue, SvcGoes, SvcPcs, Withdrawn
  <2> QED
    BY <1>4, <2>2, SvcKeptInv DEF ProbeQueue
<1> QED
  BY <1>1, <1>2, <1>3, <1>4 DEF Probe

\* tbv_service_remove() begins.
LEMMA MarkInv ==
  ASSUME Inv, NEW r \in Rails, NEW by \in {"unplug", "exit"}, RemoveMark(r, by)
  PROVE  Inv'
<1>1. /\ svc[r].pc = "bound" /\ UNCHANGED <<conf, dev, qp, act, st, todo, net, tb>>
      /\ rail' = [rail EXCEPT ![r].removing = TRUE] /\ rail[r] \in RailStates
      /\ svc' = [svc EXCEPT ![r] = [pc |-> "quiesce", by |-> by]]
  BY SameTyped DEF RemoveMark
<1>2. /\ svc' \in [Rails -> SvcStates] /\ svc'[r].pc = "quiesce"
      /\ \A x \in Rails \ {r} : svc'[x] = svc[x]
  BY <1>1 DEF Inv, TypeOK, SvcStates, SvcPcs
<1>3. SvcGoes(r, "quiesce") /\ rail'[r].refs = rail[r].refs
  BY <1>1, <1>2, SameTyped DEF SvcGoes, Withdrawn, RailStates
<1> QED
  BY <1>1, <1>3, SvcKeptInv

\* tbv_peer_remove_rail()
LEMMA RemoveInv ==
  ASSUME Inv, NEW r \in Rails, Remove(r)
  PROVE  Inv'
<1>0. rail[r] \in RailStates /\ rail \in [Rails -> RailStates]
  BY SameTyped
<1>1. CASE RemoveQuiesce(r)
  <2>1. SvcGoes(r, "down") /\ rail'[r].refs = rail[r].refs
    BY <1>0, <1>1, SvcFacts, SameTyped DEF RemoveQuiesce, SvcGoes, SvcPcs, Withdrawn, Inv, ListedOK
  <2> QED
    BY <1>1, <2>1, SvcKeptInv DEF RemoveQuiesce
<1>2. CASE RemoveDown(r)
  BY <1>2, RemoveDownInv
<1>3. CASE RemoveUnregistered(r)
  <2>1. SvcGoes(r, "cancel") /\ rail'[r].refs = rail[r].refs
    BY <1>0, <1>3, SvcFacts, SameTyped DEF RemoveUnregistered, SvcGoes, SvcPcs, Withdrawn, Inv,
       ListedOK
  <2> QED
    BY <1>3, <2>1, SvcKeptInv DEF RemoveUnregistered
<1>4. CASE RemoveCancel(r)
  <2>1. SvcGoes(r, "put") /\ rail'[r].refs = rail[r].refs
    BY <1>0, <1>4, SvcFacts, SameTyped DEF RemoveCancel, SvcGoes, SvcPcs, Withdrawn, Inv, ListedOK
  <2> QED
    BY <1>4, <2>1, SvcKeptInv DEF RemoveCancel
<1>5. CASE RemovePut(r)
  <2>1. /\ svc[r].pc = "put" /\ UNCHANGED <<conf, dev, qp, act, st, todo, net, tb>>
        /\ rail' = [rail EXCEPT ![r].refs = @ - 1] /\ rail[r].listed
    BY <1>5 DEF RemovePut, Inv, ListedOK
  <2>2. /\ svc' \in [Rails -> SvcStates] /\ svc'[r].pc = "wait"
        /\ \A x \in Rails \ {r} : svc'[x] = svc[x]
    BY <1>5, SvcFacts DEF RemovePut, SvcPcs
  <2>3. rail[r].refs = 1 + Cardinality(Holders(r)) + Cardinality(QpsOn(r))
    BY <2>1 DEF Inv, RefsExact
  <2>4. Cardinality(Holders(r)) \in Nat /\ Cardinality(QpsOn(r)) \in Nat
    BY CountFacts
  <2>5. rail[r].refs - 1 \in Nat
    BY <2>3, <2>4
  <2>6. /\ rail' \in [Rails -> RailStates] /\ \A x \in Rails \ {r} : rail'[x] = rail[x]
        /\ rail'[r].listed = rail[r].listed /\ rail'[r].removing = rail[r].removing
        /\ rail'[r].ibdev = rail[r].ibdev /\ rail'[r].refs = rail[r].refs - 1
    BY <1>0, <2>1, <2>5 DEF RailStates
  <2>7. \A x \in Rails : Holders(x)' = Holders(x) /\ QpsOn(x)' = QpsOn(x)
    BY <2>1 DEF Holders, QpsOn
  <2>8. RefsExact'
    <3> SUFFICES ASSUME NEW x \in Rails, rail'[x].listed
                 PROVE  rail'[x].refs = (IF svc'[x].pc \in {"wait", "unlink"} THEN 0 ELSE 1)
                          + Cardinality(Holders(x)) + Cardinality(QpsOn(x))
      BY <2>7 DEF RefsExact
    <3>1. CASE x = r
      BY <2>2, <2>3, <2>4, <2>6, <3>1
    <3>2. CASE x # r
      BY <2>2, <2>6, <3>2 DEF Inv, RefsExact
    <3> QED
      BY <3>1, <3>2
  <2>9. UsersOK'
    BY <2>1, <2>6, <2>7 DEF Inv, UsersOK
  <2>10. SvcGoes(r, "wait")
    BY <2>1, <2>2, <2>6, SameTyped DEF SvcGoes, Withdrawn, Inv, ListedOK
  <2> QED
    BY <2>8, <2>9, <2>10, SvcInv
<1>6. CASE RemoveWait(r)
  <2>1. SvcGoes(r, "unlink") /\ rail'[r].refs = rail[r].refs
    BY <1>0, <1>6, SvcFacts, SameTyped DEF RemoveWait, SvcGoes, SvcPcs, Withdrawn, Inv, ListedOK
  <2> QED
    BY <1>6, <2>1, SvcKeptInv DEF RemoveWait
<1>7. CASE RemoveFree(r)
  BY <1>7, RemoveFreeInv
<1> QED
  BY <1>1, <1>2, <1>3, <1>4, <1>5, <1>6, <1>7 DEF Remove

-----------------------------------------------------------------------------
(* Queue pairs, the netdev and the ThunderboltIP path.                     *)

\* No thread moves, and references are counted right.
LEMMA StillInv ==
  ASSUME Inv, act' = act, Steady, OthersTyped, rail' \in [Rails -> RailStates],
         qp' \in [Qps -> QpStates], RefsExact', UsersOK'
  PROVE  Inv'
<1>1. TypeOK' /\ conf'.late = FALSE
  BY DEF TypeOK, Inv, OthersTyped, Steady
<1>2. ThreadsOK'
  BY DEF Inv, ThreadsOK
<1>3. ListedOK'
  BY DEF Inv, ListedOK, Steady
<1>4. LockOK'
  <2>1. \A u \in Threads : act[u].pc \in InLock => act[u].rail \in Rails
    BY DEF Inv, ThreadsOK, InLock, Holding
  <2> QED
    BY <2>1 DEF Inv, LockOK, Steady
<1>5. DevOK' /\ StagesOK'
  BY DEF Inv, DevOK, StagesOK, Steady
<1>6. NetOK'
  BY DEF Inv, NetOK, Steady
<1> QED
  BY <1>1, <1>2, <1>3, <1>4, <1>5, <1>6 DEF Inv

\* Only the environment changes.
LEMMA OutsideInv ==
  ASSUME Inv, UNCHANGED <<rail, svc, dev, qp, act, st>>, OthersTyped,
         net.exists \/ net.gone \/ ~st.notifier => net'.exists \/ net'.gone \/ ~st.notifier
  PROVE  Inv'
<1>1. RefsExact' /\ UsersOK'
  BY KeptFacts DEF RefsKept, OwnRefKept, Inv
<1>2. Steady
  BY DEF Steady
<1> QED
  BY <1>1, <1>2, StillInv DEF Inv, TypeOK

\* tbv_create_qp()
LEMMA CreateQpInv ==
  ASSUME Inv, NEW q \in Qps, CreateQp(q)
  PROVE  Inv'
<1>1. /\ qp[q].st = "none" /\ UNCHANGED <<svc, dev, act, st, todo, net, tb>>
      /\ conf' = [conf EXCEPT !.qps = @ - 1] /\ conf.qps > 0
  BY DEF CreateQp
<1>2. PICK d \in Rails, r \in Rails :
        /\ r \in Selectable(d)
        /\ qp' = [qp EXCEPT ![q] = [st |-> "live", dev |-> d, rail |-> r]]
        /\ rail' = [rail EXCEPT ![r].refs = @ + 1]
  <2>1. \A d \in Rails : Selectable(d) \subseteq Rails
    BY DEF Selectable, Rails
  <2> QED
    BY <2>1 DEF CreateQp
<1>3. r \in Rails /\ rail[r].listed /\ ~rail[r].removing
  BY <1>2 DEF Selectable, PublishReady, Rails
<1>4. /\ qp' \in [Qps -> QpStates] /\ qp'[q].st = "live" /\ qp'[q].rail = r
      /\ \A o \in Qps \ {q} : qp'[o] = qp[o]
  BY <1>2, <1>3 DEF Inv, TypeOK, QpStates
<1>5. RailKeeps(r) /\ rail'[r].refs = rail[r].refs + 1
  BY <1>2, <1>3, SameTyped, PickFacts
<1>6. OthersTyped
  <2>1. conf' \in Conf /\ conf'.late = FALSE
    BY <1>1 DEF Inv, TypeOK, Conf
  <2> QED
    BY <1>1, <2>1 DEF OthersTyped, Inv, TypeOK
<1>7. RefsExact' /\ UsersOK'
  <2>1. QpPinned(q, r) /\ OwnRefKept
    BY <1>1, <1>3, <1>4, <1>5 DEF QpPinned, OwnRefKept, RailKeeps
  <2> QED
    BY <2>1, PinnedFacts DEF Inv
<1>8. Steady
  <2>1. svc[r].pc # "unlink"
    BY <1>3 DEF Inv, ListedOK, Withdrawn
  <2> QED
    BY <1>1, <1>5, <2>1 DEF Steady, RailKeeps
<1> QED
  BY <1>1, <1>4, <1>5, <1>6, <1>7, <1>8, StillInv DEF RailKeeps

\* tbv_destroy_qp()
LEMMA FreeQpInv ==
  ASSUME Inv, NEW q \in Qps, FreeQp(q)
  PROVE  Inv'
<1> DEFINE r == qp[q].rail
<1>1. /\ qp[q].st = "live" /\ UNCHANGED <<conf, svc, dev, act, st, todo, net, tb>>
      /\ qp' = [qp EXCEPT ![q].st = "dead"] /\ rail' = [rail EXCEPT ![r].refs = @ - 1]
      /\ r \in Rails /\ rail[r] \in RailStates /\ rail \in [Rails -> RailStates]
  BY SameTyped DEF FreeQp, Inv, UsersOK
<1>2. /\ qp' \in [Qps -> QpStates] /\ qp'[q].st = "dead"
      /\ \A o \in Qps \ {q} : qp'[o] = qp[o]
  BY <1>1 DEF Inv, TypeOK, QpStates
<1>3. /\ \A x \in Rails \ {r} : rail'[x] = rail[x]
      /\ rail'[r].listed = rail[r].listed /\ rail'[r].removing = rail[r].removing
      /\ rail'[r].ibdev = rail[r].ibdev /\ rail'[r].refs = rail[r].refs - 1
      /\ rail[r].refs - 1 \in Nat => rail' \in [Rails -> RailStates]
  BY <1>1 DEF RailStates
<1>4. QpFreed(q, r) /\ OwnRefKept
  BY <1>1, <1>2, <1>3 DEF QpFreed, OwnRefKept
<1>5. RefsExact' /\ UsersOK' /\ rail[r].refs - 1 \in Nat
  BY <1>4, FreedFacts DEF Inv
<1>6. Steady
  <2>1. svc[r].pc # "unlink"
    BY <1>1, <1>5 DEF Inv, ListedOK
  <2> QED
    BY <1>1, <1>3, <2>1 DEF Steady
<1> QED
  BY <1>1, <1>2, <1>3, <1>5, <1>6, SameTyped, StillInv

\* ib_unregister_device()
LEMMA UnregisterInv ==
  ASSUME Inv, Unregister
  PROVE  Inv'
<1>1. ASSUME NEW r \in Rails, UnregisterDone(r)
      PROVE  Inv'
  <2>1. /\ dev[r].st = "unreg" /\ UNCHANGED <<conf, rail, svc, qp, act, st, todo, net, tb>>
    BY <1>1 DEF UnregisterDone
  <2>2. /\ dev' \in [Rails -> DevStates] /\ dev'[r].st = "none" /\ dev'[r].att = dev[r].att
        /\ \A x \in Rails \ {r} : dev'[x] = dev[x]
    BY <1>1 DEF UnregisterDone, Inv, TypeOK, DevStates
  <2>3. RefsExact' /\ UsersOK'
    BY <2>1, KeptFacts DEF RefsKept, OwnRefKept, Inv
  <2>4. TypeOK' /\ conf'.late = FALSE
    BY <2>1, <2>2 DEF Inv, TypeOK
  <2>5. ThreadsOK' /\ ListedOK' /\ StagesOK'
    BY <2>1 DEF Inv, ThreadsOK, ListedOK, StagesOK
  <2>6. LockOK'
    <3>1. \A u \in Threads : act[u].pc \in InLock => act[u].rail \in Rails
      BY DEF Inv, ThreadsOK, InLock, Holding
    <3> QED
      BY <2>1, <2>2, <3>1 DEF Inv, LockOK
  <2>7. DevOK'
    BY <2>1, <2>2 DEF Inv, DevOK
  <2>8. NetOK'
    <3>1. \A x \in Rails : dev'[x].att = dev[x].att
      BY <2>2
    <3> QED
      BY <2>1, <3>1 DEF Inv, NetOK
  <2> QED
    BY <2>3, <2>4, <2>5, <2>6, <2>7, <2>8 DEF Inv
<1> QED
  BY <1>1 DEF Unregister

\* tbv_ibdev_netdev_event() and tbv_services_tbnet_identity_ready()
LEMMA NetInv ==
  ASSUME Inv, NetRegister \/ NetUnregister \/ NetDetach \/ TbChange \/ TbReady
  PROVE  Inv'
<1>0. /\ conf \in Conf /\ conf.late = FALSE
      /\ st \in [enabled : BOOLEAN, services : BOOLEAN, pending : BOOLEAN, notifier : BOOLEAN]
      /\ todo \in [apple : BOOLEAN, retry : BOOLEAN]
      /\ net \in [exists : BOOLEAN, gone : BOOLEAN] /\ tb \in [up : BOOLEAN, kick : BOOLEAN]
  BY DEF Inv, TypeOK
<1>1. CASE NetRegister
  <2>1. conf' \in Conf /\ conf'.late = FALSE
    BY <1>0, <1>1, SpendFacts DEF NetRegister
  <2>2. OthersTyped /\ net'.exists
    BY <1>0, <1>1, <2>1 DEF NetRegister, OthersTyped
  <2> QED
    BY <1>1, <2>2, OutsideInv DEF NetRegister
<1>2. CASE NetUnregister
  <2>1. conf' \in Conf /\ conf'.late = FALSE
    BY <1>0, <1>2, SpendFacts DEF NetUnregister
  <2>2. OthersTyped /\ net'.gone = st.notifier
    BY <1>0, <1>2, <2>1 DEF NetUnregister, OthersTyped
  <2> QED
    BY <1>0, <1>2, <2>2, OutsideInv DEF NetUnregister
<1>3. CASE NetDetach
  <2>1. /\ net.gone /\ ~Locked /\ UNCHANGED <<conf, rail, svc, qp, act, st, todo, tb>>
        /\ net' = [net EXCEPT !.gone = FALSE]
        /\ dev' = [r \in Rails |-> IF rail[r].ibdev THEN [dev[r] EXCEPT !.att = FALSE] ELSE dev[r]]
    BY <1>3 DEF NetDetach
  <2>2. /\ dev' \in [Rails -> DevStates]
        /\ \A r \in Rails : dev'[r].st = dev[r].st /\ (rail[r].ibdev => dev'[r].att = FALSE)
    <3>1. ASSUME NEW r \in Rails
          PROVE  /\ dev'[r] \in DevStates /\ dev'[r].st = dev[r].st
                 /\ rail[r].ibdev => dev'[r].att = FALSE
      BY <2>1 DEF Inv, TypeOK, DevStates
    <3> QED
      BY <2>1, <3>1
  <2>3. RefsExact' /\ UsersOK'
    BY <2>1, KeptFacts DEF RefsKept, OwnRefKept, Inv
  <2>4. TypeOK' /\ conf'.late = FALSE
    BY <1>0, <2>1, <2>2 DEF Inv, TypeOK
  <2>5. ThreadsOK' /\ ListedOK' /\ StagesOK'
    BY <2>1 DEF Inv, ThreadsOK, ListedOK, StagesOK
  <2>6. LockOK' /\ DevOK'
    BY <2>1, <2>2 DEF Inv, LockOK, DevOK, Locked, InLock
  <2>7. NetOK'
    BY <2>1, <2>2 DEF NetOK, Locked
  <2> QED
    BY <2>3, <2>4, <2>5, <2>6, <2>7 DEF Inv
<1>4. CASE TbChange
  <2>1. conf' \in Conf /\ conf'.late = FALSE
    BY <1>0, <1>4, SpendFacts DEF TbChange
  <2>2. OthersTyped
    BY <1>0, <1>4, <2>1 DEF TbChange, OthersTyped
  <2> QED
    BY <1>4, <2>2, OutsideInv DEF TbChange
<1>5. CASE TbReady
  <2>1. OthersTyped
    BY <1>0, <1>5 DEF TbReady, OthersTyped
  <2> QED
    BY <1>5, <2>1, OutsideInv DEF TbReady
<1> QED
  BY <1>1, <1>2, <1>3, <1>4, <1>5

-----------------------------------------------------------------------------
(* The invariant.                                                          *)

\* Before the first service and the first queue pair it holds.
LEMMA InitInv ==
  ASSUME NotLate, Init
  PROVE  Inv
<1>1. /\ \A r \in Rails : /\ rail[r] = NoRail /\ svc[r].pc = "absent" /\ dev[r].st = "none"
                          /\ dev[r].att = FALSE
      /\ \A q \in Qps : qp[q] = NoQp
      /\ \A t \in Threads : act[t].rail = Nobody
      /\ \A t \in Threads : act[t].pc = IF t = "init" THEN "services" ELSE "idle"
      /\ st.enabled = FALSE /\ st.notifier = FALSE
  BY DEF Init
<1>2. /\ NoRail.listed = FALSE /\ NoRail.ibdev = FALSE /\ NoRail \in RailStates
      /\ NoQp.st = "none" /\ NoQp \in QpStates
  BY DEF NoRail, RailStates, NoQp, QpStates
<1>3. conf \in Conf /\ conf.late = FALSE
  BY ConfAssumption DEF Init, NotLate
<1>4. TypeOK
  <2>1. rail \in [Rails -> RailStates] /\ qp \in [Qps -> QpStates]
    BY <1>2 DEF Init
  <2>2. svc \in [Rails -> SvcStates] /\ dev \in [Rails -> DevStates]
    BY DEF Init, SvcStates, SvcPcs, DevStates
  <2>3. act \in [Threads -> ActStates]
    BY DEF Init, ActStates, ActPcs
  <2> QED
    BY <1>3, <2>1, <2>2, <2>3 DEF TypeOK, Init
<1>5. ThreadsOK
  BY <1>1 DEF ThreadsOK, Holding, Threads
<1>6. ListedOK /\ RefsExact
  BY <1>1, <1>2 DEF ListedOK, RefsExact, Withdrawn
<1>7. UsersOK
  <2>1. \A r \in Rails : r # Nobody
    BY RailAssumption
  <2> QED
    BY <1>1, <1>2, <2>1 DEF UsersOK, Holders, QpsOn
<1>8. LockOK /\ DevOK
  BY <1>1, <1>2 DEF LockOK, DevOK, InLock
<1>9. StagesOK /\ NetOK
  BY <1>1, <1>2 DEF StagesOK, NetOK, Threads
<1> QED
  BY <1>3, <1>4, <1>5, <1>6, <1>7, <1>8, <1>9 DEF Inv

\* Every step keeps it.
LEMMA NextInv ==
  ASSUME Inv, [Next]_vars
  PROVE  Inv'
<1>1. ASSUME NEW r \in Rails, Probe(r) \/ Remove(r)
      PROVE  Inv'
  BY <1>1, ProbeInv, RemoveInv
<1>2. ASSUME NEW r \in Rails, NEW by \in {"unplug", "exit"}, RemoveMark(r, by)
      PROVE  Inv'
  BY <1>2, MarkInv
<1>3. ASSUME NEW t \in Threads, Publish(t)
      PROVE  Inv'
  BY <1>3, PublishInv
<1>4. ASSUME NEW t \in Threads, NEW r \in Native, NEW tunnel \in BOOLEAN, NativeEdge(t, r, tunnel)
      PROVE  Inv'
  BY <1>4, EdgeInv
<1>5. CASE AppleWork \/ RetryWork \/ ModuleInit \/ ExitStart \/ ModuleExit
  BY <1>5, AppleInv, RetryInv, ModuleInitInv, ModuleExitInv
<1>6. ASSUME NEW q \in Qps, CreateQp(q) \/ DestroyQp(q)
      PROVE  Inv'
  BY <1>6, CreateQpInv, FreeQpInv DEF DestroyQp
<1>7. CASE Unregister \/ NetRegister \/ NetUnregister \/ NetDetach \/ TbChange \/ TbReady
  BY <1>7, UnregisterInv, NetInv
<1>8. CASE UNCHANGED vars
  <2>1. OthersTyped /\ Steady
    BY <1>8, SameTyped DEF vars
  <2> QED
    BY <1>8, <2>1, OutsideInv DEF vars
<1> QED
  BY <1>1, <1>2, <1>3, <1>4, <1>5, <1>6, <1>7, <1>8 DEF Next

\* The inductive invariant holds throughout.
LEMMA InvHolds == NotLate => (Spec => []Inv)
<1> SUFFICES ASSUME NotLate
             PROVE  Spec => []Inv
  OBVIOUS
<1>1. Init => Inv
  BY InitInv
<1>2. Inv /\ [Next]_vars => Inv'
  BY NextInv
<1> QED
  BY <1>1, <1>2, PTL DEF Spec

-----------------------------------------------------------------------------
(* Theorems.                                                               *)

\* References are counted exactly through every race of probe, publication,
\* removal and exit, and tbv_peer_remove_rail() frees a rail that nobody uses.
THEOREM RailRefsSafeThm == NotLate => (Spec => []RailRefsSafe)
<1> SUFFICES ASSUME NotLate
             PROVE  Spec => []RailRefsSafe
  OBVIOUS
<1>1. Inv => RailRefsSafe
  BY DEF Inv, RailRefsSafe, SafeToFree, UsersOK, ListedOK
<1> QED
  BY <1>1, InvHolds, PTL

\* No ib_device outlives its rail, and none is registered once tbv_ibdev_stop()
\* has withdrawn them.
THEOREM DevicesFollowRailsThm == NotLate => (Spec => []DevicesFollowRails)
<1> SUFFICES ASSUME NotLate
             PROVE  Spec => []DevicesFollowRails
  OBVIOUS
<1>1. Inv => DeviceHasRail
  <2> SUFFICES ASSUME Inv, NEW r \in Rails, dev[r].st # "none"
               PROVE  rail[r].listed
    BY DEF DeviceHasRail
  <2>1. dev[r].st \in {"reg", "unreg"}
    BY DEF Inv, TypeOK, DevStates
  <2>2. CASE dev[r].st = "reg"
    BY <2>2 DEF Inv, DevOK
  <2>3. CASE dev[r].st = "unreg" /\ svc[r].pc = "unreg"
    BY <2>3 DEF Inv, ListedOK
  <2>4. CASE act["exit"].rail = r
    BY <2>4, Order DEF Inv, UsersOK, Holders
  <2> QED
    BY <2>1, <2>2, <2>3, <2>4 DEF Inv, DevOK
<1>2. Inv => NoDeviceAfterStop
  BY DEF Inv, NoDeviceAfterStop, StagesOK, DevOK
<1> QED
  BY <1>1, <1>2, InvHolds, PTL DEF DevicesFollowRails

\* When the netdev is gone and tbv_ibdev_netdev_event() has run, no published
\* device is attached to it.
THEOREM NetdevReleasedThm == NotLate => (Spec => []NetdevReleased)
<1> SUFFICES ASSUME NotLate
             PROVE  Spec => []NetdevReleased
  OBVIOUS
<1>1. Inv => NetdevReleased
  BY DEF Inv, NetdevReleased, NetOK
<1> QED
  BY <1>1, InvHolds, PTL
=============================================================================
