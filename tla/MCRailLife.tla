----------------------------- MODULE MCRailLife -----------------------------
(***************************************************************************)
(* Scenarios for RailLife: which services appear and what happens to them. *)
(***************************************************************************)
EXTENDS RailLife

CONSTANTS n1, n2, a1, q1, q2

MCNative == {n1, n2}
MCApple == {a1}
MCQps == {q1, q2}

None == [rails |-> {}, unplug |-> {}, qps |-> 0, netdev |-> FALSE, nets |-> 0, tbs |-> 0,
         fails |-> 0, exit |-> FALSE, appExits |-> FALSE, late |-> FALSE]

MCConfs == {
  \* Two lanes with queue pairs pinned across them, unplugged; the application
  \* destroys what it holds.
  [None EXCEPT !.rails = {n1, n2}, !.unplug = {n1, n2}, !.qps = 1, !.appExits = TRUE],
  \* One lane: unplug against module exit, a failing registration.
  [None EXCEPT !.rails = {n1}, !.unplug = {n1}, !.qps = 1, !.fails = 1, !.exit = TRUE,
               !.appExits = TRUE],
  \* A lane whose RoCE netdev comes and goes.
  [None EXCEPT !.rails = {n1}, !.unplug = {n1}, !.netdev = TRUE, !.nets = 3],
  [None EXCEPT !.rails = {n1}, !.netdev = TRUE, !.nets = 2, !.exit = TRUE],
  \* An Apple rail that waits for the ThunderboltIP path.
  [None EXCEPT !.rails = {a1}, !.unplug = {a1}, !.tbs = 3],
  [None EXCEPT !.rails = {a1}, !.unplug = {a1}, !.tbs = 1, !.fails = 1, !.exit = TRUE],
  [None EXCEPT !.rails = {a1}, !.qps = 1, !.tbs = 2, !.netdev = TRUE, !.nets = 1]
}

\* A lane is unplugged while an application keeps its queue pair.
MCCross == {[None EXCEPT !.rails = {n1, n2}, !.unplug = {n1}, !.qps = 1]}
=============================================================================
