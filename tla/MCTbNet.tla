------------------------------ MODULE MCTbNet ------------------------------
(***************************************************************************)
(* Scenarios for TbNet: what the peer and the host's network do.           *)
(***************************************************************************)
EXTENDS TbNet

Quiet == [logins |-> 1, logouts |-> 0, rx |-> 0, timeouts |-> 0, fails |-> 0, net |-> 0]

MCBudgets == {
  \* Logins and logouts in any order, lost responses, a path set-up that fails.
  [Quiet EXCEPT !.logins = 2, !.logouts = 2, !.timeouts = 2, !.fails = 1],
  \* ARP traffic over a logout and the login after it.
  [Quiet EXCEPT !.logins = 2, !.logouts = 1, !.rx = 2],
  \* ARP traffic while the proxied address comes and goes.
  [Quiet EXCEPT !.rx = 2, !.net = 2]
}
=============================================================================
