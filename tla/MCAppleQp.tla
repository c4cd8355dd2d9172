------------------------------ MODULE MCAppleQp ------------------------------
(***************************************************************************)
(* Scenarios for AppleQp: module parameters and the events each explores.  *)
(***************************************************************************)
EXTENDS AppleQp

Base ==
  [len |-> <<2, 1>>, group |-> 1, budget |-> 1, wrs |-> 1, pipeline |-> FALSE,
   delay |-> FALSE, slots |-> 2, expires |-> FALSE, qps |-> 1, eps |-> 2, remotes |-> 1,
   downs |-> {}, stalls |-> 0, ends |-> {}, badrestart |-> FALSE, deadline |-> FALSE,
   recycle |-> FALSE, peer |-> <<>>, rslots |-> 1, rlen |-> 2, rbytes |-> 2,
   rtotal |-> 2, recvs |-> 0]

MCConf == {
  \* Two sends, one of two frames; a timeout; destroy.
  [Base EXCEPT !.expires = TRUE],
  \* Pipelined, with and without limits; and with delayed completions.
  [Base EXCEPT !.pipeline = TRUE, !.wrs = 2, !.budget = 2, !.expires = TRUE],
  [Base EXCEPT !.pipeline = TRUE, !.wrs = 0, !.budget = 0, !.expires = TRUE],
  [Base EXCEPT !.delay = TRUE, !.expires = TRUE],
  \* The watchdog fails the connection; the next queue pair takes the rail
  \* from quarantine ...
  [Base EXCEPT !.len = <<1, 1>>, !.stalls = 1, !.qps = 2, !.badrestart = TRUE],
  \* ... against a peer that may still be heard.
  [Base EXCEPT !.len = <<1, 0>>, !.stalls = 1, !.qps = 2, !.peer = <<1>>, !.recvs = 1],
  \* A timeout, the watchdog, a quiesce that runs out of time.
  [Base EXCEPT !.len = <<1, 1>>, !.slots = 1, !.stalls = 1, !.expires = TRUE,
               !.deadline = TRUE],
  \* Modify out of RTS and back, racing rail removal and module exit.
  [Base EXCEPT !.len = <<1, 0>>, !.group = 0, !.downs = {"RESET", "ERR"},
               !.ends = {"remove", "exit"}],
  [Base EXCEPT !.len = <<0, 0>>, !.downs = {"ERR"}, !.remotes = 2, !.recycle = TRUE],
  \* The peer's stream over a modify out of RTS.
  [Base EXCEPT !.len = <<0, 0>>, !.peer = <<2, 1, 2>>, !.recvs = 3, !.downs = {"RESET"}],
  \* A message too long for a slot, and one too long for its receive.
  [Base EXCEPT !.len = <<0, 0>>, !.peer = <<3, 2, 1>>, !.recvs = 3, !.rlen = 1]
}
=============================================================================
