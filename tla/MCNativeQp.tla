----------------------------- MODULE MCNativeQp -----------------------------
(* Scenarios of NativeQp for TLC. *)
EXTENDS NativeQp

MCOp(k, n) == [k |-> k, n |-> n, ok |-> TRUE]
NoBudget == [b \in Bounds |-> 0]
SendSend == <<MCOp("send", 1), MCOp("send", 1)>>
LongSend == <<MCOp("send", 2), MCOp("send", 1)>>

\* Two RC requests in order, two receives, nothing goes wrong.
Plain == [rc |-> TRUE, rails |-> 1, stripe |-> FALSE, rnr |-> 1, sq |-> 2, rq |-> 2,
          ops |-> LongSend, max |-> NoBudget]

\* A lost frame; a watchdog that expires; fragments on two rails; a rail that
\* refuses; a receive that is late or too short; paths that fail.
SendConf ==
  {[Plain EXCEPT !.ops = SendSend, !.max.lost = 1],
   [Plain EXCEPT !.max.expires = 1],
   [Plain EXCEPT !.ops = <<MCOp("send", 2)>>, !.max.lost = 1, !.max.expires = 1],
   [Plain EXCEPT !.rails = 2, !.stripe = TRUE, !.ops = SendSend],
   [Plain EXCEPT !.rails = 2, !.stripe = TRUE, !.ops = <<MCOp("send", 2)>>, !.max.fails = 1],
   [Plain EXCEPT !.ops = <<MCOp("send", 1)>>, !.rq = 0, !.max.recvs = 2, !.max.shorts = 1],
   [Plain EXCEPT !.ops = <<MCOp("send", 2)>>, !.rq = 0, !.max.recvs = 1, !.max.lost = 1],
   [Plain EXCEPT !.ops = SendSend, !.max.fails = 1]}
\* WRITEs and WRITE_IMMs; more of them than the window has places; one without
\* the right to the remote key.
WriteConf ==
  {[Plain EXCEPT !.ops = <<MCOp("write", 2)>>, !.rq = 0, !.max.lost = 1],
   [Plain EXCEPT !.ops = <<MCOp("wimm", 2)>>, !.max.lost = 1],
   [Plain EXCEPT !.ops = <<MCOp("write", 1), MCOp("wimm", 1)>>, !.rq = 1, !.max.lost = 1],
   [Plain EXCEPT !.ops = [i \in 1..3 |-> MCOp("write", 1)], !.rq = 0, !.max.lost = 1],
   [Plain EXCEPT !.ops = <<[MCOp("write", 2) EXCEPT !.ok = FALSE]>>, !.rq = 0, !.max.lost = 1]}
\* An unreliable queue pair, with a loss and with a send queue of one; RNR
\* retries without end, with a receive that is late and with one that is missing.
OtherConf ==
  {[Plain EXCEPT !.rc = FALSE, !.ops = <<MCOp("send", 2)>>, !.max.lost = 1],
   [Plain EXCEPT !.rc = FALSE, !.ops = SendSend, !.sq = 1],
   [Plain EXCEPT !.ops = <<MCOp("send", 1)>>, !.rnr = Infinite, !.rq = 0, !.max.recvs = 1],
   [Plain EXCEPT !.ops = SendSend, !.rnr = Infinite, !.rq = 1]}
AllConf == SendConf \cup WriteConf \cup OtherConf

\* Losses, failures and want of receives that every request must survive.
LiveConf ==
  {[Plain EXCEPT !.ops = SendSend, !.rq = 1, !.rnr = 0, !.max.lost = 1],
   [Plain EXCEPT !.ops = <<MCOp("send", 2)>>, !.rq = 0, !.max.recvs = 1, !.max.lost = 1],
   [Plain EXCEPT !.ops = <<MCOp("wimm", 1), MCOp("write", 1)>>, !.max.fails = 1],
   [Plain EXCEPT !.rc = FALSE, !.ops = <<MCOp("send", 2)>>, !.max.lost = 1]}
\* Two sends and one lost frame are enough for the scan to leave the list.
ReapConf == {[Plain EXCEPT !.ops = SendSend, !.max.lost = 1]}
=============================================================================
