----------------------------- MODULE QpChannel ------------------------------
(***************************************************************************)
(* What a native queue pair promises its users, without PSNs, frames,      *)
(* acknowledgements, retries or windows: requests are taken in order, each *)
(* is finished at the responder at most once and in order, each completes  *)
(* at the requester at most once, and on a reliable (RC) queue pair a      *)
(* success is reported only for what was delivered.  Successes are in the  *)
(* order of the requests when one receive context reports them.            *)
(***************************************************************************)
EXTENDS Integers, Sequences

VARIABLES reliable,  \* RC rather than UC
          ordered,   \* one context reports the successes
          sent,      \* requests taken so far
          got,       \* requests finished at the responder: [m, ok]
          done       \* completions at the requester: [m, ok]
vars == <<reliable, ordered, sent, got, done>>

Init == reliable \in BOOLEAN /\ ordered \in BOOLEAN /\ sent = 0 /\ got = <<>> /\ done = <<>>

Increasing(s) == \A i, j \in DOMAIN s : i < j => s[i].m < s[j].m
Distinct(s) == \A i, j \in DOMAIN s : i # j => s[i].m # s[j].m
Extends(t, s) == Len(s) <= Len(t) /\ SubSeq(t, 1, Len(s)) = s
\* The entries that t has beyond s.
Added(t, s) == {t[i] : i \in Len(s) + 1..Len(t)}

Send == sent' = sent + 1 /\ UNCHANGED <<reliable, ordered, got, done>>

Deliver ==
  /\ Extends(got', got) /\ Increasing(got')
  /\ \A e \in Added(got', got) : e.m \in 1..sent
  /\ UNCHANGED <<reliable, ordered, sent, done>>

Complete ==
  /\ Extends(done', done) /\ Distinct(done')
  /\ \A e \in Added(done', done) : e.m \in 1..sent
  /\ reliable =>
       \A e \in Added(done', done) :
         e.ok => \E i \in DOMAIN got : got[i].m = e.m /\ got[i].ok
  /\ ordered => Increasing(SelectSeq(done', LAMBDA e : e.ok))
  /\ UNCHANGED <<reliable, ordered, sent, got>>

Next == Send \/ Deliver \/ Complete
Spec == Init /\ [][Next]_vars
=============================================================================
