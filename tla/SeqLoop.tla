------------------------------ MODULE SeqLoop ------------------------------
(***************************************************************************)
(* A loop over a sequence: Body(p, T, x) is what one iteration makes of    *)
(* the state T at the element x, with the loop's parameter p.              *)
(***************************************************************************)
EXTENDS Integers, Sequences

CONSTANT Body(_, _, _)

\* The state after each number of iterations, and after all of them.
States(p, b, s) ==
  LET st[k \in 0..Len(s)] == IF k = 0 THEN b ELSE Body(p, st[k - 1], s[k]) IN st
Run(p, b, s) == States(p, b, s)[Len(s)]
=============================================================================
