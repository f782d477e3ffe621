-------------------------------- MODULE Loops -------------------------------
(***************************************************************************)
(* A loop of a routine that is a function on states: Turn(t, k) is the     *)
(* state after the k-th turn that begins in t.                             *)
(***************************************************************************)
EXTENDS Integers

\* The state after n turns from m.
Loop(Turn(_, _), m, n) ==
  LET after[k \in 0..n] == IF k = 0 THEN m ELSE Turn(after[k - 1], k)
  IN after[n]
=============================================================================
