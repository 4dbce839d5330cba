----------------------------- MODULE Accumulation -----------------------------
(***************************************************************************)
(* What a loop over a sequence comes to, as a recursive function: the folds *)
(* of the histories and of expand_filename, which the proofs reason about. *)
(***************************************************************************)
EXTENDS Integers, Sequences

\* From base, each element e of w in turn makes step[<<value, e>>] of the value.
Accumulated(step, base, w) ==
  LET value[i \in 0 .. Len(w)] == IF i = 0 THEN base ELSE step[<<value[i - 1], w[i]>>]
  IN  value[Len(w)]
=============================================================================
