------------------------------- MODULE Loops -------------------------------
(***************************************************************************)
(* A loop over a sequence: Turn(x, e) is what its turn for the element e   *)
(* makes of what there is, x.                                              *)
(***************************************************************************)
EXTENDS Naturals, Sequences

CONSTANT Turn(_, _)

\* What there is after each turn.
Turns(first, s) ==
  LET after[n \in Nat] == IF n = 0 THEN first ELSE Turn(after[n - 1], s[n]) IN after

Loop(first, s) == Turns(first, s)[Len(s)]

=============================================================================
