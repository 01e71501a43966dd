------------------------------ MODULE Positions ------------------------------
(* Positions in order, and what a sequence has at some of its positions. *)
EXTENDS Naturals, FiniteSets

\* The k-th of the positions P.
Position(P, k) == CHOOSE i \in P : Cardinality({j \in P : j <= i}) = k

\* The elements of s at the positions P, in order.
Pick(s, P) == [k \in 1 .. Cardinality(P) |-> s[Position(P, k)]]

\* The elements of S in the order R, a set of pairs of an earlier and a later one.
Sorted(S, R) ==
  [k \in 1 .. Cardinality(S) |-> CHOOSE x \in S : Cardinality({y \in S : <<y, x>> \in R}) = k - 1]

=============================================================================
