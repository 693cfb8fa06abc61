------------------------------- MODULE Ranks --------------------------------
(* The place of a number in a finite set of numbers, counted from one.     *)
EXTENDS Integers, FiniteSets

Rank(S, n) == Cardinality({m \in S : m <= n})
=============================================================================
