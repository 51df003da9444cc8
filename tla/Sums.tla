------------------------------- MODULE Sums -------------------------------
(***************************************************************************)
(* The sum of a function into the naturals, defined by counting: a value n *)
(* at x contributes the n pairs <<x, 1>>, ..., <<x, n>>.  Facts about it   *)
(* follow from facts about cardinalities, without recursion.               *)
(***************************************************************************)
EXTENDS Integers, FiniteSets

\* The units of a function with values in Nat.
Units(f) == UNION {{x} \X (1 .. f[x]) : x \in DOMAIN f}

Sum(f) == Cardinality(Units(f))
=============================================================================
