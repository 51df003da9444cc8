----------------------------- MODULE MCEngine -----------------------------
(* Engine on a small market.  With Decimals = 3 notionals are rounded: a   *)
(* bid of 1 at 2 locks nothing, a bid of 3 at 2 locks 2 and, filled one by *)
(* one, pays nothing.                                                      *)
EXTENDS Engine, TLC

Symmetry == Permutations(Users) \cup Permutations(OrderIds)
=============================================================================
