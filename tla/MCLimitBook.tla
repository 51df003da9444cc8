---------------------------- MODULE MCLimitBook ----------------------------
(* LimitBook on a small market.  Four orders of two traders over two       *)
(* prices: a taker can meet two makers of one level, an own order ahead of *)
(* or behind another's, and a second level.                                *)
EXTENDS LimitBook, TLC

Symmetry == Permutations(Users) \cup Permutations(OrderIds)
=============================================================================
