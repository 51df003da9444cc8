---------------------------- MODULE MCOrderBook ----------------------------
(* OrderBook on a small market.  As many addresses as orders: a node is    *)
(* taken from the pool for the third order at the latest when the first    *)
(* two have been filled or cancelled.                                      *)
EXTENDS OrderBook
=============================================================================
