----------------------------- MODULE MCServer -----------------------------
(* Two requests of one user, one of them for an order that is too large,   *)
(* and one WebSocket.                                                      *)
EXTENDS Server

CONSTANT u1

MCSender == <<u1, u1>>

MCBody == <<[price |-> 10, qty |-> 8], [price |-> 10, qty |-> 16]>>
=============================================================================
