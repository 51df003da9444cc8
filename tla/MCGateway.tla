---------------------------- MODULE MCGateway ----------------------------
(* Three requests of two users: an order whose product only big integers   *)
(* hold, one that is too large, and a deposit.                             *)
EXTENDS Gateway

CONSTANTS u1, u2

MCSender == <<u1, u1, u2>>

MCBody == <<[price |-> 30, qty |-> 8], [price |-> 10, qty |-> 16], [amount |-> 5]>>
=============================================================================
