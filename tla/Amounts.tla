------------------------------ MODULE Amounts ------------------------------
(***************************************************************************)
(* What an order locks, in integers of a fixed width.  The worker          *)
(* multiplies in big.Int and narrows the quotient; hydrate multiplies      *)
(* machine integers, so that the product wraps before it is divided.       *)
(* Engine and Exchange compute with unbounded integers instead (Due).      *)
(* Code: internal/core/services/worker.go.                                 *)
(***************************************************************************)
EXTENDS Integers

CONSTANTS
    MaxInt64,    \* math.MaxInt64, 2^63 - 1 in the code
    Decimals,    \* the fixed-point scale
    MaxQuantity  \* math.MaxInt32, the largest quantity an order may have

ASSUME WidthAssumption ==
    MaxInt64 \in Nat /\ Decimals \in Nat \ {0} /\ MaxQuantity \in Nat

\* How many values an int64 has.
Width == 2 * (MaxInt64 + 1)

\* What is left of n in an int64, read in two's complement.
Int64(n) == ((n + MaxInt64 + 1) % Width) - MaxInt64 - 1

\* Go rounds quotients towards zero.
Quo(n, d) == IF n < 0 THEN -((-n) \div d) ELSE n \div d

\* Mutant: the product is computed in machine integers.
LockAmountNarrow(p, q) == Quo(Int64(p * q), Decimals)

\* The lock amount of a bid in handlePlaceOrder.
LockAmount(p, q) == Int64(Quo(p * q, Decimals))

\* The lock amount hydrate computes for a bid it finds in the table.
RestoredLock(p, q) == Quo(Int64(p * q), Decimals)
=============================================================================
