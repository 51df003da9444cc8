------------------------------ MODULE Market ------------------------------
(***************************************************************************)
(* The vocabulary every component shares: sides, assets, the price order   *)
(* of each side, and the fixed-point amounts that orders lock and trades   *)
(* move.  Code: internal/core/domain/{order,accounting,orderbook}.go and   *)
(* the amount computations of services/worker.go.                          *)
(***************************************************************************)
EXTENDS Integers, FiniteSets, Functions

CONSTANTS
    Users,       \* the traders (user UUIDs)
    OrderIds,    \* the orders ever submitted; every UUID is used once
    Prices,      \* the limit prices traders submit
    Quantities,  \* the order sizes traders submit
    Decimals     \* the fixed-point scale (100_000_000 in the code)

ASSUME FiniteAssumption == IsFiniteSet(Users) /\ IsFiniteSet(OrderIds)

\* CreateOrder refuses price <= 0 and quantity <= 0 (api/order_handler.go:91).
ASSUME PositiveAssumption ==
    /\ Prices \subseteq Nat \ {0}
    /\ Quantities \subseteq Nat \ {0}
    /\ Decimals \in Nat \ {0}

-----------------------------------------------------------------------------

Sides == {"BUY", "SELL"}

Assets == {"USD", "BTC"}

\* How an order of side s looks at a price p and a price q of its own side:
\* bids are indexed from the highest, asks from the lowest.
Better(s, p, q) == IF s = "BUY" THEN p > q ELSE p < q

\* A taker of side s with limit price p may trade at the maker price q.
Crosses(s, p, q) == IF s = "BUY" THEN q <= p ELSE q >= p

\* The asset an order of side s pays with.
LockAsset(s) == IF s = "BUY" THEN "USD" ELSE "BTC"

\* Price times quantity in fixed point, rounded down (big.Int Mul, Quo).
Notional(p, q) == (p * q) \div Decimals

\* What an order of side s owes for quantity q at price p: its lock amount
\* when p is its limit, its payment when p is the price of a trade.
Due(s, p, q) == IF s = "BUY" THEN Notional(p, q) ELSE q

Lesser(a, b) == IF a <= b THEN a ELSE b

\* The map f with key k bound to v, and without key k.
Bind(f, k, v) == [x \in DOMAIN f \cup {k} |-> IF x = k THEN v ELSE f[x]]
Unbind(f, k) == Restrict(f, DOMAIN f \ {k})
=============================================================================
