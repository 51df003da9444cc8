----------------------------- MODULE PriceTime -----------------------------
(***************************************************************************)
(* What the matching engine promises, without saying how: PlaceOrder is    *)
(* one atomic change of the book, the one Matching gives in closed form,   *)
(* and CancelOrder removes one order.                                      *)
(***************************************************************************)
EXTENDS Matching

VARIABLES
    book,   \* the resting orders: a map from order ids to records
    used,   \* the order ids that have been submitted
    open    \* FALSE while the book is restored at start

vars == <<book, used, open>>

Init == book = <<>> /\ used = {} /\ open = FALSE

\* An order as it enters the book: it arrives after all others.
Arriving(id, u, s, p, q) ==
    [id |-> id, user |-> u, side |-> s, price |-> p, qty |-> q, rem |-> q,
     seq |-> Cardinality(used) + 1]

\* A restored order rests without being matched.
RestoreOrder(id, u, s, p, q) ==
    /\ ~open
    /\ book' = Bind(book, id, AsResting(Arriving(id, u, s, p, q), q))
    /\ used' = used \cup {id}
    /\ UNCHANGED open

OpenMarket == ~open /\ open' = TRUE /\ UNCHANGED <<book, used>>

PlaceOrder(id, u, s, p, q) ==
    /\ open
    /\ book' = Outcome(book, Arriving(id, u, s, p, q))
    /\ used' = used \cup {id}
    /\ UNCHANGED open

CancelOrder(id) ==
    /\ open
    /\ book' = Unbind(book, id)
    /\ UNCHANGED <<used, open>>

Next ==
    \/ \E id \in OrderIds \ used, u \in Users, s \in Sides, p \in Prices, q \in Quantities :
          RestoreOrder(id, u, s, p, q) \/ PlaceOrder(id, u, s, p, q)
    \/ OpenMarket
    \/ \E id \in DOMAIN book : CancelOrder(id)

Spec == Init /\ [][Next]_vars
=============================================================================
