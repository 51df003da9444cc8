----------------------------- MODULE Matching -----------------------------
(***************************************************************************)
(* The outcome of one PlaceOrder, in closed form.  An order trades with    *)
(* the orders of the other side that its limit price crosses, best price   *)
(* first and, within a price, first come first served; it never trades     *)
(* with its own owner's orders, and it never reaches past a price at which *)
(* only its owner's orders are left.                                       *)
(*                                                                         *)
(* This is a definition of its own, not the loop of matchInternal:         *)
(* LimitBook and OrderBook, which have the loop, are compared with it.     *)
(* A resting order carries seq, its arrival number: CreatedAt as a logical *)
(* clock.  t is an order being placed, b the book it meets.                *)
(***************************************************************************)
EXTENDS Market, Sums

Facing(b, t) == {m \in DOMAIN b : b[m].side # t.side}

\* m stands behind a better price at which the owner of t has an order: once
\* the others at that price are filled, matchInternal stops there.
Shielded(b, t, m) ==
    \E n \in Facing(b, t) :
        b[n].user = t.user /\ Better(b[m].side, b[n].price, b[m].price)

Reachable(b, t) ==
    {m \in Facing(b, t) :
        /\ Crosses(t.side, t.price, b[m].price)
        /\ b[m].user # t.user
        /\ ~Shielded(b, t, m)}

\* n is served before m.
Before(b, n, m) ==
    \/ Better(b[m].side, b[n].price, b[m].price)
    \/ b[n].price = b[m].price /\ b[n].seq < b[m].seq

ServedBefore(b, t, m) ==
    Sum([n \in {n \in Reachable(b, t) : Before(b, n, m)} |-> b[n].rem])

\* How much of the resting order m the placement of t consumes.
Consumed(b, t, m) ==
    IF m \in Reachable(b, t) /\ ServedBefore(b, t, m) < t.rem
    THEN Lesser(b[m].rem, t.rem - ServedBefore(b, t, m))
    ELSE 0

\* What is left of t itself.
Leftover(b, t) == t.rem - Sum([m \in Reachable(b, t) |-> Consumed(b, t, m)])

\* The order t as it rests on the book with quantity r.
AsResting(t, r) ==
    [user |-> t.user, side |-> t.side, price |-> t.price, qty |-> t.qty,
     rem |-> r, seq |-> t.seq]

\* The book once t has been placed.
Outcome(b, t) ==
    LET survivors == {m \in DOMAIN b : Consumed(b, t, m) < b[m].rem}
        others == [m \in survivors |->
                      [b[m] EXCEPT !.rem = @ - Consumed(b, t, m)]]
    IN  IF Leftover(b, t) = 0
        THEN others
        ELSE Bind(others, t.id, AsResting(t, Leftover(b, t)))
=============================================================================
