----------------------------- MODULE LimitBook -----------------------------
(***************************************************************************)
(* The limit order book at the grain of trades: a placed order (the taker) *)
(* is matched one maker at a time and then rests.  This is the loop of     *)
(* matchInternal with the linked lists and indexes of OrderBook abstracted *)
(* to the set of resting orders; OrderBook is shown to implement it and it *)
(* is shown to implement PriceTime.  Engine extends it with the balances.  *)
(* Code: internal/core/domain/orderbook.go.                                *)
(***************************************************************************)
EXTENDS Matching, Sequences

CONSTANT NoOrder   \* the value of taker between two calls of PlaceOrder

VARIABLES
    book,     \* ob.Orders: the resting orders, a map from ids to records
    used,     \* the order ids that have been submitted
    taker,    \* the order PlaceOrder is matching, or NoOrder
    trades,   \* the trades of the last call of PlaceOrder, oldest first
    open      \* FALSE while RebuildOrderBook restores the book at start

bookVars == <<book, used, taker, trades, open>>

RestingOrder == [user : Users, side : Sides, price : Prices,
                 qty : Quantities, rem : Nat \ {0}, seq : Nat \ {0}]

Taker == [id : OrderIds, user : Users, side : Sides, price : Prices,
          qty : Quantities, rem : Nat, seq : Nat \ {0}]

\* domain.Trade; side is the side of the taker, which the worker reads from
\* the order it handles.
Trade == [side : Sides, price : Prices, qty : Nat \ {0},
          takerId : OrderIds, makerId : OrderIds,
          takerUser : Users, makerUser : Users]

ASSUME NoOrderAssumption == NoOrder \notin Taker

-----------------------------------------------------------------------------

\* The side bestOposite looks at, and the orders at its best price.
Opposite(t) == {m \in DOMAIN book : book[m].side # t.side}

AtBest(t) ==
    {m \in Opposite(t) :
        \A n \in Opposite(t) : ~Better(book[n].side, book[n].price, book[m].price)}

\* Mutant of Eligible: matchInternal without the skip of the owner's orders.
EligibleWithOwn(t) == {m \in AtBest(t) : Crosses(t.side, t.price, book[m].price)}

\* The orders of the best level that t can trade with.
Eligible(t) ==
    {m \in AtBest(t) : /\ Crosses(t.side, t.price, book[m].price)
                       /\ book[m].user # t.user}

\* The next maker: the earliest eligible order.
IsNextMaker(m) ==
    /\ m \in Eligible(taker)
    /\ \A n \in Eligible(taker) : book[m].seq <= book[n].seq

EmptyBook ==
    /\ book = <<>>
    /\ used = {}
    /\ taker = NoOrder
    /\ trades = <<>>

InitBook == EmptyBook /\ open = FALSE

\* RestoreOrder, called for the orders the database lists as active.  It
\* appends without matching: the restored book may be crossed.
RestoreOrder(id, u, s, p, q) ==
    /\ ~open
    /\ id \notin used
    /\ used' = used \cup {id}
    /\ book' = Bind(book, id, [user |-> u, side |-> s, price |-> p, qty |-> q,
                              rem |-> q, seq |-> Cardinality(used) + 1])
    /\ UNCHANGED <<taker, trades, open>>

\* The worker starts once the book has been rebuilt.
OpenMarket == ~open /\ open' = TRUE /\ UNCHANGED <<book, used, taker, trades>>

\* PlaceOrder up to the call of matchInternal.
BeginPlace(id, u, s, p, q) ==
    /\ open
    /\ taker = NoOrder
    /\ id \notin used
    /\ taker' = [id |-> id, user |-> u, side |-> s, price |-> p,
                 qty |-> q, rem |-> q, seq |-> Cardinality(used) + 1]
    /\ used' = used \cup {id}
    /\ trades' = <<>>
    /\ UNCHANGED <<book, open>>

\* One trade of matchInternal with the maker m.
MatchMaker(m) ==
    /\ taker # NoOrder
    /\ taker.rem > 0
    /\ IsNextMaker(m)
    /\ LET q == Lesser(taker.rem, book[m].rem) IN
         /\ taker' = [taker EXCEPT !.rem = @ - q]
         /\ book' = IF book[m].rem = q
                    THEN Unbind(book, m)
                    ELSE [book EXCEPT ![m].rem = @ - q]
         /\ trades' = Append(trades,
                        [side |-> taker.side, price |-> book[m].price, qty |-> q,
                         takerId |-> taker.id, makerId |-> m,
                         takerUser |-> taker.user, makerUser |-> book[m].user])
    /\ UNCHANGED <<used, open>>

\* Mutant of EndPlace: a filled order is put on the book as well.
EndPlaceRestsAll ==
    /\ taker # NoOrder
    /\ taker.rem = 0 \/ Eligible(taker) = {}
    /\ book' = Bind(book, taker.id, AsResting(taker, taker.rem))
    /\ taker' = NoOrder
    /\ UNCHANGED <<used, trades, open>>

\* The end of PlaceOrder: an unfilled remainder rests on the book.
EndPlace ==
    /\ taker # NoOrder
    /\ taker.rem = 0 \/ Eligible(taker) = {}
    /\ book' = IF taker.rem = 0 THEN book
               ELSE Bind(book, taker.id, AsResting(taker, taker.rem))
    /\ taker' = NoOrder
    /\ UNCHANGED <<used, trades, open>>

CancelOrder(id) ==
    /\ open
    /\ taker = NoOrder
    /\ id \in DOMAIN book
    /\ book' = Unbind(book, id)
    /\ UNCHANGED <<used, taker, trades, open>>

BookNext ==
    \/ \E id \in OrderIds, u \in Users, s \in Sides, p \in Prices, q \in Quantities :
          RestoreOrder(id, u, s, p, q) \/ BeginPlace(id, u, s, p, q)
    \/ OpenMarket
    \/ \E m \in DOMAIN book : MatchMaker(m)
    \/ EndPlace
    \/ \E id \in DOMAIN book : CancelOrder(id)

BookSpec == InitBook /\ [][BookNext]_bookVars

-----------------------------------------------------------------------------
(* Properties *)

BookTypeOK ==
    /\ DOMAIN book \subseteq used
    /\ \A id \in DOMAIN book : book[id] \in RestingOrder
    /\ used \subseteq OrderIds
    /\ taker \in Taker \cup {NoOrder}
    /\ taker # NoOrder => taker.id \in used \ DOMAIN book
    /\ trades \in Seq(Trade)
    /\ open \in BOOLEAN

\* The book as the callers of PlaceOrder will see it once the call returns.
SettledBook == IF taker = NoOrder THEN book ELSE Outcome(book, taker)

PT == INSTANCE PriceTime WITH book <- SettledBook, used <- used, open <- open

\* The loop implements the closed form: what PlaceOrder does to the book is
\* decided when it is called, and no iteration of matchInternal changes it.
\* Price priority, time priority within a price, the skipping of the owner's
\* own orders and the stop at a level of them alone are all part of it.
ImplementsPriceTime == PT!Spec
=============================================================================
