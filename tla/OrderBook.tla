----------------------------- MODULE OrderBook -----------------------------
(***************************************************************************)
(* domain.OrderBook as it is coded: a heap of pooled order nodes, a doubly *)
(* linked list per price level, a sorted index of the prices of each side  *)
(* and a map from order ids to nodes.  One step is one iteration of a loop *)
(* of matchInternal; the whole call runs under the worker's mutex.         *)
(* It is shown to implement LimitBook.                                     *)
(* Code: internal/core/domain/orderbook.go.                                *)
(***************************************************************************)
EXTENDS Matching, Sequences

CONSTANTS
    Nodes,    \* the addresses at which order nodes are allocated
    Nil,      \* the nil pointer
    NoData,   \* the fields of a node nothing was written to yet
    NoOrder   \* see LimitBook

OrderData == [id : OrderIds, user : Users, side : Sides, price : Prices,
              qty : Quantities, rem : Nat, seq : Nat \ {0}]

ASSUME AddressAssumption == Nil \notin Nodes /\ NoOrder \notin OrderData

VARIABLES
    node,     \* the heap: the order at an address and its three pointers
    level,    \* ob.Bids, ob.Asks: price -> volume, head and tail
    index,    \* ob.BidsIndex, ob.AsksIndex
    orders,   \* ob.Orders: order id -> node
    pool,     \* orderPool: the nodes that Get may hand out again
    pc,       \* where PlaceOrder is: "idle", "level", "walk" or "rest"
    taker,    \* the node PlaceOrder works on, or Nil
    best,     \* levelPrice of the level being walked, 0 outside the walk
    maker,    \* the cursor of the walk
    matched,  \* matchedAtLevel
    trades,   \* the caller's buffer
    used,     \* the order ids submitted so far
    open      \* FALSE while RebuildOrderBook restores the book

vars == <<node, level, index, orders, pool, pc, taker, best, maker, matched,
          trades, used, open>>

Opposite(s) == IF s = "BUY" THEN "SELL" ELSE "BUY"

\* A node outside every structure; parent is the <<side, price>> of a level.
Detached(d) == [data |-> d, prev |-> Nil, next |-> Nil, parent |-> Nil]

\* An address no structure refers to, for the allocator to return: which one
\* it is makes no difference.
Fresh ==
    LET free == Nodes \ (pool \cup Range(orders) \cup {taker})
    IN  IF free = {} THEN {} ELSE {CHOOSE n \in free : TRUE}

\* The id of the next order: any that is new, for the book only compares ids.
IsNextId(id) == id \notin used /\ id = CHOOSE i \in OrderIds : i \notin used

Init ==
    /\ node = [n \in Nodes |-> Detached(NoData)]
    /\ level = [s \in Sides |-> <<>>]
    /\ index = [s \in Sides |-> <<>>]
    /\ orders = <<>>
    /\ pool = {}
    /\ pc = "idle" /\ taker = Nil /\ best = 0 /\ maker = Nil /\ matched = FALSE
    /\ trades = <<>> /\ used = {} /\ open = FALSE

-----------------------------------------------------------------------------
(* addOrderInternal and removeOrderInternal                                *)

\* Mutant of Position: the comparison of sideData is the wrong way round.
PositionSwapped(s, p) == Cardinality({i \in DOMAIN index[s] : Better(s, p, index[s][i])}) + 1

\* sideData and BinarySearchFunc: the position of p in the index of s.
Position(s, p) == Cardinality({i \in DOMAIN index[s] : Better(s, index[s][i], p)}) + 1

\* slices.Insert and slices.Delete of one element.
InsertedAt(x, i, p) == SubSeq(x, 1, i - 1) \o <<p>> \o SubSeq(x, i, Len(x))
DeletedAt(x, i) == SubSeq(x, 1, i - 1) \o SubSeq(x, i + 1, Len(x))

\* The index of s without p, if it is found there.
Unindexed(s, p) ==
    LET i == Position(s, p)
    IN  IF i \in DOMAIN index[s] /\ index[s][i] = p THEN DeletedAt(index[s], i) ELSE index[s]

\* Mutant of Behind: the prev pointer is not written.
BehindOneWay(x, last) == x

\* The node x appended behind last.  At an empty level its prev pointer is not
\* written, and its next pointer never is.
Behind(x, last) == IF last = Nil THEN x ELSE [x EXCEPT !.prev = last]

\* addOrderInternal of the node n with fields d.
AddOrder(n, d) ==
    LET s == d.side
        p == d.price
        new == p \notin DOMAIN level[s]
        lv == IF new THEN [total |-> 0, head |-> Nil, tail |-> Nil] ELSE level[s][p]
        last == lv.tail
    IN  /\ index' = IF new THEN [index EXCEPT ![s] = InsertedAt(@, Position(s, p), p)] ELSE index
        /\ level' = [level EXCEPT ![s] = Bind(@, p,
                        [total |-> lv.total + d.rem, tail |-> n,
                         head |-> IF last = Nil THEN n ELSE lv.head])]
        /\ node' = [m \in Nodes |->
              IF m = n THEN Behind([node[n] EXCEPT !.data = d, !.parent = <<s, p>>], last)
              ELSE IF m = last THEN [node[m] EXCEPT !.next = n]
              ELSE node[m]]
        /\ orders' = Bind(orders, d.id, n)

\* Mutant of Cleared: the node keeps its pointers when it goes to the pool.
ClearedLate(x) == x

\* The node x with its dangling pointers cleared.
Cleared(x) == Detached(x.data)

\* Mutant of Emptied: an empty level is never deleted.
EmptiedNever(lv) == FALSE

Emptied(lv) == lv.head = Nil

\* removeOrderInternal of n from the heap h, in which its quantity has been
\* updated; v is the volume its caller leaves at the level.
RemoveOrder(n, h, v) ==
    LET s == h[n].parent[1]
        p == h[n].data.price
        before == h[n].prev
        after == h[n].next
        lv == [total |-> v,
               head |-> IF before = Nil THEN after ELSE level[s][p].head,
               tail |-> IF after = Nil THEN before ELSE level[s][p].tail]
    IN  /\ node' = [m \in Nodes |->
              IF m = n THEN Cleared(h[n])
              ELSE IF m = before THEN [h[m] EXCEPT !.next = after]
              ELSE IF m = after THEN [h[m] EXCEPT !.prev = before]
              ELSE h[m]]
        /\ orders' = Unbind(orders, h[n].data.id)
        /\ IF Emptied(lv)
           THEN /\ level' = [level EXCEPT ![s] = Unbind(@, p)]
                /\ index' = [index EXCEPT ![s] = Unindexed(s, p)]
           ELSE /\ level' = [level EXCEPT ![s][p] = lv]
                /\ UNCHANGED index
        /\ pool' = pool \cup {n}

-----------------------------------------------------------------------------
(* The operations                                                          *)

Data(id, u, s, p, q) ==
    [id |-> id, user |-> u, side |-> s, price |-> p, qty |-> q, rem |-> q,
     seq |-> Cardinality(used) + 1]

\* RestoreOrder: the node comes from the repository, not from the pool.
RestoreOrder(id, u, s, p, q) ==
    /\ ~open
    /\ IsNextId(id)
    /\ \E n \in Fresh : AddOrder(n, Data(id, u, s, p, q))
    /\ used' = used \cup {id}
    /\ UNCHANGED <<pool, pc, taker, best, maker, matched, trades, open>>

OpenMarket ==
    /\ ~open /\ open' = TRUE
    /\ UNCHANGED <<node, level, index, orders, pool, pc, taker, best, maker,
                   matched, trades, used>>

\* PlaceOrder up to matchInternal.  Get hands out a pooled node, or allocates
\* one: the pool is per processor and the collector may empty it.
BeginPlace(id, u, s, p, q) ==
    /\ open
    /\ pc = "idle"
    /\ IsNextId(id)
    /\ \E n \in pool \cup Fresh :
         /\ taker' = n
         /\ pool' = pool \ {n}
         /\ node' = [node EXCEPT ![n] =
                       IF n \in pool THEN [@ EXCEPT !.data = Data(id, u, s, p, q)]
                       ELSE Detached(Data(id, u, s, p, q))]
    /\ used' = used \cup {id}
    /\ trades' = <<>>
    /\ pc' = "level"
    /\ UNCHANGED <<level, index, orders, best, maker, matched, open>>

Taken == node[taker].data

\* The head of the outer loop: bestOposite, or the end of matchInternal.
PickLevel ==
    /\ pc = "level"
    /\ LET s == Opposite(Taken.side) IN
         IF /\ Taken.rem > 0
            /\ index[s] # <<>>
            /\ Crosses(Taken.side, Taken.price, Head(index[s]))
         THEN /\ best' = Head(index[s])
              /\ maker' = level[s][Head(index[s])].head
              /\ matched' = FALSE
              /\ pc' = "walk"
         ELSE pc' = "rest" /\ UNCHANGED <<best, maker, matched>>
    /\ UNCHANGED <<node, level, index, orders, pool, taker, trades, used, open>>

\* The inner loop passes over an order of the taker's own owner.
SkipOwn ==
    /\ pc = "walk"
    /\ maker # Nil /\ Taken.rem > 0
    /\ node[maker].data.user = Taken.user
    /\ maker' = node[maker].next
    /\ UNCHANGED <<node, level, index, orders, pool, pc, taker, best, matched,
                   trades, used, open>>

\* The inner loop trades with the maker and, if that fills it, removes it.
Trade ==
    /\ pc = "walk"
    /\ maker # Nil /\ Taken.rem > 0
    /\ node[maker].data.user # Taken.user
    /\ LET s == Opposite(Taken.side)
           m == node[maker].data
           q == Lesser(Taken.rem, m.rem)
           h == [node EXCEPT ![taker].data.rem = @ - q, ![maker].data.rem = @ - q]
           v == level[s][best].total - q
       IN  /\ trades' = Append(trades,
                [side |-> Taken.side, price |-> best, qty |-> q,
                 takerId |-> Taken.id, makerId |-> m.id,
                 takerUser |-> Taken.user, makerUser |-> m.user])
           /\ IF m.rem = q
              THEN RemoveOrder(maker, h, v)
              ELSE /\ node' = h
                   /\ level' = [level EXCEPT ![s][best].total = v]
                   /\ UNCHANGED <<index, orders, pool>>
           /\ maker' = node[maker].next
    /\ matched' = TRUE
    /\ UNCHANGED <<pc, taker, best, used, open>>

\* Mutant of EndWalk: the level is tried again even if nobody there could trade.
EndWalkRetries ==
    /\ pc = "walk"
    /\ maker = Nil \/ Taken.rem = 0
    /\ pc' = "level"
    /\ best' = 0 /\ maker' = Nil /\ matched' = FALSE
    /\ UNCHANGED <<node, level, index, orders, pool, taker, trades, used, open>>

\* The end of a walk: the next level, unless nobody here could trade.
EndWalk ==
    /\ pc = "walk"
    /\ maker = Nil \/ Taken.rem = 0
    /\ pc' = IF matched THEN "level" ELSE "rest"
    /\ best' = 0 /\ maker' = Nil /\ matched' = FALSE
    /\ UNCHANGED <<node, level, index, orders, pool, taker, trades, used, open>>

\* The end of PlaceOrder.  A filled taker is dropped, not put in the pool.
EndPlace ==
    /\ pc = "rest"
    /\ IF Taken.rem > 0
       THEN AddOrder(taker, Taken)
       ELSE /\ node' = [node EXCEPT ![taker] = Detached(NoData)]
            /\ UNCHANGED <<level, index, orders>>
    /\ pc' = "idle" /\ taker' = Nil
    /\ UNCHANGED <<pool, best, maker, matched, trades, used, open>>

\* Mutant of CancelOrder: the volume of the level is left as it was.
CancelOrderKeepsVolume(id) ==
    /\ open
    /\ pc = "idle"
    /\ id \in DOMAIN orders
    /\ LET n == orders[id]
           d == node[n].data
       IN  RemoveOrder(n, node, level[d.side][d.price].total)
    /\ UNCHANGED <<pc, taker, best, maker, matched, trades, used, open>>

\* CancelOrder of an order on the book; for any other it returns false.
CancelOrder(id) ==
    /\ open
    /\ pc = "idle"
    /\ id \in DOMAIN orders
    /\ LET n == orders[id]
           d == node[n].data
       IN  RemoveOrder(n, node, level[d.side][d.price].total - d.rem)
    /\ UNCHANGED <<pc, taker, best, maker, matched, trades, used, open>>

RunPlace == PickLevel \/ SkipOwn \/ Trade \/ EndWalk \/ EndPlace

Next ==
    \/ \E id \in OrderIds, u \in Users, s \in Sides, p \in Prices, q \in Quantities :
          RestoreOrder(id, u, s, p, q) \/ BeginPlace(id, u, s, p, q)
    \/ OpenMarket
    \/ PickLevel \/ SkipOwn \/ Trade \/ EndWalk \/ EndPlace
    \/ \E id \in DOMAIN orders : CancelOrder(id)

\* A call of PlaceOrder is sequential code: once begun it keeps running.
Spec == Init /\ [][Next]_vars /\ WF_vars(RunPlace)

-----------------------------------------------------------------------------
(* What others see of the book                                             *)

\* Snapshot: the depth of each side, in the order of its index.
Snapshot ==
    [s \in Sides |-> [i \in DOMAIN index[s] |->
        [price |-> index[s][i], total |-> level[s][index[s][i]].total]]]

\* The resting orders as LimitBook knows them.
Resting ==
    [id \in DOMAIN orders |-> AsResting(node[orders[id]].data, node[orders[id]].data.rem)]

LB == INSTANCE LimitBook WITH
        book <- Resting, used <- used, trades <- trades, open <- open,
        taker <- IF pc = "idle" THEN NoOrder ELSE Taken

-----------------------------------------------------------------------------
(* Properties *)

Pointer == Nodes \cup {Nil}

TypeOK ==
    /\ node \in [Nodes -> [data : OrderData \cup {NoData}, prev : Pointer,
                          next : Pointer, parent : (Sides \X Prices) \cup {Nil}]]
    /\ \A s \in Sides :
         /\ index[s] \in Seq(Prices)
         /\ DOMAIN level[s] \subseteq Prices
         /\ \A p \in DOMAIN level[s] :
              level[s][p] \in [total : Nat, head : Nodes, tail : Nodes]
    /\ DOMAIN orders \subseteq used /\ Range(orders) \subseteq Nodes
    /\ pool \subseteq Nodes
    /\ pc \in {"idle", "level", "walk", "rest"}
    /\ taker \in Pointer /\ (taker = Nil <=> pc = "idle")
    /\ best \in Prices \cup {0} /\ maker \in Pointer /\ matched \in BOOLEAN
    /\ trades \in Seq(LB!Trade) /\ used \subseteq OrderIds /\ open \in BOOLEAN

\* The nodes of the orders of a side and a price, and when they came.
Queue(s, p) == {n \in Range(orders) : node[n].data.side = s /\ node[n].data.price = p}

Arrival(n) == node[n].data.seq

\* n is the first, or the last, to come of S, and nil if S is empty.
Earliest(n, S) == IF S = {} THEN n = Nil ELSE n \in S /\ \A m \in S : Arrival(n) <= Arrival(m)
Latest(n, S) == IF S = {} THEN n = Nil ELSE n \in S /\ \A m \in S : Arrival(m) <= Arrival(n)

\* Every level is a doubly linked list of exactly the orders of its side and
\* price, first come first: head is the earliest of them and tail the latest,
\* next leads from each to the one that came after it and prev to the one
\* that came before, and parent back to the level.  So no list has a cycle,
\* and none is empty.
LevelsAreQueues ==
    \A s \in Sides : \A p \in DOMAIN level[s] :
        LET q == Queue(s, p)
        IN  /\ q # {}
            /\ Earliest(level[s][p].head, q) /\ Latest(level[s][p].tail, q)
            /\ \A n \in q :
                 /\ node[n].parent = <<s, p>>
                 /\ Earliest(node[n].next, {m \in q : Arrival(m) > Arrival(n)})
                 /\ Latest(node[n].prev, {m \in q : Arrival(m) < Arrival(n)})

\* The snapshot the clients and the cache get is the book: each price at
\* which orders rest, once, best first, with exactly their open quantity.
\* TotalVol is maintained by four different code paths and never recomputed.
SnapshotShowsTheBook ==
    \A s \in Sides :
        LET at(p) == {id \in DOMAIN Resting : Resting[id].side = s /\ Resting[id].price = p}
        IN  /\ {Snapshot[s][i].price : i \in DOMAIN Snapshot[s]} = {p \in Prices : at(p) # {}}
            /\ \A i \in DOMAIN Snapshot[s] :
                 /\ i > 1 => Better(s, Snapshot[s][i - 1].price, Snapshot[s][i].price)
                 /\ Snapshot[s][i].total =
                      Sum([id \in at(Snapshot[s][i].price) |-> Resting[id].rem])

\* A node is pooled, on the book or the taker, never two of these; and until
\* it is appended its pointers are nil, on which addOrderInternal relies: it
\* writes neither next nor, at an empty level, prev.
PoolIsDisjoint ==
    /\ pool \cap (Range(orders) \cup {taker}) = {}
    /\ taker \notin Range(orders)
    /\ \A n \in pool \cup ({taker} \ {Nil}) :
         node[n].prev = Nil /\ node[n].next = Nil /\ node[n].parent = Nil

\* The lists, the index and the early exits of the two loops implement the
\* price-time book of LimitBook, trade for trade.
ImplementsLimitBook == LB!BookSpec

\* PlaceOrder returns: no walk goes round, and no level that cannot trade is
\* picked again and again.
PlaceOrderReturns == (pc # "idle") ~> (pc = "idle")
=============================================================================
