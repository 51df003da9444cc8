------------------------------ MODULE Exchange ------------------------------
(***************************************************************************)
(* The exchange around its engine: the API and the worker share a          *)
(* PostgreSQL database; commands reach the worker on a Kafka topic, each   *)
(* at least once: the relay may publish one again and the consumer group   *)
(* deliver one again, to a new process or to the one that has handled it.  *)
(* The order book and the BalanceCache live in memory and are rebuilt from *)
(* the database when the process starts.                                   *)
(*                                                                         *)
(* PlaceOrder is one step here, the closed form of Matching that LimitBook *)
(* and OrderBook implement.  The traders have a row of balances for each   *)
(* asset from the start, which may hold zeros (rows are never deleted):    *)
(* what is different without one, even for an amount that is rounded to    *)
(* nothing, is not modelled.                                               *)
(* A worker that panics outside of its mutex recovers and goes on; one     *)
(* that panics while holding it (a failed settlement) blocks at the next   *)
(* message, so what that panic leaves in memory is not modelled.           *)
(* Code: services/{order_service,worker}.go, adapters/repository, sql/.    *)
(***************************************************************************)
EXTENDS Tables, Sequences

CONSTANTS
    Offers,        \* the orders traders submit, without their ids
    Opening,       \* the balances in the database before the first start
    Deposits,      \* what traders deposit
    MaxSupply,     \* bound: what may be deposited of one asset
    MaxBacklog,    \* bound: how many commands are behind the committed offset
    MaxFaults      \* bound: how many crashes, lost transactions, ... strike

ASSUME OfferAssumption ==
    /\ OrderIds = 1 .. Cardinality(OrderIds)   \* in the order of created_at
    /\ Offers \subseteq [user : Users, side : Sides, price : Prices, qty : Quantities]
    /\ Opening \in [Users -> [Assets -> Nat]]
    /\ Deposits \subseteq [user : Users, asset : Assets, amount : Nat \ {0}]

VARIABLES
    db,           \* PostgreSQL, see Tables
    (* Kafka *)
    topic,        \* the commands behind the committed offset
    handled,      \* how many of them this process has handled
    (* the process *)
    mode,         \* "down", "rebuilt", "up", "stuck" (panic with the mutex held) or "dead"
    book,         \* the book: arrival number -> resting order
    node,         \* arrival number -> the ID of that order
    orders,       \* ob.Orders: ID -> arrival number
    available, locked,   \* the BalanceCache
    pending,      \* the transaction after the change in memory, or NoTx
    (* history *)
    deposited,    \* all money ever brought in, per asset
    sent,         \* the commands written to the outbox so far
    clean,        \* no fault has struck at a bad moment so far
    faults        \* how many faults have struck

topicVars == <<topic, handled>>
bookVars == <<book, node, orders>>
cacheVars == <<available, locked>>
history == <<deposited, sent, clean, faults>>
vars == <<db, topicVars, mode, bookVars, cacheVars, pending, history>>

\* The worker has no transaction to write.
NoTx == [kind |-> "none"]

\* The process has just been started, or stopped.
Forget ==
    /\ mode' = "down"
    /\ book' = <<>> /\ node' = <<>> /\ orders' = <<>>
    /\ available' = Zeros /\ locked' = Zeros
    /\ pending' = NoTx

Init ==
    /\ db = [orders |-> <<>>, available |-> Opening, locked |-> Zeros, trades |-> {}]
    /\ topic = <<>> /\ handled = 0
    /\ mode = "down"
    /\ book = <<>> /\ node = <<>> /\ orders = <<>>
    /\ available = Zeros /\ locked = Zeros
    /\ pending = NoTx
    /\ deposited = [a \in Assets |-> Sum([u \in Users |-> Opening[u][a]])]
    /\ sent = {} /\ clean = TRUE
    /\ faults = 0

-----------------------------------------------------------------------------
(* The API.  It writes the database and the outbox in one transaction;     *)
(* what the relay does until the command is on the topic is in Outbox.     *)
(* Here the command is on the topic at once, where Redeliver and Overtake  *)
(* stand for what the relay may do to it.                                  *)

Serving == mode # "down" /\ Len(topic) < MaxBacklog

PlaceCommand(id) == [type |-> "OrderPlaced", id |-> id]
DepositCommand(d) == [type |-> "DepositCreated", user |-> d.user, asset |-> d.asset,
                      amount |-> d.amount]
CancelCommand(id) == [type |-> "OrderCancelRequested", id |-> id]

Send(c) == topic' = Append(topic, c) /\ sent' = sent \cup {c}

SubmitOrder(o) ==
    LET id == Cardinality(DOMAIN db.orders) + 1
    IN  /\ Serving
        /\ id \in OrderIds
        /\ db' = CreateOrder(db, id, o)
        /\ Send(PlaceCommand(id))
        /\ UNCHANGED <<handled, mode, bookVars, cacheVars, pending, deposited, clean, faults>>

\* Bound: the owner asks once.
RequestCancel(id) ==
    /\ Serving
    /\ db.orders[id].status \in {"NEW", "PLACED", "PARTIAL"}
    /\ CancelCommand(id) \notin sent
    /\ Send(CancelCommand(id))
    /\ UNCHANGED <<db, handled, mode, bookVars, cacheVars, pending, deposited, clean, faults>>

SubmitDeposit(d) ==
    /\ Serving
    /\ deposited[d.asset] + d.amount <= MaxSupply
    /\ deposited' = [deposited EXCEPT ![d.asset] = @ + d.amount]
    /\ db' = UpsertBalance(db, d.user, d.asset, d.amount)
    /\ Send(DepositCommand(d))
    /\ UNCHANGED <<handled, mode, bookVars, cacheVars, pending, clean, faults>>

-----------------------------------------------------------------------------
(* Trades and payments                                                     *)

\* What two parties pay each other for the fills F of the order r.
Legs(r, F) ==
    LET buyer(f) == IF r.side = "BUY" THEN r.user ELSE f.user
        seller(f) == IF r.side = "BUY" THEN f.user ELSE r.user
    IN  {[n |-> f.n, asset |-> "USD", amount |-> Notional(f.price, f.qty),
          from |-> buyer(f), to |-> seller(f)] : f \in F}
        \cup {[n |-> f.n, asset |-> "BTC", amount |-> f.qty,
               from |-> seller(f), to |-> buyer(f)] : f \in F}

Paid(legs, u, a) == Sum([l \in {l \in legs : l.from = u /\ l.asset = a} |-> l.amount])
\* Mutant: the balance deltas of one user and asset overwrite each other.
ReceivedOnce(legs, u, a) ==
    Max({0} \cup {l.amount : l \in {l \in legs : l.to = u /\ l.asset = a}})

Received(legs, u, a) == Sum([l \in {l \in legs : l.to = u /\ l.asset = a} |-> l.amount])

\* What the trades change: they are paid from locked, credited to available.
Credits(legs) == [u \in Users |-> [a \in Assets |-> Received(legs, u, a)]]
Debits(legs) == [u \in Users |-> [a \in Assets |-> -Paid(legs, u, a)]]

\* Mutant: the key does not name the maker.
FillKeyOfTaker(id, side, f) == [taker |-> id, price |-> f.price, qty |-> f.qty]

\* UNIQUE (buyer_order_id, seller_order_id, execution_price, quantity).
FillKey(id, side, f) ==
    [buyer |-> IF side = "BUY" THEN id ELSE f.maker,
     seller |-> IF side = "BUY" THEN f.maker ELSE id, price |-> f.price, qty |-> f.qty]

-----------------------------------------------------------------------------
(* The worker                                                              *)

Fetched(type) ==
    /\ mode = "up" /\ pending = NoTx
    /\ handled < Len(topic)
    /\ topic[handled + 1].type = type

Command == topic[handled + 1]

HandleDeposit ==
    /\ Fetched("DepositCreated")
    /\ available' = Moved(available, Command.user, Command.asset, Command.amount)
    /\ handled' = handled + 1
    /\ UNCHANGED <<db, topic, mode, bookVars, locked, pending, history>>

\* LockFunds fails; the error of the status update is ignored.
RejectOrder ==
    /\ Fetched("OrderPlaced")
    /\ LET id == Command.id
           r == db.orders[id]
       IN  /\ available[r.user][LockAsset(r.side)] < Due(r.side, r.price, r.qty)
           /\ db' = UpdateOrderStatus(db, id, "REJECTED")
    /\ handled' = handled + 1
    /\ UNCHANGED <<topic, mode, bookVars, cacheVars, pending, history>>

\* The node PlaceOrder gets for the row r.
Taker(r) ==
    LET n == Max(DOMAIN book \cup {0}) + 1
    IN  [id |-> n, user |-> r.user, side |-> r.side, price |-> r.price,
         qty |-> r.qty, rem |-> r.qty, seq |-> n]

\* ob.Orders when the book is after: removed nodes are deleted by their ID,
\* then t is entered under id if it rests.
Index(id, t, after) ==
    LET kept == Restrict(orders, DOMAIN orders \ {node[m] : m \in DOMAIN book \ DOMAIN after})
    IN  IF t.id \in DOMAIN after THEN Bind(kept, id, t.id) ELSE kept

\* The trades of t.  The Status of a maker that still rests is NEW: no fill
\* sets it, nor does RestoreOrder.
Fills(t, index) ==
    {[n |-> m, maker |-> node[m], user |-> book[m].user, price |-> book[m].price,
      qty |-> Consumed(book, t, m), status |-> IF node[m] \in DOMAIN index THEN "NEW" ELSE "FILLED"]
     : m \in {m \in DOMAIN book : Consumed(book, t, m) > 0}}

\* The Status of t itself.
TakerStatus(t, after) ==
    IF t.id \notin DOMAIN after THEN "FILLED"
    ELSE IF after[t.id].rem < t.qty THEN "PARTIAL" ELSE "PLACED"

\* LockFunds, PlaceOrder and SettleTrade for every trade.  If the locked funds
\* of some party do not cover its payments one of the SettleTrade calls fails
\* and the worker panics with its mutex held: memory is not used again.
AcceptOrder ==
    /\ Fetched("OrderPlaced")
    /\ LET id == Command.id
           r == db.orders[id]
           a == LockAsset(r.side)
           amount == Due(r.side, r.price, r.qty)
           t == Taker(r)
           after == Outcome(book, t)
           index == Index(id, t, after)
           made == Fills(t, index)
           legs == Legs(r, made)
           paid == Changed(Moved(locked, r.user, a, amount), Debits(legs))
       IN  /\ available[r.user][a] >= amount
           /\ IF Solvent(paid)
              THEN /\ book' = after
                   /\ node' = Restrict(Bind(node, t.id, id), DOMAIN after)
                   /\ orders' = index
                   /\ locked' = paid
                   /\ available' = Changed(Moved(available, r.user, a, -amount), Credits(legs))
                   /\ pending' = [kind |-> "place", id |-> id, amount |-> amount,
                                  fills |-> made, status |-> TakerStatus(t, after)]
                   /\ UNCHANGED <<mode, handled>>
              ELSE /\ mode' = "stuck" /\ handled' = handled + 1
                   /\ UNCHANGED <<bookVars, cacheVars, pending>>
    /\ UNCHANGED <<db, topic, history>>

\* Mutant: the row is marked although the order is not on the book.
CancelMissingMarks(id) ==
    /\ id \notin DOMAIN orders
    /\ handled' = handled + 1
    /\ db' = UpdateOrderStatus(db, id, "CANCELLED")
    /\ UNCHANGED <<bookVars, cacheVars, pending>>

\* Only an order on the book can be cancelled.
CancelMissing(id) ==
    /\ id \notin DOMAIN orders
    /\ handled' = handled + 1
    /\ UNCHANGED <<db, bookVars, cacheVars, pending>>

\* If UnlockFunds fails the handler gives up: the order is off the book, its
\* row unchanged.
CancelResting(id) ==
    LET o == book[orders[id]]
        a == LockAsset(o.side)
        amount == Due(o.side, o.price, o.rem)
    IN  /\ id \in DOMAIN orders
        /\ book' = Unbind(book, orders[id]) /\ node' = Unbind(node, orders[id])
        /\ orders' = Unbind(orders, id)
        /\ IF locked[o.user][a] >= amount
           THEN /\ locked' = Moved(locked, o.user, a, -amount)
                /\ available' = Moved(available, o.user, a, amount)
                /\ pending' = [kind |-> "cancel", id |-> id, amount |-> amount,
                               fills |-> {}, status |-> "CANCELLED"]
                /\ UNCHANGED handled
           ELSE handled' = handled + 1 /\ UNCHANGED <<cacheVars, pending>>
        /\ UNCHANGED db

HandleCancel ==
    /\ Fetched("OrderCancelRequested")
    /\ CancelMissing(Command.id) \/ CancelResting(Command.id)
    /\ UNCHANGED <<topic, mode, history>>

\* The transaction of handlePlaceOrder.
PlaceTx(p) ==
    LET r == db.orders[p.id]
        legs == Legs(r, p.fills)
        makers == {f.maker : f \in p.fills}
        d1 == UpdateBalanceLock(db, r.user, LockAsset(r.side), p.amount)
        d2 == Then(d1, UpdateOrderStatus(d1, p.id, p.status))
        d3 == Then(d2, CreateTradesBatch(d2, [f \in p.fills |-> FillKey(p.id, r.side, f)]))
        d4 == Then(d3, UpdateOrderStatusesBatch(d3,
                          [id \in makers |-> (CHOOSE f \in p.fills : f.maker = id).status]))
    IN  Then(d4, BatchUpdateBalances(d4, Credits(legs), Debits(legs)))

\* The transaction of handleCancelOrder.
CancelTx(p) ==
    LET r == db.orders[p.id]
        d == UpdateBalanceUnlock(db, r.user, LockAsset(r.side), p.amount)
    IN  Then(d, UpdateOrderStatus(d, p.id, p.status))

Outgoing(p) == IF p.kind = "cancel" THEN CancelTx(p) ELSE PlaceTx(p)

\* ExecTx; a transaction the constraints refuse is logged and forgotten.
Persist ==
    /\ mode = "up" /\ pending # NoTx
    /\ db' = IF Outgoing(pending) = Refused THEN db ELSE Outgoing(pending)
    /\ pending' = NoTx
    /\ handled' = handled + 1
    /\ UNCHANGED <<topic, mode, bookVars, cacheVars, history>>

\* CommitMessage, flushed in the background.
CommitOffset ==
    /\ mode # "down" /\ handled > 0
    /\ topic' = SubSeq(topic, handled + 1, Len(topic))
    /\ handled' = 0
    /\ UNCHANGED <<db, mode, bookVars, cacheVars, pending, history>>

-----------------------------------------------------------------------------
(* Start                                                                   *)

Active == ListActiveOrders(db)

\* The ids of S in the order of created_at.
Created(S) == {s \in [1 .. Cardinality(S) -> S] : \A i, j \in DOMAIN s : i < j => s[i] < s[j]}

\* A node for the row r, with all of its quantity.
Restored(r, n) == [user |-> r.user, side |-> r.side, price |-> r.price, qty |-> r.qty,
                   rem |-> r.qty, seq |-> n]

\* RebuildOrderBook.  Within a level orders are restored as they were created.
Rebuild ==
    /\ mode = "down"
    /\ mode' = "rebuilt"
    /\ \E created \in Created(Active) :
         /\ node' = created
         /\ book' = [n \in DOMAIN created |-> Restored(db.orders[created[n]], n)]
         /\ orders' = [id \in Active |-> CHOOSE n \in DOMAIN created : created[n] = id]
    /\ UNCHANGED <<db, topicVars, cacheVars, pending, history>>

\* What the active orders of u lock of a, one by one.
Dues(u, a) ==
    LET mine == {id \in Active : db.orders[id].user = u /\ LockAsset(db.orders[id].side) = a}
    IN  [id \in mine |-> Due(db.orders[id].side, db.orders[id].price, db.orders[id].qty)]

\* Mutant: what the orders lock is added to what the database has as locked.
HydratedTwice(u, a) == db.locked[u][a] + Sum(Dues(u, a))

\* What hydrate takes as locked: the database, or the largest single order.
Hydrated(u, a) == Max(Range(Dues(u, a)) \cup {db.locked[u][a]})

\* hydrate, while the API already serves.
Hydrate ==
    /\ mode = "rebuilt"
    /\ mode' = "up"
    /\ available' = db.available
    /\ locked' = [u \in Users |-> [a \in Assets |-> Hydrated(u, a)]]
    /\ clean' = (clean /\ \A i \in handled + 1 .. Len(topic) : topic[i].type # "DepositCreated")
    /\ UNCHANGED <<db, topicVars, bookVars, pending, deposited, sent, faults>>

-----------------------------------------------------------------------------
(* Faults                                                                  *)

\* A message is being handled, or its offset is not committed yet.
Settling == pending # NoTx \/ handled > 0

Crash ==
    /\ mode # "down" /\ faults < MaxFaults
    /\ Forget
    /\ handled' = 0
    /\ clean' = (clean /\ ~Settling /\ \A n \in DOMAIN book : book[n].rem = book[n].qty)
    /\ faults' = faults + 1
    /\ UNCHANGED <<db, topic, deposited, sent>>

\* A transaction fails for another reason, a lost connection say.
LoseTx ==
    /\ mode = "up" /\ pending # NoTx /\ faults < MaxFaults
    /\ pending' = NoTx
    /\ handled' = handled + 1
    /\ clean' = FALSE
    /\ faults' = faults + 1
    /\ UNCHANGED <<db, topic, mode, bookVars, cacheVars, deposited, sent>>

\* hydrate fails: the worker returns, the rest of the process goes on.
HydrateFails ==
    /\ mode = "rebuilt" /\ faults < MaxFaults
    /\ mode' = "dead"
    /\ faults' = faults + 1
    /\ UNCHANGED <<db, topicVars, bookVars, cacheVars, pending, deposited, sent, clean>>

\* The worker has no record of what it has handled (handleMessages): an order is
\* locked and placed again, a deposit credited again; only a second
\* cancellation finds nothing to do.
Idempotent(c) == c.type = "OrderCancelRequested"

\* The relay publishes a command once more: the publish that seemed to fail had
\* succeeded, or the batch could not be marked.
Redeliver ==
    /\ Serving /\ faults < MaxFaults
    /\ \E c \in sent :
         /\ topic' = Append(topic, c)
         /\ clean' = (clean /\ Idempotent(c))
    /\ faults' = faults + 1
    /\ UNCHANGED <<db, handled, mode, bookVars, cacheVars, pending, deposited, sent>>

\* The consumer joins its group again and reads from the committed offset.
Rejoin ==
    /\ mode = "up" /\ pending = NoTx /\ handled > 0 /\ faults < MaxFaults
    /\ handled' = 0
    /\ clean' = (clean /\ \A i \in 1 .. handled : Idempotent(topic[i]))
    /\ faults' = faults + 1
    /\ UNCHANGED <<db, topic, mode, bookVars, cacheVars, pending, deposited, sent>>

\* The first message whose handler has not begun.
Unread == handled + (IF pending = NoTx THEN 1 ELSE 2)

\* The messages of q, the i-th behind all others.
MovedLast(q, i) ==
    [k \in DOMAIN q |-> q[IF k < i THEN k ELSE IF k < Len(q) THEN k + 1 ELSE i]]

\* The publish of a command fails, and what was written after it goes first.
Overtake ==
    /\ mode # "down" /\ faults < MaxFaults
    /\ \E i \in Unread .. Len(topic) - 1 : topic' = MovedLast(topic, i)
    /\ faults' = faults + 1
    /\ UNCHANGED <<db, handled, mode, bookVars, cacheVars, pending, deposited, sent, clean>>

Next ==
    \/ \E o \in Offers : SubmitOrder(o)
    \/ \E id \in DOMAIN db.orders : RequestCancel(id)
    \/ \E d \in Deposits : SubmitDeposit(d)
    \/ HandleDeposit \/ RejectOrder \/ AcceptOrder \/ HandleCancel
    \/ Persist \/ CommitOffset
    \/ Rebuild \/ Hydrate
    \/ Crash \/ LoseTx \/ HydrateFails
    \/ Redeliver \/ Rejoin \/ Overtake

Spec == Init /\ [][Next]_vars

-----------------------------------------------------------------------------
(* Properties *)

Statuses == {"NEW", "PLACED", "PARTIAL", "FILLED", "CANCELLED"}

TypeOK ==
    /\ DOMAIN db.orders \subseteq OrderIds
    /\ \A id \in DOMAIN db.orders : db.orders[id] \in
         [user : Users, side : Sides, price : Prices, qty : Quantities, status : Statuses]
    /\ db.available \in [Users -> [Assets -> Nat]] /\ db.locked \in [Users -> [Assets -> Nat]]
    /\ available \in [Users -> [Assets -> Nat]] /\ locked \in [Users -> [Assets -> Nat]]
    /\ handled \in 0 .. Len(topic)
    /\ mode \in {"down", "rebuilt", "up", "stuck", "dead"}
    /\ node \in [DOMAIN book -> OrderIds]
    /\ Range(orders) \subseteq DOMAIN book
    /\ clean \in BOOLEAN

\* Between two messages.
Quiet == mode = "up" /\ pending = NoTx

\* Whatever crashes, fails or is repeated, the database neither creates nor
\* destroys money: its transactions are complete and balanced.
DatabaseConserves ==
    \A a \in Assets :
        Sum([u \in Users |-> db.available[u][a] + db.locked[u][a]]) = deposited[a]

\* Deposits on their way to the worker.
Underway(u, a) ==
    Sum([i \in handled + 1 .. Len(topic) |->
           IF topic[i].type = "DepositCreated" /\ topic[i].user = u /\ topic[i].asset = a
           THEN topic[i].amount ELSE 0])

\* Between two messages the BalanceCache is the balances table less the
\* deposits under way, also after a restart that came at a quiet moment, late
\* orders and repeated cancellations.  (An order or a deposit handled twice
\* changes the cache twice: such a repetition clears clean.)
CacheMatchesDatabase ==
    Quiet /\ clean =>
        \A u \in Users, a \in Assets :
            /\ locked[u][a] = db.locked[u][a]
            /\ available[u][a] + Underway(u, a) = db.available[u][a]

\* What the engine did in memory the database accepts: no constraint of the
\* schema refuses the transaction, no settlement panics.
MemoryIsAccepted == clean => (pending # NoTx => Outgoing(pending) # Refused) /\ mode # "stuck"

\* The rows tell what is on the book: an order shown as open rests there,
\* once; one shown as filled or cancelled does not.  (Placed again, an order
\* would leave its first node on the book with no ID: clean is false then.)
StatusesTellTheBook ==
    Quiet /\ clean =>
        /\ \A id \in Active : id \in DOMAIN orders
        /\ \A id \in DOMAIN orders : db.orders[id].status \notin {"FILLED", "CANCELLED"}
        /\ Range(orders) = DOMAIN book
        /\ \A id \in DOMAIN orders : node[orders[id]] = id

\* A filled or cancelled order stays so, whatever cancellations come late or
\* twice.  (Placed again while not clean, it becomes PLACED.)
TerminalIsFinal ==
    [][\A id \in DOMAIN db.orders :
          clean /\ db.orders[id].status \in {"FILLED", "CANCELLED"}
            => db'.orders[id].status = db.orders[id].status]_vars

\* "Elimination of Settlement Panics ... even after an ungraceful shutdown"
\* (docs/adr/0004, line 25).
SettlementsNeverPanic == mode # "stuck"

\* "consistent across restarts" (docs/adr/0001, line 15): what a restart would
\* restore between two messages is what rests on the book.
BookIsRecoverable ==
    Quiet /\ clean =>
        {<<id, db.orders[id].qty>> : id \in Active} = {<<id, book[orders[id]].rem>> : id \in DOMAIN orders}

\* "ensuring memory-database consistency" (README.md, Recently Completed):
\* between two messages no trader can spend what the database does not hold.
CacheIsBacked ==
    Quiet => \A u \in Users, a \in Assets : available[u][a] <= db.available[u][a]
=============================================================================
