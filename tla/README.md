# A verification project for the exchange

TLA+ models of the order-book exchange in `src/`, the TLC configurations that
check them on small instances, and TLAPS proofs of what holds for every
instance. `PROJECT.json` maps every definition to the lines it stands for.

    tlc -workers 2 -config MCEngine.cfg MCEngine      # a run
    tlapm EngineProofs.tla                            # a proof

## 1. The system

One Go process serves a REST API and a WebSocket feed and matches orders in
memory. Commands take a detour: an API handler writes the order and an event
into PostgreSQL in one transaction; a relay publishes the events on a Kafka
topic of one partition; a single worker consumes the topic, matches against
the book in memory, settles against the balances in memory, and then writes the
outcome to PostgreSQL in a second transaction. On start the book and the
balances are rebuilt from PostgreSQL.

| Component | State | Operations | Talks to |
|---|---|---|---|
| Order book (`core/domain/orderbook.go`, `order.go`) | price levels as doubly linked lists, sorted price indexes, id map, node pool | RestoreOrder, PlaceOrder (matchInternal), CancelOrder, GetOrder, Snapshot, Reset | called by service (rebuild) and worker |
| Balance cache (`balance_cache.go`) | available and locked per user and asset | InitBalance, LockFunds, UnlockFunds, Deposit, SettleTrade | called by the worker |
| Order worker (`services/worker.go`) | its mutex, `needsRefresh`, the message in hand | hydrate, Run, handlePlaceOrder, handleCancelOrder, DepositCreated, snapshotLoop | book, cache, PostgreSQL, Kafka, Redis |
| Order service (`services/order_service.go`) | none of its own | PlaceOrder, CancelOrder, Deposit, RebuildOrderBook, GetOrderBook, GetBalances | PostgreSQL, relay (`Notify`), Redis |
| Outbox relay (`services/outbox_relay.go`) | the channel `notify`, the batch in hand | Notify, Run, process | outbox table, Kafka |
| Kafka adapters | topic, committed offset | Publish, FetchMessage, CommitMessage | relay, worker |
| PostgreSQL repositories, `sql/` | orders, trades, balances, outbox | the statements of the two transactions | service, worker, relay |
| Market-data feed (worker, `adapters/redis/cache.go`) | Redis key `orderbook:l2`, the subscription | broadcastAndCache, Get, Set | worker, hub, GetOrderBook |
| WebSocket hub (`adapters/ws/hub.go`) | set of clients, a channel per client, `tradeChan`, `latestSnapshot` | HandleWebSocket, Run, both pumps, Broadcast, DisconnectClient | Redis, browsers |
| Process start and stop (`cmd/api/main.go`) | an errgroup of five goroutines, the signal | connect, migrate, create the topic, rebuild, serve, shut down | everything |
| API (`api/middleware.go`, `order_handler.go`) | none of its own | JWTMiddleware, RateLimitMiddleware, CreateOrder, CancelOrder, Deposit, two reads | limiter, service |
| Rate limiter (`adapters/redis/rate_limiter.go`) | Redis: a counter per user and window, with an expiry | Allow | API, Redis |
| Id generator, authentication, metrics | a pool of ids, the users table, counters | Next, Register, Login | API, service |

What is hard here, and listed line by line under `hazards` in `PROJECT.json`:

- *long sequences of legal calls*: pooled list nodes, level volumes kept by four
  code paths, own orders skipped in the middle of a level, a book that is
  crossed after a restart;
- *rounding*: the amount locked for an order is rounded once, the payments one
  by one;
- *atomicity*: an order is matched completely before its first trade is
  settled, in memory before it is in the database;
- *restarts and partial failure*: transactions refused or lost after memory has
  changed, messages handled but not committed, the API serving while the worker
  still hydrates;
- *interleaving and liveness of the relay*: tokens sent too early, tokens
  dropped, failing publishes in the middle of a batch;
- *the feed*: a flag cleared while changes go on, conflation, full channels,
  clients that die on either side;
- *the limiter*: a window named by one clock and expiring by another, scripts run
  twice because an answer was lost;
- *the stop*: a signal at any moment, a server to drain before what its handlers
  use is closed, goroutines that wait for one that has ended;
- *widths*: amounts computed in `big.Int` at one place and in `int64` at another.

## 2. The modules

    Market, Sums ── Matching ─┬─ PriceTime      what PlaceOrder promises (closed form)
                              ├─ LimitBook      trade by trade        implements PriceTime
                              │    ├─ Engine    + BalanceCache and the worker, in memory
                              │    └─ (LB) OrderBook   lists, indexes, pool   implements LimitBook
                              └─ Tables         PostgreSQL: statements and constraints
                                   └─ Exchange  + two transactions, topic, crashes, restarts
    Delivery                                    what the outbox promises
    Outbox                                      relay, topic, offsets   implements Delivery
    Hub ── Feed                                 hub; worker's flag, Redis and hub together
    Amounts ── Gateway ─┐                       a request: token, limiter, handler, transaction
    Process ────────────┴─ Server               start and stop of the process under requests
    SumTheorems, LimitBookProofs, OrderBookProofs, EngineProofs,
    ExchangeProofs, OutboxProofs, FeedProofs, ServerProofs     proofs
    MC*.tla, MC*.cfg                            instances for TLC

**Market, Sums, Matching** - users, prices, quantities, `LockAsset`, `Due`
(the amount handlePlaceOrder locks), `Notional` (price times quantity over
`Decimals`, rounded down as `Quo` does), and `Outcome`: the book after an order,
given directly by how much is consumed of whom. A sum is the number of its units,
a definition without recursion that theorems can be proved about.

**LimitBook** - `book` is `ob.Orders` with the data of its nodes; one action per
trade of matchInternal (`MatchMaker`), entry and exit of PlaceOrder
(`BeginPlace`, `EndPlace`), CancelOrder, and RestoreOrder before the market
opens.

**OrderBook** - the same calls on the data structure: nodes with `prev`, `next`
and `parent`, levels with head, tail and volume, the sorted indexes, the id
map, the pool. An action is an iteration of one of the two loops of
matchInternal: `PickLevel` (bestOposite and the crossing test), `SkipOwn`,
`Trade`, `EndWalk` (the `matchedAtLevel` test), `EndPlace`. Addresses are the
model values `Nodes`. Ids and addresses are handed out in a fixed order (`IsNextId`,
`Fresh`) where the code's are arbitrary: no definition tells two of them apart, and
unlike symmetry this also serves liveness. `LevelsAreQueues` describes the lists
pointer by pointer, relative to the arrival numbers of the orders (`next` leads to
the one that came after, `prev` to the one before), which says the same as reading
a list from its head and can be reasoned about without recursion.

**Engine** - LimitBook and the BalanceCache driven by the worker. A message is
accepted (`AcceptOrder`: LockFunds, then PlaceOrder) or rejected; when matching
is over `Settle` is one SettleTrade; `panicked` is the `panic("memory is
inconsistent")`. `reserve` is history: what of the locked funds belongs to which
order.

**Tables** - the database as a record (`orders`, `available`, `locked`, `trades`) and
an operator per statement, which gives the tables after it or `Refused` when a
constraint or an empty result makes the caller roll back. `Checked` is the
CONSTRAINT on balances, applied to every statement that can lower one. `StatusInDB`
is mapStatusToDB, with its missing case.

**Exchange** - two transactions and a topic around the engine. PlaceOrder is
one step here (`Outcome`), which LimitBook and OrderBook justify, and `Index`,
`Fills` and `TakerStatus` say what it leaves in the id map, in the list of trades and
as the order's status. `AcceptOrder`
and `CancelResting` change memory and leave a transaction in `pending`;
`Persist` writes it, statement by statement (`PlaceTx`, `CancelTx`), if none is
refused; `CommitOffset` comes later. `Rebuild` and `Hydrate` are the start, `Crash`,
`LoseTx` and `HydrateFails` the faults; `Created` numbers the active orders as
`ORDER BY created_at` does. A restored node has the Status NEW, as
RestoreOrder is given it. A command is delivered at least once, and not always in
order: `Redeliver` is the relay that publishes a command again (an error hid a
success, or the batch could not be marked), `Rejoin` the consumer that joins its group
again and reads from the committed offset, both with a process that has handled
the command already; `Overtake` is a failed publish, with what was written later going
first. The worker has no record of what it has handled (`Idempotent`).

`clean` is history. It becomes false

- when an order or a deposit is delivered again by `Redeliver` or `Rejoin`: the worker
  credits the deposit twice; it locks and places the order again, so that a second node
  takes the first one's ID, a filled order becomes PLACED, and equal fills meet the
  unique key of trades;
- when a crash comes at a moment whose restart is known not to be faithful (a message
  in hand or not committed, a partly filled order on the book);
- when a transaction is lost;
- when a deposit is on its way while balances are hydrated.

`CacheMatchesDatabase`, `MemoryIsAccepted`, `StatusesTellTheBook` and `TerminalIsFinal`
are guarded by `clean`, and so say nothing about these cases: what happens in them
is the subject of section 5. They do speak about repeated
cancellations, commands that overtake each other (a cancellation its order, too),
quiet restarts and failing hydration, which leave `clean` as it is. `DatabaseConserves`
and `TypeOK` are not guarded.

**Outbox** - handlers (`Begin`, `CallNotify`, `Commit`, `Abort`), the relay (`Fetch`,
`Publish`, `Mark`, `Select`, `Wake`, `TimeOut`), the worker's consumer group
(`FetchMessage`, `HandleMessage`, `CommitMessage`, `Rejoin`) and faults at every
call: an error that hides a success (`CommitUnseen`, `PublishFails`, `MarkFails`),
a duplicate, a crash. CancelOrder calls Notify *inside* its transaction; the
other two after it.

**Hub, Feed** - Feed EXTENDS Hub. Hub has Run with a case per channel, the two
pumps of a client, the goroutines that evict a client whose channel is full,
and peers that come, stall and go. Feed adds the worker (a change in memory,
then its transaction, then the flag), snapshotLoop, the goroutines that publish
trades, the subscription as a queue and the cache with its expiry. The book is
the number of its changes, a snapshot the number it was taken at.

**Amounts, Gateway** - a request on its way through JWTMiddleware, the limiter
(`Authorize` reads the server's clock, `Allow` runs the script in Redis some time
later; the answer may be lost, late or an error, which lets the request through),
the handler and the transaction of the service, with each answer it can get.
The clock of Redis is `time`, the server's is `offset` ahead of it; both run at
one rate, the server's may be stepped. Amounts has the two computations of a lock
amount in integers of a given width.

**Process, Server** - `run()` of main: the retry loops, the group of five
goroutines, the signal, the drain with its deadline, the deferred closes. Server
EXTENDS both Process and Gateway: requests are accepted while the server listens,
use Redis until `g.Wait` returns and the database until the pool is closed;
WebSockets meet the hub on unbuffered channels and are not waited for by Shutdown.
A worker that panicked with its mutex held (`poisoned`) never returns.

Operators preceded by a comment that begins with *Mutant* are not part of a
model. Each is a plausible bug of the operator that follows it; replacing the
operator by its mutant must make TLC report the property `PROJECT.json` pairs
them with.

## 3. The runs

| Run | Question | Answer |
|---|---|---|
| `limitbook` | Does matchInternal, trade by trade, reach the price-time outcome stated in closed form? | yes (`ImplementsPriceTime`) |
| `orderbook` | Are lists, indexes, volumes, id map and pool consistent after every iteration, and do they implement LimitBook? Does PlaceOrder return? | yes |
| `engine` | Do the locked funds cover every settlement, is money conserved, with rounding? | yes |
| `outbox` | Does every committed command reach the worker under faults, is no wakeup lost (a token sent before the commit, as CancelOrder's, is left to the relay's timeout), and is causal order kept as long as no publish has failed? Is nothing published twice while nothing fails? | yes |
| `exchange` | Do memory and database agree after each message, each quiet restart, overtaking and repeated cancellations, as long as no order or deposit is handled twice and no other fault has made `clean` false; does the database conserve money under all faults, repeated delivery included? | yes |
| `feed` | Do changes reach every screen and the cache, are clients let go and channels closed once? | yes |
| `gateway` | Is the quota kept, is nobody refused because of others, do answers tell what is in the database, are lock amounts exact? | yes |
| `server` | Does a signal end the process at any moment, unless a panic has left the worker blocked on its mutex, and gracefully unless the deadline forces it? | yes |
| `engine_stranded` | Is everything an order locked released when it is gone? | no |
| `exchange_panic` | Are settlement panics impossible after an ungraceful shutdown? | no |
| `exchange_recover` | Do the rows describe the book a restart must restore? | no |
| `exchange_deposit` | Is a deposit made during start counted once? | no |

### Bounds

- `limitbook`: 4 orders, 2 users, 2 prices, quantities 1 and 2. A taker can meet
  two makers of a level with an own order between them and a second level; three
  makers of a level, or a level emptied and used again, are reached too.
- `orderbook`: 3 orders, 3 addresses, 3 prices. The index has a first, middle and
  last place to insert at and remove from; a list has a head, middle and tail; a
  node is pooled and used again. Longer lists add no new pointer case.
- `engine`: `Decimals = 3`, prices 2 and 3, quantities 1 and 3: notionals that are
  exact, rounded, and rounded to nothing; one order filled by two others, so that
  several settlements are pending. `MaxSupply` bounds deposits per asset.
- `exchange`: 3 orders drawn from `Small` (fills in part, price improvement, two
  bids of one user; `Decimals = 2`, so that payments are rounded and a lock amount is
  nothing), a deposit, at most `MaxBacklog = 3` commands behind the committed
  offset and `MaxFaults = 1`. Three commands are enough for one to be overtaken while the
  one before is in hand, and for one in hand, one repeated and one still to come. Each
  owner asks once for a cancellation; the second one comes from `Redeliver` or `Rejoin`.
  One fault is enough for a repetition after which the properties still speak; any
  number of faults is covered by the proofs. The violation runs have a backlog of 2
  and as many orders as their counterexample needs.
- `outbox`: 3 commands, the second a cancellation, fetches of `Limit = 2` (so that
  a batch can be full and leave something behind), one fault of any kind.
- `feed`: one client, two changes, channels of capacity 1, one fault. Two changes
  are enough for a change during a refresh, for conflation, and for a trade that
  fills the channel before a snapshot. Clients share nothing but Run, whose sends
  never block, so that no client can hold up another; the invariants of the
  proofs are for any number of them.

- `gateway`: 3 requests of 2 users, `Window = 3` ticks, `Limit = 1`, calls to Redis of
  up to `MaxDelay = 2` ticks, 7 ticks in all and 2 faults. A call can reach into the
  next window, a key can expire and be created again, one user can be refused while
  the other is not, and a script can be run twice. Integers have 8 bits: one of the
  orders overflows as a product but not as an amount, one is above `MaxQuantity`.
- `server`: 2 requests, 1 socket, two attempts to connect; the signal, a failing
  listener, a poisoned worker and one fault at any moment of the requests. The clocks
  stand still: what they do is the subject of `gateway`. A second socket would find the
  hub as the first does.

Deadlock checking is on for `outbox`, whose relay never rests, and off elsewhere:
ids, deposits, time and faults are bounded, so a model comes to rest when they are
used up. Symmetry over users and ids is used only where the run checks safety
without liveness (`limitbook`, `engine`, `engine_stranded`): no definition tells the
permuted values apart. Exchange orders its ids by `created_at`.

### Fairness

- OrderBook: `WF(RunPlace)`. A call is sequential code; what may be interleaved
  is only what comes before and after it.
- Outbox: weak fairness of the relay's and of the worker's next step. Both loops
  run as goroutines until the process ends, the relay wakes at least every
  50 ms, and nothing in them blocks for ever except a worker that panicked with
  its mutex held, which is the subject of Engine and Exchange. Handlers and
  the commit of offsets need no fairness. Faults are bounded: without that
  nothing would have to arrive.
- Feed: weak fairness of the worker's report, of snapshotLoop, of the
  subscription, of Run and of each pump, for the same reason. Writes, pings and
  reads carry deadlines, so that a pump always gets on or stops. A peer never has
  to do anything. The publication of trades needs no fairness.

- Server: weak fairness of `run()` itself and of every goroutine of the group, of
  Shutdown (its deadline expires) and of the end of a transaction (`Commit` or
  `PlaceFails`: queries of an ended connection fail); strong fairness of
  `WorkerStops`, because FetchMessage may still return a message after the context
  is cancelled: Go's select picks among the ready cases at random, so the end is
  chosen if it is offered again and again. Clients and the rest of a handler need
  no fairness: Shutdown waits for them no longer than its deadline.

## 4. What is proved

TLAPS proves the following for all values of the constants, under the
assumptions named in the modules: finitely many users and order ids, positive
integer prices and quantities, any positive `Decimals` (the code's is 10^8);
positive buffers; natural bounds. Every safety property that a passing run checks
is stated by one of the theorems.

**SumTheorems** gives sums over finite functions their rules: change at a point, a
member or a part is at most the whole, sum of two functions, sum by groups, a common
factor. A sum is
the cardinality of a set of units (`Units`), so that the library's facts about
bijections do the work of an induction. `SumDiv`, that quotients rounded one by one come
to no more than the sum rounded, is what both engines need of rounding.

**LimitBookProofs** proves `BookTypeOK` of LimitBook and that it implements PriceTime
(`ImplementsPriceTime`): the loop of matchInternal, trade by trade, reaches the
outcome Matching gives in closed form. The invariant `BookInv` ties arrival numbers
to the ids used: they are distinct, and the taker's is the greatest, so that
every queue is strictly ordered. The core is `TradeKeepsOutcome`: when the first
order the taker reaches trades the lesser of both quantities, everybody behind it is
still reached, in the same order, and gets what it would have got; hence
`Outcome` of what is left is `Outcome` of what was. A trade is then a stutter of
PriceTime, and so is the end of the placement, because an order that reaches nobody
any more rests with what it has (`NobodyLeft`: behind a level on which only one's
own orders are left nothing is reached).

**OrderBookProofs** proves all safety properties of OrderBook and that it implements
LimitBook (`ImplementsLimitBook`; with the theorem above, PriceTime too). The
properties are not inductive one by one: that removing a node leaves a list needs
that its neighbours are in the same level, that a volume stays right needs that no
node is on two levels, that the best price is found needs a sorted index. The
inductive invariant is

    Shape            orders, levels and indexes fit: every level is the linked list of
                     the orders of its side and price in the order of arrival, its volume
                     their sum, and the index lists the prices of the levels, best first
    TakerInv         the order being placed came last and is on no list
    WalkInv          the level being walked is the best one, and whoever of it can still
                     trade is at the cursor or behind it
    OthersInv        a node off the book has no pointer left
    PoolIsDisjoint   no pooled node is on the book or being placed

Lists are described by arrival numbers (`List`), so that appending and removing a
node are lemmas about a set of nodes and two pointers (`First`, `Last`). That a
non-empty queue has a first member is well-foundedness, not induction. Each
iteration of the loops then is `MatchMaker`, `EndPlace` or a stutter of LimitBook:
the maker the cursor has reached is the one LimitBook names (`IsNextMaker`), and
when the loop ends, `Eligible` is empty.

**EngineProofs** proves `NoPanic`, `ReservesAreSound`, `MoneyIsConserved` and
`TypeOK` of Engine. It begins with rounding: `DueCoversFill` says that what a fill costs
at a price no worse than the limit, plus what the rest may still cost at the limit,
is never more than what the whole may cost at the limit. `NoPanic` is not inductive: that the next settlement is covered
depends on what earlier settlements left. `ReservesAreSound` therefore splits the
locked funds by order:

    Exposure(o) + Pending(o) <= reserve[o]     for every order o
    locked = sum of the reserves

`Exposure` is what the open quantity may cost at the limit, `Pending` what the
matched but unsettled trades will take. A trade moves an amount from Exposure to
Pending, where `DueCoversFill` is needed; a settlement takes the same amount
from Pending and from the reserve; a cancellation takes away the Exposure. The
pending amount is part of the reserve, which is part of what is locked, so the
assertion in SettleTrade holds. Its last part, that every payer has an entry, covers
payments rounded to nothing, for which the amounts say nothing about the entry.

**ExchangeProofs** proves `DatabaseConserves` and `TypeOK` of Exchange, whatever
crashes, is lost, overtakes or is delivered again, and whatever the engine gets wrong
after a restart or a repetition:

    what was ever sent is a command about an existing row, or a deposit (`SentInv`)
    rows, topic, memory and the transaction in hand are well-formed
    sum of available and locked, per asset  =  what was deposited

The total is kept because every trade is two legs, each paid by one party and received
by the other: grouped by payer or by receiver their amounts have the same sum
(`SumPartition`), so the credits of a batch are its debits (`LegsBalance`); the
CONSTRAINT refuses the batch as a whole when a balance would go below zero
(`BatchKeeps`). That the taker rests with a quantity that is not negative needs
`NeverOverfilled`: each unit an order consumes is given a place of its own in its
quantity, ordered by price and time, hence there are no more units than places.

The other properties of Exchange (`CacheMatchesDatabase`, `MemoryIsAccepted`,
`StatusesTellTheBook`, `TerminalIsFinal`) say that memory and database agree as long as
`clean` holds. None is inductive: between two messages they agree because of what
was true in the middle of one, when memory is ahead by the transaction in hand. The
invariant `AgreeInv` says how far ahead, and what the rest depends on:

    RowsInv      rows are numbered; the transaction in hand is that of the first
                 message (also while not clean)
    PlacedOnce   an order is on the topic at most once (from here on: while clean)
    WaitingInv   an order not yet handled is NEW, in no trade and not on the book
    RestingInv   an order on the book has the data of its row and is found by its id;
                 what a rebuild restored is whole and active
    StatusInv    a row will say what is on the book once the transaction in hand is
                 written (Told)
    TxInv        the transaction in hand can be written: its rows are not final, its
                 trades are new, the database has what it locks
    FundsInv     locked, and available with the deposits under way, are what the database
                 will have; the locked funds cover what the orders on the book may
                 still cost, or, before hydrate, what the active rows may

WaitingInv is why no idempotency key exists already and no status is final when
a placement is written; RestingInv why a maker is a row, and why a restart at a quiet
moment finds the same book; the last part of FundsInv why no settlement fails and hydrate has
nothing to raise (`HydratedIsLocked`: no single order costs more than all do). That it is
kept is `PlacementCovered`: what the book may cost after a placement, plus what
each user pays in it, is at most what the book might cost before plus the lock amount of the
order, whatever is rounded. The payments are mapped one to one to the orders they are
for (`LegsAreOfFills`); those of a maker are covered by what is taken of its own cost
(`OweSplit`), those of the taker, made at prices no worse than its limit, by the lock
amount (`DueOfSum`). `Persist` is the longest step: each statement of the transaction
is shown to find its rows and funds and leave what memory has (`TransactionWritten`).

That `PlacedOnce` is kept is immediate from the guard on `clean`, and is all that is
assumed of delivery. What is not assumed is proved: a cancellation that is delivered
again (`RedeliverAgrees`, `RejoinAgrees`) changes neither what waits nor what deposits are under
way, wherever its first delivery has got to, and a command that is overtaken is
still waiting, or under way, afterwards (`CameMoved`, `OvertakeAgrees`), so that the order of
messages behind the one in hand does not matter to any part of the invariant.

**OutboxProofs** proves every safety property of Outbox, with any number of faults.
`ProcessedArePublished`, `PublishedAreCommitted`, `CommittedAreHandled` and `TypeOK`
follow from an invariant that adds what the relay holds in its hands (its batch has
committed, what it counts as sent is published) and what the worker has passed (it is
never behind the committed offset, and everything before its position has been
handled). `CausalOrder` needs that what precedes a fetched event is on the topic or
earlier in the same batch, which rests on the order of the fetch: the first event
not fetched exists because every set of numbers has a least one (well-foundedness,
no induction). `NoFaultNoDuplicate` and `NoWakeupIsLost` have invariants of their own
over the stages of the relay. `SafelyDelivers`: every behaviour of Outbox is one of
Delivery without its fairness.

**FeedProofs** proves all safety properties of Feed, the action property among them. `ChannelsCloseOnce` needs that a client that has not been
registered has a channel never closed; `RestIsCurrent` a case for each stage of
the refresh; `TradesAreWritten` that everything on the way (goroutines, the
subscription, the hub's and the clients' channels) carries only trades of the
database. `SnapshotsAdvance` follows from `AdvanceInv`: along the way of a snapshot, from
the loop over the subscription and the hub's `latestSnapshot` to a client's channel and
its screen, nothing is older than what is ahead of it.

**ServerProofs** has the proofs about Gateway and about Server, which extends it. The four
properties of Gateway are proved. `QuotaHolds` is the hard one:
its invariant `QuotaInv` says that no window lies in the future, that the key of a
window that lasts is still there once a request was counted in it (an expiry is
never earlier than the end of the window of the script that set it, because a call is
shorter than a window), and that its counter is at least the number of requests
counted. The requests counted are then no more than a counter that let them through.
`RefusedInv` bounds a counter from above by the runs of the script, whatever is lost;
`AnswersInv` ties every stage of a request to what its transaction has written.
`LocksAreExact` holds for any width, scale and largest quantity.

Of Server, `StopIsGraceful` and `TypeOK` are proved: `StopInv` relates the stages of
`run()` and of the goroutine that calls Shutdown to the requests that may still be
under way.

Only model-checked: all liveness (`PlaceOrderReturns`, `ImplementsDelivery` as far as
it is liveness, `DeadClientsLeave`, `ChangesAreShown`, `StopsAfterSignal`), which the
prover does not reach.

## 5. Findings

1. *Funds stay locked* (`engine_stranded`). SettleTrade takes the executed amount
   out of the buyer's locked funds; the rest of what was locked at the limit price
   (after a fill at a better price, or after rounding) is released by nobody.
   ADR 0004, line 25, says the cache matches the orders on the book.
2. *A settlement can still panic after a restart* (`exchange_panic`). The rebuild
   restores partly filled takers with their full quantity, and hydrate raises the
   locked funds to the largest order of a user, not to the sum. ADR 0004, line 25,
   says this panic is eliminated "even after an ungraceful shutdown". The panic
   leaves the mutex locked and the worker stuck.
3. *A restart changes the book* (`exchange_recover`). No fill sets the Status of a
   maker's node, so a partly filled maker is written back as NEW and not restored;
   `remaining_quantity` is never updated. ADR 0001, line 15, asks for a book that
   is "consistent across restarts".
4. *A deposit during start counts twice in memory* (`exchange_deposit`). The API
   serves before hydrate has read the balances.

Four more observations have no run:

- mapStatusToDB has no case for REJECTED and writes NEW (`postgres_order_repository.go`,
  line 84; `worker.go`, line 200): a rejected order looks like one the worker has not
  seen. `StatusInDB` models it; the properties of Exchange hold with it.
- hydrate computes the lock amount of a bid in int64 (`worker.go`, line 462). Price and
  quantity are both scaled by 10^8, so the product overflows from about 0.01 coin at
  100,000 dollars on; the comparison with the locked funds then decides by a wrong
  number. `LocksAreExact` says where the two computations agree.
- The repository's `README.md`, line 204, speaks of "exactly-once" style event
  delivery where the code delivers at least once, and handleMessages (`worker.go`, lines
  412 to 435) does not ask whether it has seen a message. The relay publishes a command
  again when marking its batch fails (`outbox_relay.go`, line 73) or when an error hid that
  a publish succeeded, and the consumer group redelivers what was not committed:
  `Redeliver` and `Rejoin` of Exchange for the worker that is running, `Crash` for the next one.
  A repeated deposit is credited to the cache twice. A repeated order locks funds again and
  is matched again; it is entered under the same ID, which leaves its first node on the book
  where no cancellation finds it; its row is written PLACED although it may have been FILLED;
  a second fill of the same size against the same order is refused by the unique key of trades,
  after memory has settled it. A repeated cancellation does no harm. The database keeps
  its totals throughout.
- Trades are broadcast by goroutines of their own, so that two batches may reach a
  screen in either order; `Deposit` of the API does not check that the amount is
  positive, which Gateway and Exchange assume.

## 6. What is not modelled, and why

- Overflow outside of Amounts: Engine and Exchange compute with unbounded integers.
- A trader without a row of balances in Exchange: rows are created by the first deposit
  or trade and never deleted, and a missing one differs from a row of zeros only in
  amounts that are rounded to nothing. Engine has the missing entries of the cache.
- An invalid `side`: the JSON decoder refuses it with the 400 that `Valid` gives.
- Register and Login: a row of users, written or read by one statement. (A duplicate
  e-mail is answered with 500: ErrUserAlreadyExists is never returned.)
- CancelOrder's answers, GetOrderBook and GetBalances in Gateway: the first is
  `RequestCancel` of Exchange, the others read. /ws asks for a token but is not
  rate limited, and is `Upgrade` of Server.
- That generated ids are distinct is assumed; which of them come from the pool no code
  that reads them can tell.
- The goroutines outside of the group (snapshotLoop, the publication of trades) and the
  Kafka clients, which nobody closes, at the end of the process.
- What a failed settlement leaves in memory after the panic: the mutex stays
  locked and nothing reads it again. That the snapshot loop blocks as well then
  is not in Feed.
- Equal `created_at` values: events and restored orders are taken to have distinct
  times.
- Kafka loses nothing it acknowledged, and the topic has one partition. In Exchange a
  rejoin that comes while a message is in hand is one right after it, which the
  worker cannot tell apart: it fetches between messages only. Nothing is sent again by
  a relay of an earlier process after a crash while the new process is still starting: that is
  `Redeliver` once it serves.
- A Redis outage is a lost call; the TTL is an expiry at any time.
- Metrics, the frontend and the load test keep no state that orders or money depend on.
  Parsing, formatting, CORS headers and logging.
- The Status of a node is in Exchange only; Reset, Invalidate, CreateTrade,
  UpdateOrderQuantity, CreateLedgerEntries and the ledger's LockFunds and UnlockFunds
  have no caller.

## 7. Plan

Done: the modules above, in the order LimitBook, OrderBook, Engine, Outbox,
Exchange, Feed, Gateway, Process and Server, which is the order of what matters most.
Next:

1. Engine from a restored book: the conditions under which hydrate would make
   `NoPanic` hold after a restart that was not clean, too.
