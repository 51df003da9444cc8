------------------------------ MODULE Engine ------------------------------
(***************************************************************************)
(* The matching engine in memory: the order book of LimitBook and the      *)
(* BalanceCache, driven by the order worker, which handles one message at  *)
(* a time.  Orders lock funds when they are placed, trades settle out of   *)
(* the locked funds once matching is over, cancellations release them.     *)
(* The engine starts from an empty book (a database without active orders) *)
(* and from any balances the database holds.                               *)
(* Code: internal/core/services/worker.go (handlePlaceOrder,               *)
(* handleCancelOrder, handleMessages), internal/core/domain/               *)
(* balance_cache.go.                                                       *)
(***************************************************************************)
EXTENDS LimitBook

CONSTANTS
    Amounts,    \* the amounts traders deposit
    MaxSupply   \* bound of the model: what may be deposited of one asset

ASSUME SupplyAssumption == Amounts \subseteq Nat /\ MaxSupply \in Nat

VARIABLES
    known,      \* the entries of the BalanceCache: <<user, asset>> pairs
    available,  \* Balance.Available, 0 where there is no entry
    locked,     \* Balance.Locked, 0 where there is no entry
    settled,    \* how many of the trades of the last order are settled
    panicked,   \* the worker panicked with its mutex held
    reserve,    \* history: what each order still holds of its owner's locked funds
    deposited   \* history: everything ever deposited, per asset

cacheVars == <<known, available, locked>>
vars == <<bookVars, cacheVars, settled, panicked, reserve, deposited>>

\* The worker is free for the next message.
Idle == taker = NoOrder /\ settled = Len(trades) /\ ~panicked

-----------------------------------------------------------------------------
(* The trades the worker settles                                           *)

Buyer(t) == IF t.side = "BUY" THEN t.takerUser ELSE t.makerUser
Seller(t) == IF t.side = "BUY" THEN t.makerUser ELSE t.takerUser
BuyOrder(t) == IF t.side = "BUY" THEN t.takerId ELSE t.makerId
SellOrder(t) == IF t.side = "BUY" THEN t.makerId ELSE t.takerId

\* Mutant of Quote: the payment is rounded up.
QuoteRoundedUp(t) == (t.price * t.qty + Decimals - 1) \div Decimals

\* What the buyer and the seller pay, each in the asset that was locked.
Quote(t) == Notional(t.price, t.qty)

\* The assertion of SettleTrade.
CanSettle(t) ==
    /\ <<Buyer(t), "USD">> \in known /\ locked[Buyer(t)]["USD"] >= Quote(t)
    /\ <<Seller(t), "BTC">> \in known /\ locked[Seller(t)]["BTC"] >= t.qty

-----------------------------------------------------------------------------

\* hydrate with no active orders: InitBalance for every row of the table.
Init ==
    /\ EmptyBook /\ open = TRUE
    /\ known \in SUBSET (Users \X Assets)
    /\ available \in [Users -> [Assets -> Amounts \cup {0}]]
    /\ \A u \in Users, a \in Assets : <<u, a>> \notin known => available[u][a] = 0
    /\ locked = [u \in Users |-> [a \in Assets |-> 0]]
    /\ settled = 0
    /\ panicked = FALSE
    /\ reserve = [u \in Users |-> [a \in Assets |-> [o \in OrderIds |-> 0]]]
    /\ deposited = [a \in Assets |-> Sum([u \in Users |-> available[u][a]])]

\* A DepositCreated message.
Deposit(u, a, amount) ==
    /\ Idle
    /\ deposited[a] + amount <= MaxSupply
    /\ known' = known \cup {<<u, a>>}
    /\ available' = [available EXCEPT ![u][a] = @ + amount]
    /\ deposited' = [deposited EXCEPT ![a] = @ + amount]
    /\ UNCHANGED <<bookVars, locked, settled, panicked, reserve>>

\* Mutant: LockFunds does not check the funds.
CanLockOnCredit(u, a, amount) == <<u, a>> \in known

\* LockFunds succeeds.
CanLock(u, a, amount) == <<u, a>> \in known /\ available[u][a] >= amount

\* An OrderPlaced message whose owner can pay: lock the worst case, then
\* enter PlaceOrder.
AcceptOrder(id, u, s, p, q) ==
    LET a == LockAsset(s)
        amount == Due(s, p, q)
    IN  /\ Idle
        /\ CanLock(u, a, amount)
        /\ available' = [available EXCEPT ![u][a] = @ - amount]
        /\ locked' = [locked EXCEPT ![u][a] = @ + amount]
        /\ reserve' = [reserve EXCEPT ![u][a][id] = @ + amount]
        /\ BeginPlace(id, u, s, p, q)
        /\ settled' = 0
        /\ UNCHANGED <<known, panicked, deposited>>

\* An OrderPlaced message whose owner cannot pay: the order is gone.
RejectOrder(id, u, s, p, q) ==
    /\ Idle
    /\ id \notin used
    /\ ~CanLock(u, LockAsset(s), Due(s, p, q))
    /\ used' = used \cup {id}
    /\ UNCHANGED <<book, taker, trades, open, cacheVars, settled, panicked, reserve, deposited>>

\* PlaceOrder of the book.
Match ==
    /\ (\E m \in DOMAIN book : MatchMaker(m)) \/ EndPlace
    /\ UNCHANGED <<cacheVars, settled, panicked, reserve, deposited>>

\* Mutant of Settle: the seller is paid and keeps what was locked.
SettleKeepsSellerLocked ==
    /\ taker = NoOrder /\ settled < Len(trades) /\ ~panicked
    /\ LET t == trades[settled + 1]
           b == Buyer(t)
           s == Seller(t)
       IN  /\ CanSettle(t)
           /\ locked' = [locked EXCEPT ![b]["USD"] = @ - Quote(t)]
           /\ available' = [available EXCEPT ![b]["BTC"] = @ + t.qty, ![s]["USD"] = @ + Quote(t)]
           /\ known' = known \cup {<<b, "BTC">>, <<s, "USD">>}
           /\ reserve' = [reserve EXCEPT ![b]["USD"][BuyOrder(t)] = @ - Quote(t),
                                         ![s]["BTC"][SellOrder(t)] = @ - t.qty]
    /\ settled' = settled + 1
    /\ UNCHANGED <<bookVars, panicked, deposited>>

\* SettleTrade of the next trade.  Locked funds leave one side and arrive as
\* available funds at the other; Deposit creates the missing entries.  If the
\* funds are not there the worker panics ("memory is inconsistent") with w.mu
\* locked: handleMessages recovers, and the next message blocks for good.
Settle ==
    /\ taker = NoOrder /\ settled < Len(trades) /\ ~panicked
    /\ LET t == trades[settled + 1]
           b == Buyer(t)
           s == Seller(t)
       IN  IF CanSettle(t)
           THEN /\ locked' = [locked EXCEPT ![b]["USD"] = @ - Quote(t), ![s]["BTC"] = @ - t.qty]
                /\ available' = [available EXCEPT ![b]["BTC"] = @ + t.qty, ![s]["USD"] = @ + Quote(t)]
                /\ known' = known \cup {<<b, "BTC">>, <<s, "USD">>}
                /\ reserve' = [reserve EXCEPT ![b]["USD"][BuyOrder(t)] = @ - Quote(t),
                                              ![s]["BTC"][SellOrder(t)] = @ - t.qty]
                /\ settled' = settled + 1
                /\ UNCHANGED panicked
           ELSE panicked' = TRUE /\ UNCHANGED <<cacheVars, settled, reserve>>
    /\ UNCHANGED <<bookVars, deposited>>

\* Mutant of Cancel: the funds of the whole order are released, not of its
\* open quantity.
CancelReleasesAll(id) ==
    LET o == book[id]
        a == LockAsset(o.side)
        amount == Due(o.side, o.price, o.qty)
    IN  /\ Idle
        /\ CancelOrder(id)
        /\ locked[o.user][a] >= amount
        /\ locked' = [locked EXCEPT ![o.user][a] = @ - amount]
        /\ available' = [available EXCEPT ![o.user][a] = @ + amount]
        /\ reserve' = [reserve EXCEPT ![o.user][a][id] = @ - amount]
        /\ UNCHANGED <<known, settled, panicked, deposited>>

\* An OrderCancelRequested message for a resting order: it leaves the book,
\* then UnlockFunds releases what its open quantity is worth, if that much
\* is locked; if not, the handler returns with the order gone.
Cancel(id) ==
    LET o == book[id]
        a == LockAsset(o.side)
        amount == Due(o.side, o.price, o.rem)
    IN  /\ Idle
        /\ CancelOrder(id)
        /\ IF <<o.user, a>> \in known /\ locked[o.user][a] >= amount
           THEN /\ locked' = [locked EXCEPT ![o.user][a] = @ - amount]
                /\ available' = [available EXCEPT ![o.user][a] = @ + amount]
                /\ reserve' = [reserve EXCEPT ![o.user][a][id] = @ - amount]
           ELSE UNCHANGED <<locked, available, reserve>>
        /\ UNCHANGED <<known, settled, panicked, deposited>>

Next ==
    \/ \E u \in Users, a \in Assets, amount \in Amounts : Deposit(u, a, amount)
    \/ \E id \in OrderIds, u \in Users, s \in Sides, p \in Prices, q \in Quantities :
          AcceptOrder(id, u, s, p, q) \/ RejectOrder(id, u, s, p, q)
    \/ Match
    \/ Settle
    \/ \E id \in DOMAIN book : Cancel(id)

Spec == Init /\ [][Next]_vars

-----------------------------------------------------------------------------
(* Properties *)

TypeOK ==
    /\ BookTypeOK
    /\ known \subseteq Users \X Assets
    /\ available \in [Users -> [Assets -> Nat]]
    /\ locked \in [Users -> [Assets -> Nat]]
    /\ settled \in 0 .. Len(trades)
    /\ panicked \in BOOLEAN
    /\ reserve \in [Users -> [Assets -> [OrderIds -> Nat]]]
    /\ deposited \in [Assets -> Nat]

\* The worker never panics in the middle of a settlement (worker.go:236):
\* whatever was traded, the locked funds of both parties cover it, although
\* all trades of an order are matched before the first of them is settled.
NoPanic == ~panicked

\* What is locked of a user's asset is what the user's orders hold of it.
LockedIsReserved ==
    \A u \in Users, a \in Assets : locked[u][a] = Sum(reserve[u][a])

\* No settlement, deposit or cancellation creates or destroys money.
MoneyIsConserved ==
    \A a \in Assets :
        Sum([u \in Users |-> available[u][a] + locked[u][a]]) = deposited[a]

\* What the trade t takes from order o of user u in asset a.
Share(t, u, a, o) ==
    IF a = "USD" /\ u = Buyer(t) /\ o = BuyOrder(t) THEN Quote(t)
    ELSE IF a = "BTC" /\ u = Seller(t) /\ o = SellOrder(t) THEN t.qty
    ELSE 0

\* What the trades of ts after the first k will take from it.
PendingOf(ts, k, u, a, o) ==
    Sum([i \in 1 .. Len(ts) |-> IF i <= k THEN 0 ELSE Share(ts[i], u, a, o)])

\* What the open quantity of o may still cost u in a, at its limit price.
DueOf(x, u, a) ==
    IF x.user = u /\ LockAsset(x.side) = a THEN Due(x.side, x.price, x.rem) ELSE 0

ExposureOf(b, t, u, a, o) ==
    IF o \in DOMAIN b THEN DueOf(b[o], u, a)
    ELSE IF t # NoOrder /\ t.id = o THEN DueOf(t, u, a)
    ELSE 0

Exposure(u, a, o) == ExposureOf(book, taker, u, a, o)
Pending(u, a, o) == PendingOf(trades, settled, u, a, o)

\* Every order holds enough for its unsettled trades and, at its own limit
\* price, for all of its open quantity, however the fills were rounded.
ReservesCover ==
    \A u \in Users, a \in Assets, o \in OrderIds :
        Exposure(u, a, o) + Pending(u, a, o) <= reserve[u][a][o]

\* Whoever may have to pay has the account SettleTrade and UnlockFunds look
\* up, even where the amount was rounded down to nothing.
PayersAreKnown ==
    /\ \A id \in DOMAIN book : <<book[id].user, LockAsset(book[id].side)>> \in known
    /\ taker # NoOrder => <<taker.user, LockAsset(taker.side)>> \in known
    /\ \A i \in settled + 1 .. Len(trades) :
         <<Buyer(trades[i]), "USD">> \in known /\ <<Seller(trades[i]), "BTC">> \in known

\* The reserves are sound: each order's covers what it may still cost, they
\* add up to what is locked, and who has to pay has an account.  This is why
\* a settlement never fails.
ReservesAreSound == ReservesCover /\ LockedIsReserved /\ PayersAreKnown

\* The memory cache "is guaranteed to match the actual order state on the
\* book" (docs/adr/0004, line 25): between messages, a user without an open
\* order has nothing locked.
FundsAreReleased ==
    Idle => \A u \in Users :
              (\A id \in DOMAIN book : book[id].user # u)
                  => \A a \in Assets : locked[u][a] = 0
=============================================================================
