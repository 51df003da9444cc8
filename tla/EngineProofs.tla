--------------------------- MODULE EngineProofs ---------------------------
(***************************************************************************)
(* The engine never panics in a settlement, for every set of traders and   *)
(* orders, all prices, quantities and scales.                              *)
(***************************************************************************)
EXTENDS Engine, SumTheorems, TLAPS

-----------------------------------------------------------------------------
(* The fixed-point amounts of Market: rounding down never makes the parts *)
(* of an order cost more than the whole.                                   *)

\* An amount is a natural number.
LEMMA NotionalType ==
    ASSUME NEW p \in Nat, NEW q \in Nat
    PROVE  Notional(p, q) \in Nat
<1>1. p * q \in Nat
  BY Z3
<1>2. QED
  BY <1>1, DivBound, PositiveAssumption DEF Notional

\* Two fills at a price cost no more than one fill of their total.
LEMMA NotionalSplit ==
    ASSUME NEW p \in Nat, NEW m \in Nat, NEW n \in Nat
    PROVE  Notional(p, m) + Notional(p, n) <= Notional(p, m + n)
<1>1. p * m \in Nat /\ p * n \in Nat /\ p * (m + n) = p * m + p * n
  BY Z3
<1> QED
  BY <1>1, DivAdd, PositiveAssumption DEF Notional

\* A lower price costs no more.
LEMMA NotionalMonotone ==
    ASSUME NEW p \in Nat, NEW r \in Nat, r <= p, NEW q \in Nat
    PROVE  Notional(r, q) <= Notional(p, q)
<1>1. r * q \in Nat /\ p * q \in Nat /\ r * q <= p * q
  BY Z3
<1> QED
  BY <1>1, DivMonotone, PositiveAssumption DEF Notional

\* What an order owes is a natural number.
LEMMA DueType ==
    ASSUME NEW s \in Sides, NEW p \in Nat, NEW q \in Nat
    PROVE  Due(s, p, q) \in Nat
BY NotionalType DEF Due

\* A fill of n at a price r that the limit p crosses, and the rest of the
\* order at its limit, cost no more than the whole order at its limit.
THEOREM DueCoversFill ==
    ASSUME NEW s \in Sides, NEW p \in Nat, NEW r \in Nat, Crosses(s, p, r),
           NEW m \in Nat, NEW n \in Nat, n <= m
    PROVE  Due(s, r, n) + Due(s, p, m - n) <= Due(s, p, m)
<1>1. CASE s = "BUY"
  <2>1. r <= p
    BY <1>1 DEF Crosses
  <2>2. m - n \in Nat /\ n + (m - n) = m
    OBVIOUS
  <2>3. Notional(r, n) <= Notional(p, n)
    BY <2>1, NotionalMonotone
  <2>4. Notional(p, n) + Notional(p, m - n) <= Notional(p, m)
    BY <2>2, NotionalSplit
  <2>5. /\ Notional(r, n) \in Nat /\ Notional(p, n) \in Nat
        /\ Notional(p, m - n) \in Nat /\ Notional(p, m) \in Nat
    BY <2>2, NotionalType
  <2>6. QED
    BY <1>1, <2>3, <2>4, <2>5 DEF Due
<1>2. CASE s = "SELL"
  BY <1>2 DEF Due
<1>3. QED
  BY <1>1, <1>2 DEF Sides

-----------------------------------------------------------------------------
(* What is pending, and what a step of the worker changes about it.        *)

\* A trade takes a natural amount from an order.
LEMMA ShareType ==
    ASSUME NEW t \in Trade, NEW u, NEW a, NEW o
    PROVE  /\ Quote(t) \in Nat /\ t.qty \in Nat
           /\ Share(t, u, a, o) \in Nat
<1>1. t.price \in Nat /\ t.qty \in Nat
  BY PositiveAssumption DEF Trade
<1>2. Quote(t) \in Nat
  BY <1>1, NotionalType DEF Quote
<1>3. QED
  BY <1>1, <1>2 DEF Share

\* The shares that PendingOf adds up.
Shares(ts, k, u, a, o) ==
    [i \in 1 .. Len(ts) |-> IF i <= k THEN 0 ELSE Share(ts[i], u, a, o)]

\* Pending amounts are natural numbers.
LEMMA SharesType ==
    ASSUME NEW ts \in Seq(Trade), NEW k \in Nat, NEW u, NEW a, NEW o
    PROVE  /\ IsFiniteSet(1 .. Len(ts))
           /\ Shares(ts, k, u, a, o) \in [1 .. Len(ts) -> Nat]
           /\ PendingOf(ts, k, u, a, o) = Sum(Shares(ts, k, u, a, o))
           /\ PendingOf(ts, k, u, a, o) \in Nat
<1>1. IsFiniteSet(1 .. Len(ts))
  BY FS_Interval
<1>2. \A i \in 1 .. Len(ts) : ts[i] \in Trade
  OBVIOUS
<1>3. Shares(ts, k, u, a, o) \in [1 .. Len(ts) -> Nat]
  BY <1>2, ShareType DEF Shares
<1>4. PendingOf(ts, k, u, a, o) = Sum(Shares(ts, k, u, a, o))
  BY DEF PendingOf, Shares
<1>5. QED
  BY <1>1, <1>3, <1>4, SumType

\* Nothing is pending once every trade is settled.
LEMMA PendingNone ==
    ASSUME NEW ts \in Seq(Trade), NEW u, NEW a, NEW o
    PROVE  PendingOf(ts, Len(ts), u, a, o) = 0
<1>1. Shares(ts, Len(ts), u, a, o) \in [1 .. Len(ts) -> {0}]
  BY DEF Shares
<1>2. QED
  BY <1>1, SumZero, SharesType

\* A new trade is pending.
LEMMA PendingAppend ==
    ASSUME NEW ts \in Seq(Trade), NEW t \in Trade, NEW k \in 0 .. Len(ts),
           NEW u, NEW a, NEW o
    PROVE  PendingOf(Append(ts, t), k, u, a, o)
             = PendingOf(ts, k, u, a, o) + Share(t, u, a, o)
<1> DEFINE n == Len(ts)
           ss == Append(ts, t)
           f == Shares(ts, k, u, a, o)
           g == Shares(ss, k, u, a, o)
<1>1. ss \in Seq(Trade) /\ Len(ss) = n + 1 /\ ss[n + 1] = t /\ n \in Nat
  OBVIOUS
<1>2. \A i \in 1 .. n : ss[i] = ts[i]
  OBVIOUS
<1> HIDE DEF ss
<1>3. k \in Nat
  BY <1>1
<1>4. f \in [1 .. n -> Nat] /\ IsFiniteSet(1 .. n) /\ PendingOf(ts, k, u, a, o) = Sum(f)
  BY <1>3, SharesType
<1>5. g \in [1 .. Len(ss) -> Nat] /\ PendingOf(ss, k, u, a, o) = Sum(g)
  BY <1>1, <1>3, SharesType
<1>6. Len(ss) = n + 1 /\ 1 .. n = (1 .. Len(ss)) \ {n + 1} /\ n + 1 \in 1 .. Len(ss)
  BY <1>1
<1>7. IsFiniteSet(1 .. Len(ss))
  BY <1>1, SharesType
<1>8. \A i \in 1 .. n : g[i] = f[i]
  BY <1>1, <1>2 DEF Shares
<1>9. n + 1 \in 1 .. Len(ss) /\ ~(n + 1 <= k)
  BY <1>1
<1>10. g[n + 1] = Share(t, u, a, o)
  BY <1>1, <1>9 DEF Shares
<1> DEFINE D == 1 .. Len(ss)
           x == n + 1
<1>11. /\ IsFiniteSet(D) /\ x \in D
       /\ f \in [D \ {x} -> Nat] /\ g \in [D -> Nat] /\ \A i \in D \ {x} : g[i] = f[i]
  BY <1>4, <1>5, <1>6, <1>7, <1>8
<1> HIDE DEF f, g, D, x
<1>12. Sum(g) = Sum(f) + g[x]
  BY <1>11, SumExtend
<1>13. QED
  BY <1>4, <1>5, <1>10, <1>12 DEF ss, x

\* Settling a trade takes its share out of what is pending.
LEMMA PendingSettle ==
    ASSUME NEW ts \in Seq(Trade), NEW k \in Nat, k < Len(ts), NEW u, NEW a, NEW o
    PROVE  /\ PendingOf(ts, k + 1, u, a, o)
                = PendingOf(ts, k, u, a, o) - Share(ts[k + 1], u, a, o)
           /\ Share(ts[k + 1], u, a, o) <= PendingOf(ts, k, u, a, o)
<1> DEFINE f == Shares(ts, k, u, a, o)
           g == Shares(ts, k + 1, u, a, o)
<1>1. k + 1 \in 1 .. Len(ts)
  OBVIOUS
<1>2. f \in [1 .. Len(ts) -> Nat] /\ g \in [1 .. Len(ts) -> Nat] /\ IsFiniteSet(1 .. Len(ts))
  BY SharesType
<1>3. \A i \in (1 .. Len(ts)) \ {k + 1} : i <= k <=> i <= k + 1
  OBVIOUS
<1>4. \A i \in (1 .. Len(ts)) \ {k + 1} : g[i] = f[i]
  BY <1>3 DEF Shares
<1>5. f[k + 1] = Share(ts[k + 1], u, a, o) /\ g[k + 1] = 0
  BY <1>1 DEF Shares
<1>6. PendingOf(ts, k, u, a, o) = Sum(f) /\ PendingOf(ts, k + 1, u, a, o) = Sum(g)
  BY <1>1, SharesType
<1> DEFINE D == 1 .. Len(ts)
           x == k + 1
<1>7. /\ IsFiniteSet(D) /\ x \in D /\ f \in [D -> Nat] /\ g \in [D -> Nat]
      /\ \A i \in D \ {x} : g[i] = f[i]
  BY <1>1, <1>2, <1>4
<1>8. f[x] = Share(ts[k + 1], u, a, o) /\ g[x] = 0
  BY <1>5
<1> HIDE DEF f, g, D, x
<1>9. Sum(g) = Sum(f) - f[x] + g[x]
  BY <1>7, SumUpdate
<1>10. f[x] <= Sum(f)
  BY <1>7, SumMember
<1>11. Sum(f) \in Nat /\ f[x] \in Nat
  BY <1>7, SumType
<1>12. QED
  BY <1>6, <1>8, <1>9, <1>10, <1>11

-----------------------------------------------------------------------------
(* What the open quantity of an order may cost.                            *)

\* The fields of an order, resting or being placed.
LEMMA OrderTypes ==
    ASSUME NEW x \in RestingOrder \cup Taker
    PROVE  /\ x.user \in Users /\ x.side \in Sides /\ LockAsset(x.side) \in Assets
           /\ x.price \in Prices /\ x.price \in Nat /\ x.rem \in Nat
BY PositiveAssumption DEF RestingOrder, Taker, Sides, Assets, LockAsset

\* What an open quantity may cost is a natural number.
LEMMA DueOfType ==
    ASSUME NEW x \in RestingOrder \cup Taker, NEW u, NEW a
    PROVE  DueOf(x, u, a) \in Nat
BY OrderTypes, DueType DEF DueOf

\* And so is the exposure of an order, wherever it is.
LEMMA ExposureType ==
    ASSUME NEW b, \A id \in DOMAIN b : b[id] \in RestingOrder,
           NEW t \in Taker \cup {NoOrder}, NEW u, NEW a, NEW o
    PROVE  ExposureOf(b, t, u, a, o) \in Nat
<1>1. CASE o \in DOMAIN b
  BY <1>1, DueOfType DEF ExposureOf
<1>2. CASE o \notin DOMAIN b /\ t # NoOrder
  BY <1>2, DueOfType DEF ExposureOf
<1>3. CASE o \notin DOMAIN b /\ t = NoOrder
  BY <1>3 DEF ExposureOf
<1>4. QED
  BY <1>1, <1>2, <1>3

-----------------------------------------------------------------------------
(* The inductive invariant.  That the locked funds cover the next trade    *)
(* follows from what each order holds (ReservesCover) only together with   *)
(* the sum that relates holdings and locked funds (LockedIsReserved).      *)

IInv ==
    /\ TypeOK
    /\ NoPanic
    /\ ReservesCover
    /\ LockedIsReserved
    /\ PayersAreKnown
    /\ MoneyIsConserved

\* A trade yet to be settled, by the types of its parties.
LEMMA TradeTypes ==
    ASSUME NEW t \in Trade
    PROVE  /\ Buyer(t) \in Users /\ Seller(t) \in Users
           /\ BuyOrder(t) \in OrderIds /\ SellOrder(t) \in OrderIds
           /\ Quote(t) \in Nat /\ t.qty \in Nat
BY ShareType DEF Trade, Buyer, Seller, BuyOrder, SellOrder

\* An order's holding is part of what its owner has locked.
LEMMA ReserveIsLocked ==
    ASSUME TypeOK, LockedIsReserved, NEW u \in Users, NEW a \in Assets, NEW o \in OrderIds
    PROVE  reserve[u][a][o] <= locked[u][a]
<1>1. reserve[u][a] \in [OrderIds -> Nat]
  BY DEF TypeOK
<1>2. QED
  BY <1>1, FiniteAssumption, SumMember DEF LockedIsReserved

\* The funds of both parties of the next trade are there.
LEMMA NextTradeIsCovered ==
    ASSUME IInv, settled < Len(trades)
    PROVE  LET t == trades[settled + 1] IN
           /\ CanSettle(t)
           /\ Quote(t) <= reserve[Buyer(t)]["USD"][BuyOrder(t)]
           /\ t.qty <= reserve[Seller(t)]["BTC"][SellOrder(t)]
<1> DEFINE t == trades[settled + 1]
           k == settled
<1>1. /\ trades \in Seq(Trade) /\ k \in Nat /\ k < Len(trades)
      /\ k + 1 \in k + 1 .. Len(trades) /\ t \in Trade
  BY DEF IInv, TypeOK, BookTypeOK
<1>2. /\ Buyer(t) \in Users /\ Seller(t) \in Users
      /\ BuyOrder(t) \in OrderIds /\ SellOrder(t) \in OrderIds
      /\ Quote(t) \in Nat /\ t.qty \in Nat
  BY <1>1, TradeTypes
<1>3. <<Buyer(t), "USD">> \in known /\ <<Seller(t), "BTC">> \in known
  BY <1>1 DEF IInv, PayersAreKnown
<1>4. ASSUME NEW u \in Users, NEW a \in Assets, NEW o \in OrderIds
      PROVE  Share(t, u, a, o) <= reserve[u][a][o]
  <2>1. Share(t, u, a, o) <= PendingOf(trades, k, u, a, o)
    BY <1>1, PendingSettle
  <2>2. ExposureOf(book, taker, u, a, o) \in Nat /\ PendingOf(trades, k, u, a, o) \in Nat
    BY <1>1, ExposureType, SharesType DEF IInv, TypeOK, BookTypeOK
  <2>3. ExposureOf(book, taker, u, a, o) + PendingOf(trades, k, u, a, o) <= reserve[u][a][o]
    BY DEF IInv, ReservesCover, Exposure, Pending
  <2>4. Share(t, u, a, o) \in Nat /\ reserve[u][a][o] \in Nat
    BY <1>1, ShareType DEF IInv, TypeOK
  <2>5. QED
    BY <2>1, <2>2, <2>3, <2>4
<1>5. Quote(t) <= reserve[Buyer(t)]["USD"][BuyOrder(t)]
  <2>1. Share(t, Buyer(t), "USD", BuyOrder(t)) = Quote(t)
    BY DEF Share
  <2>2. QED
    BY <1>2, <1>4, <2>1 DEF Assets
<1>6. t.qty <= reserve[Seller(t)]["BTC"][SellOrder(t)]
  <2>1. Share(t, Seller(t), "BTC", SellOrder(t)) = t.qty
    BY DEF Share
  <2>2. QED
    BY <1>2, <1>4, <2>1 DEF Assets
<1>7. /\ reserve[Buyer(t)]["USD"][BuyOrder(t)] <= locked[Buyer(t)]["USD"]
      /\ reserve[Seller(t)]["BTC"][SellOrder(t)] <= locked[Seller(t)]["BTC"]
  BY <1>2, ReserveIsLocked DEF IInv, Assets
<1>8. /\ reserve[Buyer(t)]["USD"][BuyOrder(t)] \in Nat /\ locked[Buyer(t)]["USD"] \in Nat
      /\ reserve[Seller(t)]["BTC"][SellOrder(t)] \in Nat /\ locked[Seller(t)]["BTC"] \in Nat
  <2>1. reserve \in [Users -> [Assets -> [OrderIds -> Nat]]] /\ locked \in [Users -> [Assets -> Nat]]
    BY DEF IInv, TypeOK
  <2>2. "USD" \in Assets /\ "BTC" \in Assets
    BY DEF Assets
  <2>3. QED
    BY <1>2, <2>1, <2>2
<1>9. CanSettle(t)
  BY <1>2, <1>3, <1>5, <1>6, <1>7, <1>8 DEF CanSettle
<1>10. QED
  BY <1>5, <1>6, <1>9

-----------------------------------------------------------------------------
(* Every action preserves the invariant.                                   *)

\* The balances of all users of an asset.
Holdings(av, lk, a) == [u \in Users |-> av[u][a] + lk[u][a]]

\* What a user holds of an asset is a natural number.
LEMMA HoldingsType ==
    ASSUME NEW av \in [Users -> [Assets -> Nat]], NEW lk \in [Users -> [Assets -> Nat]],
           NEW a \in Assets
    PROVE  Holdings(av, lk, a) \in [Users -> Nat]
BY DEF Holdings

\* Changing what one user holds changes the total by as much.
LEMMA HoldingsUpdate ==
    ASSUME NEW f \in [Users -> Nat], NEW g \in [Users -> Nat], NEW u \in Users,
           \A v \in Users \ {u} : g[v] = f[v]
    PROVE  Sum(g) = Sum(f) - f[u] + g[u] /\ Sum(f) \in Nat /\ f[u] <= Sum(f)
BY FiniteAssumption, SumUpdate, SumType, SumMember

\* A deposit raises what its user holds and what was deposited alike.
LEMMA DepositStep ==
    ASSUME IInv, NEW u \in Users, NEW a \in Assets, NEW amount \in Amounts,
           Deposit(u, a, amount)
    PROVE  IInv'
<1>1. /\ UNCHANGED <<book, used, taker, trades, open, locked, settled, panicked, reserve>>
      /\ known' = known \cup {<<u, a>>}
      /\ available' = [available EXCEPT ![u][a] = @ + amount]
      /\ deposited' = [deposited EXCEPT ![a] = @ + amount]
      /\ amount \in Nat
  BY SupplyAssumption DEF Deposit, bookVars
<1>2. TypeOK'
  BY <1>1 DEF IInv, TypeOK, BookTypeOK
<1>3. NoPanic' /\ LockedIsReserved'
  BY <1>1 DEF IInv, NoPanic, LockedIsReserved
<1>4. ReservesCover'
  BY <1>1 DEF IInv, ReservesCover, Exposure, Pending, ExposureOf, PendingOf
<1>5. PayersAreKnown'
  BY <1>1 DEF IInv, PayersAreKnown
<1>6. ASSUME NEW b \in Assets PROVE (Sum(Holdings(available, locked, b)) = deposited[b])'
  <2> DEFINE f == Holdings(available, locked, b)
             g == Holdings(available', locked', b)
  <2>1. f \in [Users -> Nat] /\ g \in [Users -> Nat]
    BY <1>2, HoldingsType DEF IInv, TypeOK
  <2>2. \A v \in Users \ {u} : g[v] = f[v]
    BY <1>1 DEF IInv, TypeOK, Holdings
  <2>3. g[u] = f[u] + (IF a = b THEN amount ELSE 0)
    BY <1>1 DEF IInv, TypeOK, Holdings
  <2>4. Sum(f) = deposited[b] /\ deposited[b] \in Nat
    BY DEF IInv, MoneyIsConserved, Holdings, TypeOK
  <2>5. deposited'[b] = deposited[b] + (IF a = b THEN amount ELSE 0)
    BY <1>1 DEF IInv, TypeOK
  <2> HIDE DEF f, g
  <2>6. Sum(g) = Sum(f) - f[u] + g[u]
    BY <2>1, <2>2, HoldingsUpdate
  <2>7. f[u] \in Nat /\ g[u] \in Nat
    BY <2>1
  <2>8. Sum(g) = deposited'[b]
    BY <1>1, <2>3, <2>4, <2>5, <2>6, <2>7
  <2>9. QED
    BY <2>8 DEF g
<1>7. MoneyIsConserved'
  BY <1>6 DEF MoneyIsConserved, Holdings
<1>8. QED
  BY <1>2, <1>3, <1>4, <1>5, <1>7 DEF IInv

\* A rejected order leaves everything but the set of used ids alone.
LEMMA RejectStep ==
    ASSUME IInv, NEW id \in OrderIds, NEW u \in Users, NEW s \in Sides,
           NEW p \in Prices, NEW q \in Quantities, RejectOrder(id, u, s, p, q)
    PROVE  IInv'
<1>1. /\ UNCHANGED <<book, taker, trades, open, known, available, locked, settled,
                     panicked, reserve, deposited>>
      /\ used' = used \cup {id}
  BY DEF RejectOrder, cacheVars
<1>2. TypeOK'
  BY <1>1 DEF IInv, TypeOK, BookTypeOK
<1>3. NoPanic' /\ LockedIsReserved' /\ PayersAreKnown' /\ MoneyIsConserved'
  BY <1>1 DEF IInv, NoPanic, LockedIsReserved, PayersAreKnown, MoneyIsConserved
<1>4. ReservesCover'
  BY <1>1 DEF IInv, ReservesCover, Exposure, Pending, ExposureOf, PendingOf
<1>5. QED
  BY <1>2, <1>3, <1>4 DEF IInv

\* An accepted order holds what it locks: its whole exposure.
LEMMA AcceptStep ==
    ASSUME IInv, NEW id \in OrderIds, NEW u \in Users, NEW s \in Sides,
           NEW p \in Prices, NEW q \in Quantities, AcceptOrder(id, u, s, p, q)
    PROVE  IInv'
<1> DEFINE a == LockAsset(s)
           amount == Due(s, p, q)
           t == [id |-> id, user |-> u, side |-> s, price |-> p, qty |-> q, rem |-> q,
                 seq |-> Cardinality(used) + 1]
<1>1. /\ taker = NoOrder /\ settled = Len(trades)
      /\ <<u, a>> \in known /\ available[u][a] >= amount /\ id \notin used
      /\ available' = [available EXCEPT ![u][a] = @ - amount]
      /\ locked' = [locked EXCEPT ![u][a] = @ + amount]
      /\ reserve' = [reserve EXCEPT ![u][a][id] = @ + amount]
      /\ taker' = t /\ used' = used \cup {id} /\ trades' = <<>> /\ settled' = 0
      /\ UNCHANGED <<book, open, known, panicked, deposited>>
  BY DEF AcceptOrder, Idle, CanLock, BeginPlace
<1>2. a \in Assets /\ amount \in Nat /\ p \in Nat /\ q \in Nat \ {0}
  BY PositiveAssumption, DueType DEF LockAsset, Assets, Sides
<1>3. t \in Taker
  <2>1. Cardinality(used) \in Nat
    BY FiniteAssumption, FS_Subset, FS_CardinalityType DEF IInv, TypeOK, BookTypeOK
  <2>2. QED
    BY <1>2, <2>1 DEF Taker
<1> HIDE DEF amount, a, t
<1>4. TypeOK'
  <2>1. BookTypeOK'
    BY <1>1, <1>3 DEF IInv, TypeOK, BookTypeOK, t
  <2>2. locked' \in [Users -> [Assets -> Nat]] /\ available' \in [Users -> [Assets -> Nat]]
    BY <1>1, <1>2 DEF IInv, TypeOK
  <2>3. reserve' \in [Users -> [Assets -> [OrderIds -> Nat]]]
    BY <1>1, <1>2 DEF IInv, TypeOK
  <2>4. settled' \in 0 .. Len(trades')
    <3>1. Len(<<>>) = 0
      OBVIOUS
    <3>2. QED
      BY <1>1, <3>1
  <2>5. known' \subseteq Users \X Assets /\ deposited' \in [Assets -> Nat]
    BY <1>1 DEF IInv, TypeOK
  <2>6. panicked' \in BOOLEAN
    BY <1>1, Zenon DEF IInv, TypeOK
  <2>7. QED
    BY <2>1, <2>2, <2>3, <2>4, <2>5, <2>6 DEF TypeOK
<1>5. NoPanic'
  BY <1>1 DEF IInv, NoPanic
<1>6. ReservesCover'
  <2> SUFFICES ASSUME NEW v \in Users, NEW b \in Assets, NEW o \in OrderIds
               PROVE  ExposureOf(book', taker', v, b, o) + PendingOf(trades', settled', v, b, o)
                        <= reserve'[v][b][o]
    BY DEF ReservesCover, Exposure, Pending
  <2>1. PendingOf(trades', settled', v, b, o) = 0
    <3>1. <<>> \in Seq(Trade) /\ Len(<<>>) = 0
      OBVIOUS
    <3>2. PendingOf(<<>>, Len(<<>>), v, b, o) = 0
      BY <3>1, PendingNone
    <3>3. QED
      BY <1>1, <3>1, <3>2
  <2>2. /\ ExposureOf(book, taker, v, b, o) \in Nat
        /\ PendingOf(trades, settled, v, b, o) \in Nat
        /\ ExposureOf(book, taker, v, b, o) + PendingOf(trades, settled, v, b, o) <= reserve[v][b][o]
        /\ reserve[v][b][o] \in Nat
    <3>1. ExposureOf(book, taker, v, b, o) \in Nat
      BY ExposureType DEF IInv, TypeOK, BookTypeOK
    <3>2. PendingOf(trades, settled, v, b, o) \in Nat
      BY SharesType DEF IInv, TypeOK, BookTypeOK
    <3>3. reserve[v][b][o] \in Nat
      BY DEF IInv, TypeOK
    <3>4. QED
      BY <3>1, <3>2, <3>3 DEF IInv, ReservesCover, Exposure, Pending
  <2>3. ExposureOf(book, taker, v, b, o) <= reserve[v][b][o]
    BY <2>2
  <2>4. CASE o # id
    <3>1. reserve'[v][b][o] = reserve[v][b][o]
      BY <1>1, <1>2, <2>4 DEF IInv, TypeOK
    <3>2. ExposureOf(book', taker', v, b, o) = ExposureOf(book, taker, v, b, o)
      BY <1>1, <2>4 DEF ExposureOf, t
    <3>3. QED
      BY <2>1, <2>2, <2>3, <3>1, <3>2
  <2>5. CASE o = id
    <3>1. id \notin DOMAIN book
      BY <1>1 DEF IInv, TypeOK, BookTypeOK
    <3>2. taker' # NoOrder
      BY <1>1, <1>3, NoOrderAssumption
    <3>3. ExposureOf(book', taker', v, b, o) = DueOf(t, v, b)
      BY <1>1, <2>5, <3>1, <3>2 DEF ExposureOf, t
    <3>4. DueOf(t, v, b) = IF v = u /\ b = a THEN amount ELSE 0
      BY DEF DueOf, t, a, amount
    <3>5. reserve'[v][b][o] = IF v = u /\ b = a THEN reserve[v][b][o] + amount ELSE reserve[v][b][o]
      <4>1. reserve \in [Users -> [Assets -> [OrderIds -> Nat]]]
        BY DEF IInv, TypeOK
      <4>2. CASE v = u /\ b = a
        BY <1>1, <1>2, <2>5, <4>1, <4>2
      <4>3. CASE ~(v = u /\ b = a)
        BY <1>1, <1>2, <2>5, <4>1, <4>3
      <4>4. QED
        BY <4>2, <4>3
    <3>6. QED
      BY <1>2, <2>1, <2>2, <3>3, <3>4, <3>5
  <2>6. QED
    BY <2>4, <2>5
<1>7. LockedIsReserved'
  <2> SUFFICES ASSUME NEW v \in Users, NEW b \in Assets
               PROVE  locked'[v][b] = Sum(reserve'[v][b])
    BY DEF LockedIsReserved
  <2>1. locked[v][b] = Sum(reserve[v][b])
    BY DEF IInv, LockedIsReserved
  <2>2. CASE v = u /\ b = a
    <3>1. reserve[v][b] \in [OrderIds -> Nat] /\ reserve'[v][b] \in [OrderIds -> Nat]
      BY <1>4 DEF IInv, TypeOK
    <3>2. /\ \A o \in OrderIds \ {id} : reserve'[v][b][o] = reserve[v][b][o]
          /\ reserve'[v][b][id] = reserve[v][b][id] + amount
      BY <1>1, <1>2, <2>2 DEF IInv, TypeOK
    <3>3. Sum(reserve'[v][b]) = Sum(reserve[v][b]) - reserve[v][b][id] + reserve'[v][b][id]
      BY <3>1, <3>2, FiniteAssumption, SumUpdate
    <3>4. locked'[v][b] = locked[v][b] + amount
      BY <1>1, <1>2, <2>2 DEF IInv, TypeOK
    <3>5. locked[v][b] \in Nat /\ reserve[v][b][id] \in Nat
      BY <3>1 DEF IInv, TypeOK
    <3>6. QED
      BY <1>2, <2>1, <3>2, <3>3, <3>4, <3>5
  <2>3. CASE ~(v = u /\ b = a)
    <3>1. locked'[v][b] = locked[v][b] /\ reserve'[v][b] = reserve[v][b]
      BY <1>1, <1>2, <2>3 DEF IInv, TypeOK
    <3>2. QED
      BY <2>1, <3>1
  <2>4. QED
    BY <2>2, <2>3
<1>8. PayersAreKnown'
  BY <1>1 DEF IInv, PayersAreKnown, t, a
<1>9. MoneyIsConserved'
  <2>1. ASSUME NEW b \in Assets PROVE Holdings(available', locked', b) = Holdings(available, locked, b)
    <3>1. ASSUME NEW v \in Users PROVE available'[v][b] + locked'[v][b] = available[v][b] + locked[v][b]
      BY <1>1, <1>2 DEF IInv, TypeOK
    <3>2. QED
      BY <3>1 DEF Holdings
  <2>2. QED
    BY <1>1, <2>1 DEF IInv, MoneyIsConserved, Holdings
<1>10. QED
  BY <1>4, <1>5, <1>6, <1>7, <1>8, <1>9 DEF IInv

\* A trade with the maker m: what both orders may still cost falls by at
\* least what the trade will take from them.
LEMMA MatchStep ==
    ASSUME IInv, NEW m \in DOMAIN book, MatchMaker(m),
           UNCHANGED <<cacheVars, settled, panicked, reserve, deposited>>
    PROVE  IInv'
<1> DEFINE x == book[m]
           q == Lesser(taker.rem, x.rem)
           t == [side |-> taker.side, price |-> x.price, qty |-> q,
                 takerId |-> taker.id, makerId |-> m,
                 takerUser |-> taker.user, makerUser |-> x.user]
<1>1. /\ taker # NoOrder /\ taker.rem > 0
      /\ x.side # taker.side /\ Crosses(taker.side, taker.price, x.price)
      /\ taker' = [taker EXCEPT !.rem = @ - q]
      /\ book' = IF x.rem = q THEN Unbind(book, m) ELSE [book EXCEPT ![m].rem = @ - q]
      /\ trades' = Append(trades, t)
      /\ UNCHANGED <<used, open, known, available, locked, settled, panicked, reserve, deposited>>
  BY DEF MatchMaker, IsNextMaker, Eligible, AtBest, Opposite, cacheVars
<1>2. /\ taker \in Taker /\ x \in RestingOrder
      /\ taker.id \in OrderIds /\ taker.id # m /\ taker.id \notin DOMAIN book /\ m \in OrderIds
  BY <1>1 DEF IInv, TypeOK, BookTypeOK, Taker
<1>3. /\ taker.user \in Users /\ taker.side \in Sides /\ taker.price \in Prices
      /\ taker.price \in Nat /\ taker.rem \in Nat
      /\ x.user \in Users /\ x.side \in Sides /\ x.price \in Prices /\ x.price \in Nat
      /\ x.rem \in Nat \ {0}
  BY <1>2, OrderTypes DEF RestingOrder
<1>4. q \in Nat \ {0} /\ q <= taker.rem /\ q <= x.rem
  BY <1>1, <1>3 DEF Lesser
<1>5. t \in Trade
  BY <1>2, <1>3, <1>4 DEF Trade
<1> DEFINE y == [x EXCEPT !.rem = @ - q]
<1>6. taker' \in Taker /\ (x.rem # q => y \in RestingOrder)
  <2>1. taker.rem - q \in Nat /\ (x.rem # q => x.rem - q \in Nat \ {0})
    BY <1>3, <1>4
  <2> HIDE DEF q
  <2>2. taker' \in Taker
    BY <1>1, <1>2, <2>1 DEF Taker
  <2>3. x.rem # q => y \in RestingOrder
    BY <1>2, <2>1 DEF RestingOrder
  <2>4. QED
    BY <2>2, <2>3
<1>7. /\ DOMAIN book' = IF x.rem = q THEN DOMAIN book \ {m} ELSE DOMAIN book
      /\ \A o \in DOMAIN book' : book'[o] = IF o = m THEN y ELSE book[o]
  BY <1>1 DEF Unbind, Restrict
<1>8. /\ taker'.id = taker.id /\ taker'.user = taker.user /\ taker'.side = taker.side
      /\ taker'.price = taker.price /\ taker'.rem = taker.rem - q /\ taker' # NoOrder
  BY <1>1, <1>2, <1>6, NoOrderAssumption DEF Taker
<1>9. y.user = x.user /\ y.side = x.side /\ y.price = x.price /\ y.rem = x.rem - q
  BY <1>2 DEF RestingOrder
<1> HIDE DEF q, t, y
<1>10. TypeOK'
  <2>1. BookTypeOK'
    <3>1. \A o \in DOMAIN book' : book'[o] \in RestingOrder
      BY <1>6, <1>7 DEF IInv, TypeOK, BookTypeOK
    <3>2. trades' \in Seq(Trade)
      BY <1>1, <1>5 DEF IInv, TypeOK, BookTypeOK
    <3>3. DOMAIN book' \subseteq DOMAIN book
      BY <1>7
    <3>4. used' = used /\ DOMAIN book' \subseteq used' /\ used' \subseteq OrderIds /\ open' \in BOOLEAN
      BY <1>1, <3>3 DEF IInv, TypeOK, BookTypeOK
    <3>5. taker'.id \in used' \ DOMAIN book'
      BY <1>1, <1>2, <1>8, <3>3, <3>4 DEF IInv, TypeOK, BookTypeOK
    <3>6. QED
      BY <1>6, <3>1, <3>2, <3>4, <3>5 DEF BookTypeOK
  <2>2. settled' \in 0 .. Len(trades')
    BY <1>1 DEF IInv, TypeOK, BookTypeOK
  <2>3. QED
    BY <1>1, <2>1, <2>2 DEF IInv, TypeOK
<1>11. NoPanic' /\ LockedIsReserved' /\ MoneyIsConserved'
  BY <1>1 DEF IInv, NoPanic, LockedIsReserved, MoneyIsConserved
<1>12. /\ Buyer(t) = IF taker.side = "BUY" THEN taker.user ELSE x.user
       /\ Seller(t) = IF taker.side = "BUY" THEN x.user ELSE taker.user
       /\ BuyOrder(t) = IF taker.side = "BUY" THEN taker.id ELSE m
       /\ SellOrder(t) = IF taker.side = "BUY" THEN m ELSE taker.id
       /\ Quote(t) = Notional(x.price, q) /\ t.qty = q
  BY DEF Buyer, Seller, BuyOrder, SellOrder, Quote, t
<1>13. PayersAreKnown'
  <2>1. \A o \in DOMAIN book' : <<book'[o].user, LockAsset(book'[o].side)>> \in known
    BY <1>7, <1>9 DEF IInv, PayersAreKnown
  <2>2. <<taker'.user, LockAsset(taker'.side)>> \in known
    BY <1>1, <1>8 DEF IInv, PayersAreKnown
  <2>3. <<Buyer(t), "USD">> \in known /\ <<Seller(t), "BTC">> \in known
    BY <1>1, <1>2, <1>3, <1>12 DEF IInv, PayersAreKnown, LockAsset, Sides
  <2>4. \A i \in settled + 1 .. Len(trades') :
           <<Buyer(trades'[i]), "USD">> \in known /\ <<Seller(trades'[i]), "BTC">> \in known
    <3>1. trades \in Seq(Trade) /\ settled \in 0 .. Len(trades)
      BY DEF IInv, TypeOK, BookTypeOK
    <3>2. /\ Len(trades') = Len(trades) + 1 /\ trades'[Len(trades) + 1] = t
          /\ \A i \in 1 .. Len(trades) : trades'[i] = trades[i]
      BY <1>1, <3>1
    <3>3. \A i \in settled + 1 .. Len(trades) :
             <<Buyer(trades[i]), "USD">> \in known /\ <<Seller(trades[i]), "BTC">> \in known
      BY DEF IInv, PayersAreKnown
    <3>4. \A i \in settled + 1 .. Len(trades') :
             (i \in 1 .. Len(trades) /\ i \in settled + 1 .. Len(trades)) \/ i = Len(trades) + 1
      BY <3>1, <3>2
    <3>5. QED
      BY <2>3, <3>2, <3>3, <3>4
  <2>5. QED
    BY <1>1, <2>1, <2>2, <2>4 DEF PayersAreKnown
<1>14. ReservesCover'
  <2> SUFFICES ASSUME NEW u \in Users, NEW a \in Assets, NEW o \in OrderIds
               PROVE  ExposureOf(book', taker', u, a, o) + PendingOf(trades', settled', u, a, o)
                        <= reserve'[u][a][o]
    BY DEF ReservesCover, Exposure, Pending
  <2> DEFINE e == ExposureOf(book, taker, u, a, o)
             f == ExposureOf(book', taker', u, a, o)
  <2>1. PendingOf(trades', settled', u, a, o) = PendingOf(trades, settled, u, a, o) + Share(t, u, a, o)
    BY <1>1, <1>5, PendingAppend DEF IInv, TypeOK, BookTypeOK
  <2>2. e \in Nat /\ f \in Nat
    BY <1>10, ExposureType DEF IInv, TypeOK, BookTypeOK
  <2>3. /\ PendingOf(trades, settled, u, a, o) \in Nat
        /\ e + PendingOf(trades, settled, u, a, o) <= reserve[u][a][o]
        /\ reserve[u][a][o] \in Nat /\ Share(t, u, a, o) \in Nat
    BY <1>5, SharesType, ShareType
       DEF IInv, TypeOK, BookTypeOK, ReservesCover, Exposure, Pending
  <2>4. f + Share(t, u, a, o) <= e
    <3>1. CASE o = taker.id
      <4>1. e = DueOf(taker, u, a)
        BY <1>1, <1>2, <3>1 DEF ExposureOf
      <4>2. f = DueOf(taker', u, a)
        BY <1>2, <1>7, <1>8, <3>1 DEF ExposureOf
      <4>3. Share(t, u, a, o) =
              IF u = taker.user /\ a = LockAsset(taker.side) THEN Due(taker.side, x.price, q) ELSE 0
        BY <1>2, <1>3, <1>12, <3>1 DEF Share, LockAsset, Due, Sides
      <4>4. Due(taker.side, x.price, q) + Due(taker.side, taker.price, taker.rem - q)
              <= Due(taker.side, taker.price, taker.rem)
        BY <1>1, <1>3, <1>4, DueCoversFill
      <4>5. QED
        BY <1>8, <2>2, <2>3, <4>1, <4>2, <4>3, <4>4 DEF DueOf
    <3>2. CASE o = m
      <4>1. e = DueOf(x, u, a)
        BY <3>2 DEF ExposureOf
      <4>2. f = IF x.rem = q THEN 0 ELSE DueOf(y, u, a)
        BY <1>2, <1>7, <1>8, <3>2 DEF ExposureOf
      <4>3. Share(t, u, a, o) =
              IF u = x.user /\ a = LockAsset(x.side) THEN Due(x.side, x.price, q) ELSE 0
        BY <1>1, <1>2, <1>3, <1>12, <3>2 DEF Share, LockAsset, Due, Sides
      <4>4. /\ Due(x.side, x.price, q) + Due(x.side, x.price, x.rem - q)
                 <= Due(x.side, x.price, x.rem)
            /\ Due(x.side, x.price, q) \in Nat /\ Due(x.side, x.price, x.rem - q) \in Nat
            /\ Due(x.side, x.price, x.rem) \in Nat
        <5>1. Crosses(x.side, x.price, x.price)
          BY <1>3 DEF Crosses
        <5>2. x.rem - q \in Nat
          BY <1>3, <1>4
        <5>3. QED
          BY <1>3, <1>4, <5>1, <5>2, DueCoversFill, DueType
      <4>5. QED
        BY <1>9, <4>1, <4>2, <4>3, <4>4 DEF DueOf
    <3>3. CASE o # taker.id /\ o # m
      <4>1. Share(t, u, a, o) = 0
        BY <1>12, <3>3 DEF Share
      <4>2. f = e
        BY <1>7, <1>8, <3>3 DEF ExposureOf
      <4>3. QED
        BY <2>2, <4>1, <4>2
    <3>4. QED
      BY <3>1, <3>2, <3>3
  <2> HIDE DEF e, f
  <2>5. f + (PendingOf(trades, settled, u, a, o) + Share(t, u, a, o)) <= reserve[u][a][o]
    BY <2>2, <2>3, <2>4
  <2>6. QED
    BY <1>1, <2>1, <2>5 DEF f
<1>15. QED
  BY <1>10, <1>11, <1>13, <1>14 DEF IInv

\* The remainder rests with the exposure it had as the taker.
LEMMA EndPlaceStep ==
    ASSUME IInv, EndPlace, UNCHANGED <<cacheVars, settled, panicked, reserve, deposited>>
    PROVE  IInv'
<1> DEFINE x == AsResting(taker, taker.rem)
<1>1. /\ taker # NoOrder /\ taker' = NoOrder
      /\ book' = IF taker.rem = 0 THEN book ELSE Bind(book, taker.id, x)
      /\ UNCHANGED <<used, trades, open, known, available, locked, settled, panicked,
                     reserve, deposited>>
  BY DEF EndPlace, cacheVars
<1>2. taker \in Taker /\ taker.id \in used \ DOMAIN book
  BY <1>1 DEF IInv, TypeOK, BookTypeOK
<1>3. taker.rem # 0 => x \in RestingOrder
  BY <1>2 DEF Taker, RestingOrder, AsResting
<1>4. x.user = taker.user /\ x.side = taker.side /\ x.price = taker.price /\ x.rem = taker.rem
  BY DEF AsResting
<1>5. /\ DOMAIN book' = IF taker.rem = 0 THEN DOMAIN book ELSE DOMAIN book \cup {taker.id}
      /\ \A o \in DOMAIN book' : book'[o] = IF o = taker.id THEN x ELSE book[o]
  BY <1>1, <1>2 DEF Bind
<1> HIDE DEF x
<1>6. TypeOK'
  <2>1. BookTypeOK'
    <3>1. \A o \in DOMAIN book' : book'[o] \in RestingOrder
      BY <1>2, <1>3, <1>5 DEF IInv, TypeOK, BookTypeOK
    <3>2. QED
      BY <1>1, <1>2, <1>5, <3>1 DEF IInv, TypeOK, BookTypeOK
  <2>2. QED
    BY <1>1, <2>1 DEF IInv, TypeOK
<1>7. NoPanic' /\ LockedIsReserved' /\ MoneyIsConserved'
  BY <1>1 DEF IInv, NoPanic, LockedIsReserved, MoneyIsConserved
<1>8. PayersAreKnown'
  <2>1. \A o \in DOMAIN book' : <<book'[o].user, LockAsset(book'[o].side)>> \in known
    BY <1>1, <1>4, <1>5 DEF IInv, PayersAreKnown
  <2>2. QED
    BY <1>1, <2>1 DEF IInv, PayersAreKnown
<1>9. ReservesCover'
  <2> SUFFICES ASSUME NEW u \in Users, NEW a \in Assets, NEW o \in OrderIds
               PROVE  ExposureOf(book', taker', u, a, o) + PendingOf(trades, settled, u, a, o)
                        <= reserve[u][a][o]
    BY <1>1 DEF ReservesCover, Exposure, Pending
  <2>1. /\ ExposureOf(book, taker, u, a, o) \in Nat
        /\ ExposureOf(book', taker', u, a, o) \in Nat
    BY <1>6, ExposureType DEF IInv, TypeOK, BookTypeOK
  <2>2. ExposureOf(book', taker', u, a, o) <= ExposureOf(book, taker, u, a, o)
    <3>1. CASE o = taker.id
      <4>1. ExposureOf(book, taker, u, a, o) = DueOf(taker, u, a)
        BY <1>1, <1>2, <3>1 DEF ExposureOf
      <4>2. ExposureOf(book', taker', u, a, o) = IF taker.rem = 0 THEN 0 ELSE DueOf(x, u, a)
        BY <1>1, <1>2, <1>5, <3>1 DEF ExposureOf
      <4>3. DueOf(x, u, a) = DueOf(taker, u, a)
        BY <1>4 DEF DueOf
      <4>4. QED
        BY <2>1, <4>1, <4>2, <4>3
    <3>2. CASE o # taker.id
      <4>1. ExposureOf(book', taker', u, a, o) = ExposureOf(book, taker, u, a, o)
        BY <1>1, <1>5, <3>2 DEF ExposureOf
      <4>2. QED
        BY <2>1, <4>1
    <3>3. QED
      BY <3>1, <3>2
  <2>3. /\ ExposureOf(book, taker, u, a, o) + PendingOf(trades, settled, u, a, o) <= reserve[u][a][o]
        /\ reserve[u][a][o] \in Nat
    BY DEF IInv, TypeOK, ReservesCover, Exposure, Pending
  <2>4. PendingOf(trades, settled, u, a, o) \in Nat
    BY SharesType DEF IInv, TypeOK, BookTypeOK
  <2>5. QED
    BY <2>1, <2>2, <2>3, <2>4
<1>10. QED
  BY <1>6, <1>7, <1>8, <1>9 DEF IInv

\* A settlement takes from each order's holding exactly what was pending.
LEMMA SettleStep ==
    ASSUME IInv, Settle
    PROVE  IInv'
<1> DEFINE t == trades[settled + 1]
           b == Buyer(t)
           s == Seller(t)
           c == Quote(t)
           q == t.qty
<1>1. /\ taker = NoOrder /\ settled < Len(trades)
      /\ UNCHANGED <<book, used, taker, trades, open, deposited>>
  BY DEF Settle, bookVars
<1>2. /\ CanSettle(t)
      /\ c <= reserve[b]["USD"][BuyOrder(t)] /\ q <= reserve[s]["BTC"][SellOrder(t)]
  BY <1>1, NextTradeIsCovered
<1>3. /\ locked' = [locked EXCEPT ![b]["USD"] = @ - c, ![s]["BTC"] = @ - q]
      /\ available' = [available EXCEPT ![b]["BTC"] = @ + q, ![s]["USD"] = @ + c]
      /\ known' = known \cup {<<b, "BTC">>, <<s, "USD">>}
      /\ reserve' = [reserve EXCEPT ![b]["USD"][BuyOrder(t)] = @ - c,
                                    ![s]["BTC"][SellOrder(t)] = @ - q]
      /\ settled' = settled + 1 /\ panicked' = panicked
  BY <1>2 DEF Settle
<1>4. trades \in Seq(Trade) /\ settled \in Nat /\ t \in Trade /\ settled \in 0 .. Len(trades)
  BY <1>1 DEF IInv, TypeOK, BookTypeOK
<1>5. /\ b \in Users /\ s \in Users /\ BuyOrder(t) \in OrderIds /\ SellOrder(t) \in OrderIds
      /\ c \in Nat /\ q \in Nat
  BY <1>4, TradeTypes
<1>6. c <= locked[b]["USD"] /\ q <= locked[s]["BTC"]
  <2>1. locked[b]["USD"] \in Nat /\ locked[s]["BTC"] \in Nat
    BY <1>5 DEF IInv, TypeOK, Assets
  <2>2. QED
    BY <1>2, <1>5, <2>1 DEF CanSettle
<1>7. "USD" # "BTC" /\ Assets = {"USD", "BTC"}
  BY DEF Assets
<1>8. ASSUME NEW u \in Users, NEW a \in Assets
      PROVE  /\ locked'[u][a] = locked[u][a] - (IF u = b /\ a = "USD" THEN c
                                   ELSE IF u = s /\ a = "BTC" THEN q ELSE 0)
             /\ available'[u][a] = available[u][a] + (IF u = b /\ a = "BTC" THEN q
                                   ELSE IF u = s /\ a = "USD" THEN c ELSE 0)
             /\ locked[u][a] \in Nat /\ available[u][a] \in Nat
  <2>1. locked \in [Users -> [Assets -> Nat]] /\ available \in [Users -> [Assets -> Nat]]
    BY DEF IInv, TypeOK
  <2> HIDE DEF b, s, c, q
  <2>2. CASE a = "USD"
    BY <1>3, <1>5, <1>7, <2>1, <2>2
  <2>3. CASE a = "BTC"
    BY <1>3, <1>5, <1>7, <2>1, <2>3
  <2>4. QED
    BY <1>7, <2>2, <2>3
<1>9. ASSUME NEW u \in Users, NEW a \in Assets, NEW o \in OrderIds
      PROVE  /\ reserve'[u][a][o] = reserve[u][a][o] - Share(t, u, a, o)
             /\ reserve[u][a][o] \in Nat /\ Share(t, u, a, o) \in Nat
             /\ Share(t, u, a, o) <= reserve[u][a][o]
  <2>1. reserve \in [Users -> [Assets -> [OrderIds -> Nat]]]
    BY DEF IInv, TypeOK
  <2>2. /\ reserve[u][a] \in [OrderIds -> Nat] /\ reserve[u] \in [Assets -> [OrderIds -> Nat]]
        /\ reserve[u][a][o] \in Nat
    BY <2>1
  <2>3. Share(t, u, a, o) \in Nat
    BY <1>4, ShareType
  <2> DEFINE i == BuyOrder(t)
             j == SellOrder(t)
  <2>4. CASE a = "USD"
    <3>1. Share(t, u, a, o) = IF u = b /\ o = i THEN c ELSE 0
      BY <1>7, <2>4 DEF Share
    <3> HIDE DEF b, s, c, q, i, j
    <3>2. reserve'[u]["USD"] = IF u = b THEN [reserve[u]["USD"] EXCEPT ![i] = @ - c]
                               ELSE reserve[u]["USD"]
      BY <1>3, <1>5, <1>7, <2>1 DEF i, j
    <3>3. QED
      BY <1>2, <1>5, <2>2, <2>3, <2>4, <3>1, <3>2 DEF i
  <2>5. CASE a = "BTC"
    <3>1. Share(t, u, a, o) = IF u = s /\ o = j THEN q ELSE 0
      BY <1>7, <2>5 DEF Share
    <3> HIDE DEF b, s, c, q, i, j
    <3>2. reserve'[u]["BTC"] = IF u = s THEN [reserve[u]["BTC"] EXCEPT ![j] = @ - q]
                               ELSE reserve[u]["BTC"]
      BY <1>3, <1>5, <1>7, <2>1 DEF i, j
    <3>3. QED
      BY <1>2, <1>5, <2>2, <2>3, <2>5, <3>1, <3>2 DEF j
  <2>6. QED
    BY <1>7, <2>4, <2>5
<1>10. TypeOK'
  <2> HIDE DEF b, s, c, q, t
  <2>1. locked' \in [Users -> [Assets -> Nat]]
    <3>1. ASSUME NEW u \in Users, NEW a \in Assets PROVE locked'[u][a] \in Nat
      BY <1>5, <1>6, <1>8
    <3>2. locked' \in [Users -> [Assets -> Int]]
      <4>1. locked \in [Users -> [Assets -> Int]]
        BY DEF IInv, TypeOK
      <4>2. QED
        BY <1>3, <1>5, <1>7, <4>1
    <3>3. QED
      BY <3>1, <3>2
  <2>2. available' \in [Users -> [Assets -> Nat]]
    <3>1. available \in [Users -> [Assets -> Nat]]
      BY DEF IInv, TypeOK
    <3>2. QED
      BY <1>3, <1>5, <1>7, <3>1
  <2>3. reserve' \in [Users -> [Assets -> [OrderIds -> Nat]]]
    <3>1. ASSUME NEW u \in Users, NEW a \in Assets, NEW o \in OrderIds PROVE reserve'[u][a][o] \in Nat
      BY <1>9
    <3>2. reserve' \in [Users -> [Assets -> [OrderIds -> Int]]]
      <4>1. reserve \in [Users -> [Assets -> [OrderIds -> Int]]]
        BY DEF IInv, TypeOK
      <4> DEFINE r == [reserve EXCEPT ![b]["USD"][BuyOrder(t)] = @ - c]
      <4>2. r \in [Users -> [Assets -> [OrderIds -> Int]]]
        BY <1>5, <1>7, <4>1
      <4>3. reserve' = [r EXCEPT ![s]["BTC"][SellOrder(t)] = @ - q]
        BY <1>3
      <4> HIDE DEF r
      <4>4. QED
        BY <1>5, <1>7, <4>2, <4>3
    <3>3. QED
      BY <3>1, <3>2
  <2>4. known' \subseteq Users \X Assets
    <3>1. <<b, "BTC">> \in Users \X Assets /\ <<s, "USD">> \in Users \X Assets
      BY <1>5, <1>7
    <3>2. known \subseteq Users \X Assets
      BY DEF IInv, TypeOK
    <3>3. QED
      BY <1>3, <3>1, <3>2
  <2>5. settled' \in 0 .. Len(trades')
    BY <1>1, <1>3, <1>4
  <2>6. QED
    BY <1>1, <1>3, <2>1, <2>2, <2>3, <2>4, <2>5 DEF IInv, TypeOK, BookTypeOK
<1>11. NoPanic'
  BY <1>3 DEF IInv, NoPanic
<1>12. PayersAreKnown'
  <2>1. known \subseteq known' /\ settled' = settled + 1
    BY <1>3
  <2>2. \A i \in settled' + 1 .. Len(trades) : i \in settled + 1 .. Len(trades)
    BY <1>4, <2>1
  <2>3. QED
    BY <1>1, <2>1, <2>2 DEF IInv, PayersAreKnown
<1>13. ReservesCover'
  <2> SUFFICES ASSUME NEW u \in Users, NEW a \in Assets, NEW o \in OrderIds
               PROVE  ExposureOf(book, taker, u, a, o) + PendingOf(trades, settled', u, a, o)
                        <= reserve'[u][a][o]
    BY <1>1 DEF ReservesCover, Exposure, Pending
  <2>1. PendingOf(trades, settled', u, a, o) = PendingOf(trades, settled, u, a, o) - Share(t, u, a, o)
    BY <1>1, <1>3, <1>4, PendingSettle
  <2>2. /\ ExposureOf(book, taker, u, a, o) \in Nat /\ PendingOf(trades, settled, u, a, o) \in Nat
    BY <1>4, ExposureType, SharesType DEF IInv, TypeOK, BookTypeOK
  <2>3. ExposureOf(book, taker, u, a, o) + PendingOf(trades, settled, u, a, o) <= reserve[u][a][o]
    BY DEF IInv, ReservesCover, Exposure, Pending
  <2>4. /\ reserve'[u][a][o] = reserve[u][a][o] - Share(t, u, a, o)
        /\ reserve[u][a][o] \in Nat /\ Share(t, u, a, o) \in Nat
    BY <1>9
  <2> HIDE DEF t
  <2>5. QED
    BY <2>1, <2>2, <2>3, <2>4
<1>14. LockedIsReserved'
  <2> SUFFICES ASSUME NEW u \in Users, NEW a \in Assets
               PROVE  locked'[u][a] = Sum(reserve'[u][a])
    BY DEF LockedIsReserved
  <2> DEFINE f == reserve[u][a]
             g == reserve'[u][a]
             o == IF a = "USD" THEN BuyOrder(t) ELSE SellOrder(t)
  <2>1. f \in [OrderIds -> Nat] /\ g \in [OrderIds -> Nat] /\ o \in OrderIds
    <3>1. /\ reserve \in [Users -> [Assets -> [OrderIds -> Nat]]]
          /\ reserve' \in [Users -> [Assets -> [OrderIds -> Nat]]]
      BY <1>10 DEF IInv, TypeOK
    <3>2. QED
      BY <1>5, <3>1
  <2>2. \A r \in OrderIds \ {o} : g[r] = f[r]
    <3>1. ASSUME NEW r \in OrderIds \ {o} PROVE g[r] = f[r]
      <4>1. Share(t, u, a, r) = 0
        BY <1>7 DEF Share
      <4>2. g[r] = f[r] - Share(t, u, a, r) /\ f[r] \in Nat
        BY <1>9
      <4>3. QED
        BY <4>1, <4>2
    <3>2. QED
      BY <3>1
  <2>3. /\ g[o] = f[o] - Share(t, u, a, o) /\ f[o] \in Nat
        /\ Share(t, u, a, o) = IF u = b /\ a = "USD" THEN c
                               ELSE IF u = s /\ a = "BTC" THEN q ELSE 0
    <3>1. Share(t, u, a, o) = IF u = b /\ a = "USD" THEN c
                              ELSE IF u = s /\ a = "BTC" THEN q ELSE 0
      BY <1>7 DEF Share
    <3>2. QED
      BY <1>9, <2>1, <3>1
  <2>4. locked[u][a] = Sum(f) /\ locked[u][a] \in Nat
    BY <1>8 DEF IInv, LockedIsReserved
  <2>5. locked'[u][a] = locked[u][a] - Share(t, u, a, o)
    BY <1>8, <2>3
  <2>6. Share(t, u, a, o) \in Nat
    BY <1>9, <2>1
  <2> HIDE DEF f, g, o
  <2>7. Sum(g) = Sum(f) - f[o] + g[o]
    BY <2>1, <2>2, FiniteAssumption, SumUpdate
  <2>8. locked'[u][a] = Sum(g)
    BY <2>3, <2>4, <2>5, <2>6, <2>7
  <2>9. QED
    BY <2>8 DEF g
<1>15. MoneyIsConserved'
  <2> SUFFICES ASSUME NEW a \in Assets
               PROVE  Sum(Holdings(available', locked', a)) = deposited[a]
    BY <1>1 DEF MoneyIsConserved, Holdings
  <2> DEFINE f == Holdings(available, locked, a)
             h == Holdings(available', locked', a)
             \* the payer and the receiver of the asset, and what is paid
             x == IF a = "USD" THEN b ELSE s
             y == IF a = "USD" THEN s ELSE b
             n == IF a = "USD" THEN c ELSE q
             g == [f EXCEPT ![x] = @ - n]
  <2>1. x \in Users /\ y \in Users /\ n \in Nat
    BY <1>5
  <2>2. f \in [Users -> Nat] /\ h \in [Users -> Nat]
    BY <1>10, HoldingsType DEF IInv, TypeOK
  <2>3. n <= f[x]
    <3>1. n <= locked[x][a] /\ locked[x][a] \in Nat /\ available[x][a] \in Nat
      BY <1>6, <1>7, <1>8, <2>1
    <3>2. f[x] = available[x][a] + locked[x][a]
      BY <2>1 DEF Holdings
    <3>3. QED
      BY <2>1, <3>1, <3>2
  <2>4. ASSUME NEW u \in Users
        PROVE  h[u] = f[u] - (IF u = x THEN n ELSE 0) + (IF u = y THEN n ELSE 0)
    <3>1. /\ locked'[u][a] = locked[u][a] - (IF u = x THEN n ELSE 0)
          /\ available'[u][a] = available[u][a] + (IF u = y THEN n ELSE 0)
          /\ locked[u][a] \in Nat /\ available[u][a] \in Nat
      BY <1>7, <1>8
    <3>2. f[u] = available[u][a] + locked[u][a] /\ h[u] = available'[u][a] + locked'[u][a]
      BY DEF Holdings
    <3>3. QED
      BY <2>1, <3>1, <3>2
  <2>5. Sum(f) = deposited[a]
    BY DEF IInv, MoneyIsConserved, Holdings
  <2> HIDE DEF f, h, x, y, n
  <2>6. g \in [Users -> Nat] /\ g[x] = f[x] - n /\ \A u \in Users \ {x} : g[u] = f[u]
    BY <2>1, <2>2, <2>3
  <2>7. h[y] = g[y] + n /\ \A u \in Users \ {y} : h[u] = g[u]
    BY <2>1, <2>2, <2>4, <2>6
  <2> HIDE DEF g
  <2>8. Sum(g) = Sum(f) - f[x] + g[x] /\ Sum(f) \in Nat /\ f[x] <= Sum(f)
    BY <2>1, <2>2, <2>6, HoldingsUpdate
  <2>9. Sum(h) = Sum(g) - g[y] + h[y] /\ Sum(g) \in Nat
    BY <2>1, <2>2, <2>6, <2>7, HoldingsUpdate
  <2>10. f[x] \in Nat /\ g[y] \in Nat
    BY <2>1, <2>2, <2>6
  <2>11. QED
    BY <2>1, <2>5, <2>6, <2>7, <2>8, <2>9, <2>10 DEF h
<1>16. QED
  BY <1>10, <1>11, <1>12, <1>13, <1>14, <1>15 DEF IInv

\* UnlockFunds never fails, and releases no more than the order holds.
LEMMA CancelStep ==
    ASSUME IInv, NEW id \in DOMAIN book, Cancel(id)
    PROVE  IInv'
<1> DEFINE x == book[id]
           u == x.user
           a == LockAsset(x.side)
           n == Due(x.side, x.price, x.rem)
<1>1. /\ taker = NoOrder /\ book' = Unbind(book, id)
      /\ UNCHANGED <<used, taker, trades, open, known, settled, panicked, deposited>>
  BY DEF Cancel, CancelOrder
<1>2. x \in RestingOrder /\ id \in OrderIds
  BY DEF IInv, TypeOK, BookTypeOK
<1>3. u \in Users /\ a \in Assets /\ n \in Nat
  BY <1>2, OrderTypes, DueType
<1>4. /\ <<u, a>> \in known
      /\ n <= reserve[u][a][id] /\ reserve[u][a][id] <= locked[u][a]
      /\ reserve[u][a][id] \in Nat /\ locked[u][a] \in Nat
  <2>1. <<u, a>> \in known
    BY DEF IInv, PayersAreKnown
  <2>2. ExposureOf(book, taker, u, a, id) = n
    BY DEF ExposureOf, DueOf
  <2>3. ExposureOf(book, taker, u, a, id) + PendingOf(trades, settled, u, a, id) <= reserve[u][a][id]
    BY <1>2, <1>3 DEF IInv, ReservesCover, Exposure, Pending
  <2>4. PendingOf(trades, settled, u, a, id) \in Nat
    BY SharesType DEF IInv, TypeOK, BookTypeOK
  <2>5. reserve[u][a][id] \in Nat /\ locked[u][a] \in Nat
    BY <1>2, <1>3 DEF IInv, TypeOK
  <2>6. reserve[u][a][id] <= locked[u][a]
    BY <1>2, <1>3, ReserveIsLocked DEF IInv
  <2> HIDE DEF n, u, a
  <2>7. QED
    BY <1>3, <2>1, <2>2, <2>3, <2>4, <2>5, <2>6
<1>5. /\ locked' = [locked EXCEPT ![u][a] = @ - n]
      /\ available' = [available EXCEPT ![u][a] = @ + n]
      /\ reserve' = [reserve EXCEPT ![u][a][id] = @ - n]
  <2>1. n <= locked[u][a]
    <3> HIDE DEF n, u, a
    <3>1. QED
      BY <1>3, <1>4
  <2>2. QED
    BY <1>4, <2>1 DEF Cancel
<1>6. DOMAIN book' = DOMAIN book \ {id} /\ \A o \in DOMAIN book' : book'[o] = book[o]
  BY <1>1 DEF Unbind, Restrict
<1> HIDE DEF n, u, a, x
<1>7. TypeOK'
  <2>1. BookTypeOK'
    BY <1>1, <1>6 DEF IInv, TypeOK, BookTypeOK
  <2>2. locked' \in [Users -> [Assets -> Nat]]
    <3>1. locked \in [Users -> [Assets -> Nat]] /\ locked[u][a] - n \in Nat
      BY <1>3, <1>4 DEF IInv, TypeOK
    <3>2. QED
      BY <1>3, <1>5, <3>1
  <2>3. available' \in [Users -> [Assets -> Nat]]
    BY <1>3, <1>5 DEF IInv, TypeOK
  <2>4. reserve' \in [Users -> [Assets -> [OrderIds -> Nat]]]
    <3>1. reserve \in [Users -> [Assets -> [OrderIds -> Nat]]] /\ reserve[u][a][id] - n \in Nat
      BY <1>3, <1>4 DEF IInv, TypeOK
    <3>2. QED
      BY <1>2, <1>3, <1>5, <3>1
  <2>5. QED
    BY <1>1, <2>1, <2>2, <2>3, <2>4 DEF IInv, TypeOK
<1>8. NoPanic'
  BY <1>1 DEF IInv, NoPanic
<1>9. PayersAreKnown'
  BY <1>1, <1>6 DEF IInv, PayersAreKnown
<1>10. ReservesCover'
  <2> SUFFICES ASSUME NEW v \in Users, NEW b \in Assets, NEW o \in OrderIds
               PROVE  ExposureOf(book', taker', v, b, o) + PendingOf(trades, settled, v, b, o)
                        <= reserve'[v][b][o]
    BY <1>1 DEF ReservesCover, Exposure, Pending
  <2>1. /\ ExposureOf(book, taker, v, b, o) \in Nat /\ PendingOf(trades, settled, v, b, o) \in Nat
    <3>1. ExposureOf(book, taker, v, b, o) \in Nat
      BY ExposureType DEF IInv, TypeOK, BookTypeOK
    <3>2. trades \in Seq(Trade) /\ settled \in Nat
      BY DEF IInv, TypeOK, BookTypeOK
    <3>3. PendingOf(trades, settled, v, b, o) \in Nat
      BY <3>2, SharesType
    <3>4. QED
      BY <3>1, <3>3
  <2>2. /\ ExposureOf(book, taker, v, b, o) + PendingOf(trades, settled, v, b, o) <= reserve[v][b][o]
        /\ reserve[v][b][o] \in Nat
    BY DEF IInv, TypeOK, ReservesCover, Exposure, Pending
  <2>3. reserve \in [Users -> [Assets -> [OrderIds -> Nat]]]
    BY DEF IInv, TypeOK
  <2>4. CASE o # id
    <3>1. reserve'[v][b][o] = reserve[v][b][o]
      BY <1>2, <1>3, <1>5, <2>3, <2>4
    <3>2. ExposureOf(book', taker', v, b, o) = ExposureOf(book, taker, v, b, o)
      BY <1>1, <1>6, <2>4 DEF ExposureOf
    <3>3. QED
      BY <2>2, <3>1, <3>2
  <2>5. CASE o = id
    <3>1. ExposureOf(book', taker', v, b, o) = 0
      BY <1>1, <1>6, <2>5 DEF ExposureOf
    <3>2. ExposureOf(book, taker, v, b, o) = IF v = u /\ b = a THEN n ELSE 0
      BY <2>5 DEF ExposureOf, DueOf, n, u, a, x
    <3>3. reserve'[v][b][o] = reserve[v][b][o] - (IF v = u /\ b = a THEN n ELSE 0)
      <4>1. CASE v = u /\ b = a
        BY <1>2, <1>3, <1>5, <2>3, <2>5, <4>1
      <4>2. CASE ~(v = u /\ b = a)
        BY <1>2, <1>3, <1>5, <2>2, <2>3, <2>5, <4>2
      <4>3. QED
        BY <4>1, <4>2
    <3>4. QED
      BY <1>3, <2>1, <2>2, <3>1, <3>2, <3>3
  <2>6. QED
    BY <2>4, <2>5
<1>11. LockedIsReserved'
  <2> SUFFICES ASSUME NEW v \in Users, NEW b \in Assets
               PROVE  locked'[v][b] = Sum(reserve'[v][b])
    BY DEF LockedIsReserved
  <2>1. locked[v][b] = Sum(reserve[v][b])
    BY DEF IInv, LockedIsReserved
  <2>2. CASE v = u /\ b = a
    <3>1. reserve[v][b] \in [OrderIds -> Nat] /\ reserve'[v][b] \in [OrderIds -> Nat]
      BY <1>7 DEF IInv, TypeOK
    <3>2. /\ \A o \in OrderIds \ {id} : reserve'[v][b][o] = reserve[v][b][o]
          /\ reserve'[v][b][id] = reserve[v][b][id] - n
      BY <1>2, <1>3, <1>5, <2>2 DEF IInv, TypeOK
    <3>3. Sum(reserve'[v][b]) = Sum(reserve[v][b]) - reserve[v][b][id] + reserve'[v][b][id]
      BY <1>2, <3>1, <3>2, FiniteAssumption, SumUpdate
    <3>4. locked'[v][b] = locked[v][b] - n
      BY <1>3, <1>5, <2>2 DEF IInv, TypeOK
    <3>5. locked[v][b] \in Nat /\ reserve[v][b][id] \in Nat
      BY <1>4, <2>2
    <3>6. QED
      BY <1>3, <2>1, <3>2, <3>3, <3>4, <3>5
  <2>3. CASE ~(v = u /\ b = a)
    <3>1. locked'[v][b] = locked[v][b] /\ reserve'[v][b] = reserve[v][b]
      BY <1>2, <1>3, <1>5, <2>3 DEF IInv, TypeOK
    <3>2. QED
      BY <2>1, <3>1
  <2>4. QED
    BY <2>2, <2>3
<1>12. MoneyIsConserved'
  <2>1. ASSUME NEW b \in Assets PROVE Holdings(available', locked', b) = Holdings(available, locked, b)
    <3>1. ASSUME NEW v \in Users PROVE available'[v][b] + locked'[v][b] = available[v][b] + locked[v][b]
      BY <1>3, <1>5 DEF IInv, TypeOK
    <3>2. QED
      BY <3>1 DEF Holdings
  <2>2. QED
    BY <1>1, <2>1 DEF IInv, MoneyIsConserved, Holdings
<1>13. QED
  BY <1>7, <1>8, <1>9, <1>10, <1>11, <1>12 DEF IInv

-----------------------------------------------------------------------------
(* The theorems                                                            *)

\* Nothing is locked and nothing is owed at the start.
LEMMA InitEstablishes == Init => IInv
<1> SUFFICES ASSUME Init PROVE IInv
  OBVIOUS
<1>1. /\ book = <<>> /\ used = {} /\ taker = NoOrder /\ trades = <<>> /\ open = TRUE
      /\ known \subseteq Users \X Assets /\ settled = 0 /\ panicked = FALSE
      /\ available \in [Users -> [Assets -> Nat]]
      /\ locked = [u \in Users |-> [a \in Assets |-> 0]]
      /\ reserve = [u \in Users |-> [a \in Assets |-> [o \in OrderIds |-> 0]]]
      /\ deposited = [a \in Assets |-> Sum([u \in Users |-> available[u][a]])]
  <2>1. available \in [Users -> [Assets -> Nat]]
    <3>1. Amounts \cup {0} \subseteq Nat
      BY SupplyAssumption
    <3>2. available \in [Users -> [Assets -> Amounts \cup {0}]]
      BY DEF Init
    <3> DEFINE Supplies == Amounts \cup {0}
    <3> HIDE DEF Supplies
    <3>3. \A u \in Users, a \in Assets : available[u][a] \in Supplies
      BY <3>2 DEF Supplies
    <3>4. Supplies \subseteq Nat
      BY <3>1 DEF Supplies
    <3>5. QED
      BY <3>2, <3>3, <3>4
  <2>2. /\ known \subseteq Users \X Assets /\ settled = 0 /\ panicked = FALSE
        /\ book = <<>> /\ used = {} /\ taker = NoOrder /\ trades = <<>> /\ open = TRUE
    BY DEF Init, EmptyBook
  <2>3. /\ locked = [u \in Users |-> [a \in Assets |-> 0]]
        /\ reserve = [u \in Users |-> [a \in Assets |-> [o \in OrderIds |-> 0]]]
        /\ deposited = [a \in Assets |-> Sum([u \in Users |-> available[u][a]])]
    BY DEF Init
  <2>4. QED
    BY <2>1, <2>2, <2>3
<1>2. <<>> \in Seq(Trade) /\ Len(<<>>) = 0 /\ DOMAIN <<>> = {}
  OBVIOUS
<1>3. \A a \in Assets : Sum([u \in Users |-> available[u][a]]) \in Nat
  <2>1. ASSUME NEW a \in Assets PROVE [u \in Users |-> available[u][a]] \in [Users -> Nat]
    BY <1>1
  <2>2. QED
    BY <2>1, FiniteAssumption, SumType
<1>4. TypeOK
  <2>1. BookTypeOK
    BY <1>1, <1>2 DEF BookTypeOK
  <2>2. locked \in [Users -> [Assets -> Nat]]
    BY <1>1
  <2>3. reserve \in [Users -> [Assets -> [OrderIds -> Nat]]]
    BY <1>1
  <2>4. deposited \in [Assets -> Nat]
    BY <1>1, <1>3
  <2>5. settled \in 0 .. Len(trades) /\ panicked \in BOOLEAN
    <3>1. Len(trades) = 0 /\ settled = 0
      BY <1>1, <1>2
    <3>2. settled \in 0 .. Len(trades)
      BY <3>1
    <3>3. panicked \in BOOLEAN
      BY <1>1, Zenon
    <3>4. QED
      BY <3>2, <3>3
  <2>6. QED
    BY <1>1, <2>1, <2>2, <2>3, <2>4, <2>5 DEF TypeOK
<1>5. NoPanic /\ PayersAreKnown
  BY <1>1, <1>2 DEF NoPanic, PayersAreKnown
<1>6. LockedIsReserved
  <2> SUFFICES ASSUME NEW u \in Users, NEW a \in Assets PROVE locked[u][a] = Sum(reserve[u][a])
    BY DEF LockedIsReserved
  <2>1. locked[u][a] = 0 /\ reserve[u][a] \in [OrderIds -> {0}]
    BY <1>1
  <2>2. QED
    BY <2>1, SumZero
<1>7. ReservesCover
  <2> SUFFICES ASSUME NEW u \in Users, NEW a \in Assets, NEW o \in OrderIds
               PROVE  ExposureOf(book, taker, u, a, o) + PendingOf(trades, settled, u, a, o)
                        <= reserve[u][a][o]
    BY DEF ReservesCover, Exposure, Pending
  <2>1. ExposureOf(book, taker, u, a, o) = 0
    BY <1>1, <1>2 DEF ExposureOf
  <2>2. PendingOf(<<>>, Len(<<>>), u, a, o) = 0
    BY <1>2, PendingNone
  <2>3. reserve[u][a][o] = 0
    BY <1>1
  <2>4. QED
    BY <1>1, <1>2, <2>1, <2>2, <2>3
<1>8. MoneyIsConserved
  <2> SUFFICES ASSUME NEW a \in Assets
               PROVE  Sum([u \in Users |-> available[u][a] + locked[u][a]]) = deposited[a]
    BY DEF MoneyIsConserved
  <2>1. \A u \in Users : available[u][a] + locked[u][a] = available[u][a]
    BY <1>1
  <2>2. [u \in Users |-> available[u][a] + locked[u][a]] = [u \in Users |-> available[u][a]]
    BY <2>1
  <2>3. QED
    BY <1>1, <2>2
<1>9. QED
  BY <1>4, <1>5, <1>6, <1>7, <1>8 DEF IInv

\* Every message the worker handles preserves the invariant, loop by loop.
LEMMA StepPreserves == IInv /\ [Next]_vars => IInv'
<1> SUFFICES ASSUME IInv, [Next]_vars PROVE IInv'
  OBVIOUS
<1>1. CASE \E u \in Users, a \in Assets, amount \in Amounts : Deposit(u, a, amount)
  BY <1>1, DepositStep
<1>2. ASSUME NEW id \in OrderIds, NEW u \in Users, NEW s \in Sides, NEW p \in Prices,
             NEW q \in Quantities, AcceptOrder(id, u, s, p, q) \/ RejectOrder(id, u, s, p, q)
      PROVE  IInv'
  BY <1>2, AcceptStep, RejectStep
<1>3. CASE Match
  BY <1>3, MatchStep, EndPlaceStep DEF Match
<1>4. CASE Settle
  BY <1>4, SettleStep
<1>5. CASE \E id \in DOMAIN book : Cancel(id)
  BY <1>5, CancelStep
<1>6. CASE UNCHANGED vars
  <2>1. UNCHANGED <<book, used, taker, trades, open, known, available, locked, settled,
                    panicked, reserve, deposited>>
    BY <1>6 DEF vars, bookVars, cacheVars
  <2>2. TypeOK'
    BY <2>1 DEF IInv, TypeOK, BookTypeOK
  <2>3. NoPanic' /\ LockedIsReserved' /\ PayersAreKnown' /\ MoneyIsConserved'
    BY <2>1 DEF IInv, NoPanic, LockedIsReserved, PayersAreKnown, MoneyIsConserved
  <2>4. ReservesCover'
    BY <2>1 DEF IInv, ReservesCover, Exposure, Pending, ExposureOf, PendingOf
  <2>5. QED
    BY <2>2, <2>3, <2>4 DEF IInv
<1>7. QED
  BY <1>1, <1>2, <1>3, <1>4, <1>5, <1>6 DEF Next

\* The inductive invariant holds throughout.
LEMMA Invariance == Spec => []IInv
BY InitEstablishes, StepPreserves, PTL DEF Spec

\* The state of the engine is always of its type: in particular no balance,
\* available or locked, is ever negative (worker.go, balance_cache.go).
THEOREM TypeCorrect == Spec => []TypeOK
<1>1. IInv => TypeOK
  BY DEF IInv
<1>2. QED
  BY <1>1, Invariance, PTL

\* No settlement ever fails: the panic of worker.go:236, after which the
\* worker's mutex stays locked, is unreachable in a run that starts from a
\* book without orders.
THEOREM SettlementNeverPanics == Spec => []NoPanic
<1>1. IInv => NoPanic
  BY DEF IInv
<1>2. QED
  BY <1>1, Invariance, PTL

\* Each order holds enough of its owner's locked funds for the trades it has
\* made and, at its limit price, for its open quantity; these holdings are all
\* that is locked; and SettleTrade and UnlockFunds find the accounts they look
\* up.
THEOREM ReservesAlwaysSound == Spec => []ReservesAreSound
<1>1. IInv => ReservesAreSound
  BY DEF IInv, ReservesAreSound
<1>2. QED
  BY <1>1, Invariance, PTL

\* The engine neither creates nor destroys money.
THEOREM Conservation == Spec => []MoneyIsConserved
<1>1. IInv => MoneyIsConserved
  BY DEF IInv
<1>2. QED
  BY <1>1, Invariance, PTL
=============================================================================
