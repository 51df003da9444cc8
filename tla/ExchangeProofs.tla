--------------------------- MODULE ExchangeProofs ---------------------------
(***************************************************************************)
(* What holds of Exchange whatever crashes, fails or is repeated: the      *)
(* database conserves money, no balance is ever negative, and no order is  *)
(* filled beyond its quantity.  And what holds as long as no fault strikes *)
(* between two steps that belong together and no order or deposit is       *)
(* handled twice (clean): the book, the balance cache and the database     *)
(* agree, every transaction is accepted, statuses tell what is on the      *)
(* book, and a finished order stays finished.  Cancellations that are      *)
(* delivered again and commands that overtake others leave clean as it is: *)
(* that they do no harm is part of what is proved.                         *)
(***************************************************************************)
EXTENDS Exchange, SumTheorems, WellFoundedInduction

-----------------------------------------------------------------------------
(* Matching: placing an order takes a well-formed book to a well-formed    *)
(* book, and consumes no more than the order asks for.                     *)

Resting == [user : Users, side : Sides, price : Prices, qty : Quantities, rem : Nat, seq : Nat]

BookOK(b) ==
    /\ IsFiniteSet(DOMAIN b) /\ DOMAIN b \subseteq Nat
    /\ b \in [DOMAIN b -> Resting]
    /\ \A n \in DOMAIN b : b[n].seq = n

TakerOK(b, t) ==
    /\ t.user \in Users /\ t.side \in Sides /\ t.price \in Prices /\ t.qty \in Quantities
    /\ t.rem \in Nat
    /\ t.id \in Nat /\ t.id \notin DOMAIN b /\ t.seq = t.id

\* What stands before m in the queue of t.
Queue(b, t, m) == {n \in Reachable(b, t) : Before(b, n, m)}

\* The orders t can reach are finitely many orders of the book.
LEMMA ReachableOK ==
    ASSUME NEW b, BookOK(b), NEW t
    PROVE  /\ Reachable(b, t) \in SUBSET DOMAIN b /\ IsFiniteSet(Reachable(b, t))
           /\ [n \in Reachable(b, t) |-> b[n].rem] \in [Reachable(b, t) -> Nat]
<1>1. Reachable(b, t) \in SUBSET DOMAIN b
  BY DEF Reachable, Facing
<1>2. \A n \in DOMAIN b : b[n].rem \in Nat
  BY DEF BookOK, Resting
<1> QED  BY <1>1, <1>2, FS_Subset DEF BookOK

\* The queue before m is finite, and ServedBefore is its quantity.
LEMMA QueueOK ==
    ASSUME NEW b, BookOK(b), NEW t, NEW m
    PROVE  /\ IsFiniteSet(Queue(b, t, m))
           /\ [n \in Queue(b, t, m) |-> b[n].rem] \in [Queue(b, t, m) -> Nat]
           /\ ServedBefore(b, t, m) = Sum([n \in Queue(b, t, m) |-> b[n].rem])
           /\ ServedBefore(b, t, m) \in Nat
<1>1. Queue(b, t, m) \in SUBSET Reachable(b, t)
  BY DEF Queue
<1>2. IsFiniteSet(Queue(b, t, m))
  BY <1>1, ReachableOK, FS_Subset
<1>3. \A n \in Queue(b, t, m) : b[n].rem \in Nat
  BY <1>1, ReachableOK DEF BookOK, Resting
<1>4. ServedBefore(b, t, m) = Sum([n \in Queue(b, t, m) |-> b[n].rem])
  BY DEF ServedBefore, Queue
<1> QED  BY <1>2, <1>3, <1>4, SumType

\* What is consumed of an order is at most what it has left.
LEMMA ConsumedOK ==
    ASSUME NEW b, BookOK(b), NEW t, t.rem \in Nat, NEW m \in DOMAIN b
    PROVE  /\ Consumed(b, t, m) \in Nat /\ Consumed(b, t, m) <= b[m].rem
           /\ Consumed(b, t, m) > 0 => ServedBefore(b, t, m) + Consumed(b, t, m) <= t.rem
<1>1. b[m].rem \in Nat
  BY DEF BookOK, Resting
<1>2. ServedBefore(b, t, m) \in Nat
  BY QueueOK
<1> QED  BY <1>1, <1>2 DEF Consumed, Lesser

\* Of two orders t can reach one is served before the other.
LEMMA OneIsFirst ==
    ASSUME NEW b, BookOK(b), NEW t, t.side \in Sides,
           NEW m \in Reachable(b, t), NEW n \in Reachable(b, t), m # n
    PROVE  Before(b, m, n) \/ Before(b, n, m)
<1>1. /\ m \in DOMAIN b /\ n \in DOMAIN b
      /\ b[m].side # t.side /\ b[n].side # t.side
  BY DEF Reachable, Facing
<1>2. /\ b[m].price \in Int /\ b[n].price \in Int /\ b[m].side \in Sides /\ b[n].side \in Sides
      /\ b[m].seq = m /\ b[n].seq = n /\ m \in Nat /\ n \in Nat
  BY <1>1, PositiveAssumption DEF BookOK, Resting
<1>3. b[m].side = b[n].side
  BY <1>1, <1>2 DEF Sides
<1> QED  BY <1>2, <1>3 DEF Before, Better

\* The queue of the later one contains the earlier one and its queue.
LEMMA ServedInOrder ==
    ASSUME NEW b, BookOK(b), NEW t, t.side \in Sides,
           NEW m \in Reachable(b, t), NEW n \in Reachable(b, t), Before(b, m, n)
    PROVE  ServedBefore(b, t, m) + b[m].rem <= ServedBefore(b, t, n)
<1> DEFINE A == Queue(b, t, m)
           B == Queue(b, t, n)
           f == [k \in B |-> b[k].rem]
           g == [k \in A \cup {m} |-> f[k]]
<1>1. \A k \in Reachable(b, t) :
        /\ b[k].price \in Int /\ b[k].side \in Sides /\ b[k].side # t.side /\ b[k].seq \in Nat
  BY PositiveAssumption DEF BookOK, Resting, Reachable, Facing
<1>2. \A j, k \in Reachable(b, t) : b[j].side = b[k].side
  BY <1>1 DEF Sides
<1>3. m \notin A
  BY <1>1 DEF Queue, Before, Better
<1>4. A \cup {m} \subseteq B
  <2>1. ASSUME NEW k \in Reachable(b, t), Before(b, k, m) PROVE Before(b, k, n)
    BY <1>1, <1>2, <2>1 DEF Before, Better, Sides
  <2> QED  BY <2>1 DEF Queue
<1>5. IsFiniteSet(B) /\ f \in [B -> Nat] /\ ServedBefore(b, t, n) = Sum(f) /\ Sum(f) \in Nat
  BY QueueOK
<1>6. IsFiniteSet(A) /\ ServedBefore(b, t, m) = Sum([k \in A |-> b[k].rem])
  BY QueueOK
<1>7. Sum(g) <= Sum(f)
  BY <1>4, <1>5, SumSubset
<1>8. IsFiniteSet(A \cup {m}) /\ g \in [A \cup {m} -> Nat]
  BY <1>4, <1>5, <1>6, FS_AddElement
<1>9. [k \in (A \cup {m}) \ {m} |-> g[k]] = [k \in A |-> b[k].rem]
  BY <1>3, <1>4
<1>10. g[m] = b[m].rem
  BY <1>4
<1>11. m \in A \cup {m}
  OBVIOUS
<1> HIDE DEF f, g, A
<1>12. Sum(g) = Sum([k \in (A \cup {m}) \ {m} |-> g[k]]) + g[m]
  BY <1>8, <1>11, SumSplit
<1> QED  BY <1>5, <1>6, <1>7, <1>9, <1>10, <1>12

\* No order is filled beyond its quantity: each unit consumed takes a place of
\* its own in the quantity of t.
LEMMA NeverOverfilled ==
    ASSUME NEW b, BookOK(b), NEW t, t.side \in Sides, t.rem \in Nat
    PROVE  Sum([m \in Reachable(b, t) |-> Consumed(b, t, m)]) \in 0 .. t.rem
<1> DEFINE R == Reachable(b, t)
           c == [m \in R |-> Consumed(b, t, m)]
           phi == [e \in Units(c) |-> ServedBefore(b, t, e[1]) + e[2]]
<1>1. IsFiniteSet(R) /\ R \subseteq DOMAIN b
  BY ReachableOK
<1>2. c \in [R -> Nat]
  BY <1>1, ConsumedOK
<1> HIDE DEF R, c
<1>3. ASSUME NEW e \in Units(c)
      PROVE  e = <<e[1], e[2]>> /\ e[1] \in R /\ e[2] \in 1 .. c[e[1]]
  BY <1>2 DEF Units
<1>4. \A m \in R : /\ ServedBefore(b, t, m) \in Nat /\ c[m] \in Nat /\ c[m] <= b[m].rem
                   /\ b[m].rem \in Nat
                   /\ c[m] > 0 => ServedBefore(b, t, m) + c[m] <= t.rem
  BY <1>1, QueueOK, ConsumedOK DEF c, BookOK, Resting
<1>5. phi \in Injection(Units(c), 1 .. t.rem)
  <2>1. ASSUME NEW e \in Units(c) PROVE phi[e] \in 1 .. t.rem
    <3> DEFINE s == ServedBefore(b, t, e[1])
    <3>1. e[1] \in R /\ e[2] \in 1 .. c[e[1]]
      BY <1>3
    <3>2. c[e[1]] \in Nat /\ s \in Nat /\ (c[e[1]] > 0 => s + c[e[1]] <= t.rem)
      BY <1>4, <3>1
    <3>3. s + e[2] \in 1 .. t.rem
      BY <3>1, <3>2
    <3> QED  BY <3>3
  <2>2. ASSUME NEW d \in Units(c), NEW e \in Units(c), Before(b, d[1], e[1])
        PROVE  phi[d] # phi[e]
    <3>1. d[1] \in R /\ e[1] \in R /\ d[2] \in 1 .. c[d[1]] /\ e[2] \in 1 .. c[e[1]]
      BY <1>3
    <3>2. ServedBefore(b, t, d[1]) + b[d[1]].rem <= ServedBefore(b, t, e[1])
      BY <2>2, <3>1, ServedInOrder DEF R
    <3>3. /\ ServedBefore(b, t, d[1]) \in Nat /\ ServedBefore(b, t, e[1]) \in Nat
          /\ c[d[1]] \in Nat /\ c[d[1]] <= b[d[1]].rem /\ b[d[1]].rem \in Nat
          /\ c[e[1]] \in Nat
      BY <1>4, <3>1
    <3>4. ServedBefore(b, t, d[1]) + d[2] < ServedBefore(b, t, e[1]) + e[2]
      BY <3>1, <3>2, <3>3
    <3>5. ServedBefore(b, t, d[1]) + d[2] # ServedBefore(b, t, e[1]) + e[2]
      BY <3>1, <3>3, <3>4
    <3> QED  BY <3>5
  <2>3. ASSUME NEW d \in Units(c), NEW e \in Units(c), phi[d] = phi[e] PROVE d = e
    <3>1. d[1] = e[1]
      BY <1>3, <2>2, <2>3, OneIsFirst DEF R
    <3>2. ServedBefore(b, t, d[1]) + d[2] = ServedBefore(b, t, d[1]) + e[2]
      BY <2>3, <3>1
    <3>3. /\ ServedBefore(b, t, d[1]) \in Nat /\ c[d[1]] \in Nat /\ c[e[1]] \in Nat
          /\ d[2] \in 1 .. c[d[1]] /\ e[2] \in 1 .. c[e[1]]
      BY <1>3, <1>4
    <3>4. d[2] = e[2]
      BY <3>2, <3>3
    <3> QED  BY <1>3, <3>1, <3>4
  <2> QED  BY <2>1, <2>3 DEF Injection, IsInjective
<1>6. IsFiniteSet(1 .. t.rem) /\ Cardinality(1 .. t.rem) = t.rem
  BY FS_Interval
<1>7. Sum(c) <= t.rem
  BY <1>5, <1>6, FS_Injection DEF Sum
<1>8. Sum(c) \in Nat
  BY <1>1, <1>2, SumType DEF R
<1>9. Sum(c) \in 0 .. t.rem
  BY <1>7, <1>8
<1> QED  BY <1>9 DEF c, R

\* Placing t keeps the book well-formed and puts nothing but t on it.
LEMMA OutcomeOK ==
    ASSUME NEW b, BookOK(b), NEW t, TakerOK(b, t)
    PROVE  BookOK(Outcome(b, t)) /\ DOMAIN Outcome(b, t) \subseteq DOMAIN b \cup {t.id}
<1> DEFINE survivors == {m \in DOMAIN b : Consumed(b, t, m) < b[m].rem}
           others == [m \in survivors |-> [b[m] EXCEPT !.rem = @ - Consumed(b, t, m)]]
           left == Leftover(b, t)
<1>1. left \in Nat
  BY NeverOverfilled DEF Leftover, TakerOK
<1>2. ASSUME NEW m \in survivors
      PROVE  others[m] \in Resting /\ others[m].seq = m
  <2>1. b[m] \in Resting /\ b[m].seq = m
    BY DEF BookOK
  <2>2. Consumed(b, t, m) \in Nat /\ Consumed(b, t, m) <= b[m].rem /\ b[m].rem \in Nat
    BY <2>1, ConsumedOK DEF TakerOK, Resting
  <2>3. b[m].rem - Consumed(b, t, m) \in Nat
    BY <2>2
  <2> QED  BY <2>1, <2>3 DEF Resting
<1>3. IsFiniteSet(survivors)
  BY FS_Subset DEF BookOK
<1>4. BookOK(others)
  BY <1>2, <1>3 DEF BookOK
<1>5. CASE left = 0
  BY <1>4, <1>5 DEF Outcome
<1>6. CASE left # 0
  <2> DEFINE r == AsResting(t, left)
  <2>1. Outcome(b, t) = Bind(others, t.id, r)
    BY <1>6 DEF Outcome
  <2>2. r \in Resting /\ r.seq = t.id
    BY <1>1 DEF AsResting, TakerOK, Resting
  <2>3. IsFiniteSet(survivors \cup {t.id}) /\ t.id \in Nat
    BY <1>3, FS_AddElement DEF TakerOK
  <2> HIDE DEF r, others, left
  <2>4. DOMAIN others = survivors
    BY DEF others
  <2>5. BookOK(Bind(others, t.id, r)) /\ DOMAIN Bind(others, t.id, r) = survivors \cup {t.id}
    BY <1>4, <2>2, <2>3, <2>4 DEF Bind, BookOK
  <2> QED  BY <2>1, <2>5
<1> QED  BY <1>5, <1>6

\* A finite set of numbers has a greatest member.
LEMMA MaxOfFinite ==
    ASSUME NEW S \in SUBSET Nat, IsFiniteSet(S), S # {}
    PROVE  Max(S) \in S /\ \A n \in S : n <= Max(S)
<1> DEFINE f == [n \in S |-> n]
           Bounds == {k \in Nat : \A n \in S : n <= k}
<1>1. f \in [S -> Nat] /\ Sum(f) \in Nat
  BY SumType
<1>2. \A n \in S : f[n] <= Sum(f)
  BY <1>1, SumMember
<1>3. Sum(f) \in Bounds
  BY <1>1, <1>2
<1>4. PICK k \in Bounds : \A j \in Bounds : ~(j < k)
  <2>1. PICK k \in Bounds : \A j \in Bounds : <<j, k>> \notin OpToRel(<, Nat)
    BY <1>3, WFMin, NatLessThanWellFounded
  <2> QED  BY <2>1 DEF OpToRel
<1>5. k \in S
  <2>1. PICK n \in S : TRUE
    OBVIOUS
  <2>2. SUFFICES ASSUME k \notin S PROVE FALSE
    OBVIOUS
  <2>3. \A i \in S : i \in Nat /\ i < k
    BY <1>4, <2>2
  <2>4. k - 1 \in Nat /\ \A i \in S : i <= k - 1
    BY <1>4, <2>1, <2>3
  <2> QED  BY <1>4, <2>4
<1>6. \E x \in S : \A y \in S : x >= y
  BY <1>4, <1>5
<1>7. Max(S) \in S /\ \A y \in S : Max(S) >= y
  BY <1>6 DEF Max
<1> QED  BY <1>7

-----------------------------------------------------------------------------
(* PostgreSQL: every statement leaves well-formed tables, and none changes *)
(* the total of an asset but a deposit.                                    *)

Row == [user : Users, side : Sides, price : Prices, qty : Quantities, status : Statuses]
Balances == [Users -> [Assets -> Nat]]

TablesOK(d) ==
    /\ DOMAIN d = {"orders", "available", "locked", "trades"}
    /\ DOMAIN d.orders \subseteq OrderIds
    /\ d.orders \in [DOMAIN d.orders -> Row]
    /\ d.available \in Balances /\ d.locked \in Balances

Total(d, a) == Sum([u \in Users |-> d.available[u][a] + d.locked[u][a]])

\* From d to e no row of orders and no money goes missing.
Keeps(d, e) ==
    /\ TablesOK(e)
    /\ DOMAIN e.orders = DOMAIN d.orders
    /\ \A a \in Assets : Total(e, a) = Total(d, a)

\* Only balances count for the total.
LEMMA OrdersOnly ==
    ASSUME NEW d, TablesOK(d), NEW e, DOMAIN e = DOMAIN d,
           e.available = d.available, e.locked = d.locked,
           DOMAIN e.orders = DOMAIN d.orders, e.orders \in [DOMAIN e.orders -> Row]
    PROVE  Keeps(d, e)
BY DEF Keeps, TablesOK, Total

\* Setting one status: UpdateOrderStatus.
LEMMA StatusKeeps ==
    ASSUME NEW d, TablesOK(d), NEW id \in DOMAIN d.orders, NEW s
    PROVE  Keeps(d, UpdateOrderStatus(d, id, s))
<1> DEFINE e == UpdateOrderStatus(d, id, s)
<1>1. StatusInDB(s) \in Statuses
  BY DEF StatusInDB, Statuses
<1>2. /\ DOMAIN e = DOMAIN d /\ e.available = d.available /\ e.locked = d.locked
      /\ e.orders = [d.orders EXCEPT ![id].status = StatusInDB(s)]
  BY DEF UpdateOrderStatus, TablesOK
<1>3. e.orders \in [DOMAIN d.orders -> Row]
  BY <1>1, <1>2 DEF TablesOK, Row
<1> QED  BY <1>2, <1>3, OrdersOnly

\* Setting the statuses of the makers: UpdateOrderStatusesBatch.
LEMMA StatusesKeep ==
    ASSUME NEW d, TablesOK(d), NEW status
    PROVE  Keeps(d, UpdateOrderStatusesBatch(d, status))
<1> DEFINE e == UpdateOrderStatusesBatch(d, status)
<1>1. \A s : StatusInDB(s) \in Statuses
  BY DEF StatusInDB, Statuses
<1>2. /\ DOMAIN e = DOMAIN d /\ e.available = d.available /\ e.locked = d.locked
      /\ e.orders = [id \in DOMAIN d.orders |->
           IF id \in DOMAIN status THEN [d.orders[id] EXCEPT !.status = StatusInDB(status[id])]
           ELSE d.orders[id]]
  BY DEF UpdateOrderStatusesBatch, TablesOK
<1>3. e.orders \in [DOMAIN d.orders -> Row]
  BY <1>1, <1>2 DEF TablesOK, Row
<1> QED  BY <1>2, <1>3, OrdersOnly

\* New trades leave rows and balances alone: CreateTradesBatch.
LEMMA TradesKeep ==
    ASSUME NEW d, TablesOK(d), NEW keys, CreateTradesBatch(d, keys) # Refused
    PROVE  Keeps(d, CreateTradesBatch(d, keys))
<1> DEFINE e == [d EXCEPT !.trades = @ \cup Range(keys)]
<1>1. CreateTradesBatch(d, keys) = e
  BY DEF CreateTradesBatch
<1>2. /\ DOMAIN e = DOMAIN d /\ e.available = d.available /\ e.locked = d.locked
      /\ e.orders = d.orders
  BY DEF TablesOK
<1> QED  BY <1>1, <1>2, OrdersOnly DEF TablesOK

\* What the constraint lets through is a table of naturals.
LEMMA SolventIsNat ==
    ASSUME NEW held \in [Users -> [Assets -> Int]], Solvent(held)
    PROVE  held \in Balances
BY DEF Solvent, Balances

\* Moved changes one entry.
LEMMA MovedType ==
    ASSUME NEW held \in Balances, NEW u \in Users, NEW a \in Assets, NEW n \in Int
    PROVE  /\ Moved(held, u, a, n) \in [Users -> [Assets -> Int]]
           /\ \A v \in Users, b \in Assets :
                Moved(held, u, a, n)[v][b] = held[v][b] + (IF v = u /\ b = a THEN n ELSE 0)
BY DEF Moved, Balances

\* Locking and unlocking move money from one column to the other.
LEMMA TransferKeeps ==
    ASSUME NEW d, TablesOK(d), NEW u \in Users, NEW a \in Assets, NEW n \in Int,
           NEW e, DOMAIN e = DOMAIN d, e.orders = d.orders,
           e.available = Moved(d.available, u, a, n), e.locked = Moved(d.locked, u, a, -n),
           Solvent(e.available), Solvent(e.locked)
    PROVE  Keeps(d, e)
<1>1. e.available \in Balances /\ e.locked \in Balances
  BY MovedType, SolventIsNat DEF TablesOK
<1>2. \A v \in Users, b \in Assets :
        e.available[v][b] + e.locked[v][b] = d.available[v][b] + d.locked[v][b]
  <2> TAKE v \in Users, b \in Assets
  <2>1. d.available[v][b] \in Nat /\ d.locked[v][b] \in Nat
    BY DEF TablesOK, Balances
  <2>2. d.available \in Balances /\ d.locked \in Balances /\ -n \in Int
    BY DEF TablesOK
  <2>3. Moved(d.available, u, a, n)[v][b]
          = d.available[v][b] + (IF v = u /\ b = a THEN n ELSE 0)
    BY <2>2 DEF Moved, Balances
  <2>4. Moved(d.locked, u, a, -n)[v][b]
          = d.locked[v][b] + (IF v = u /\ b = a THEN -n ELSE 0)
    BY <2>2 DEF Moved, Balances
  <2> QED  BY <2>1, <2>3, <2>4
<1>3. \A b \in Assets : Total(e, b) = Total(d, b)
  BY <1>2 DEF Total
<1> QED  BY <1>1, <1>3 DEF Keeps, TablesOK

\* UpdateBalanceLock.
LEMMA LockKeeps ==
    ASSUME NEW d, TablesOK(d), NEW u \in Users, NEW a \in Assets, NEW n \in Int,
           UpdateBalanceLock(d, u, a, n) # Refused
    PROVE  Keeps(d, UpdateBalanceLock(d, u, a, n))
<1> DEFINE e == [d EXCEPT !.available = Moved(@, u, a, -n), !.locked = Moved(@, u, a, n)]
<1>1. UpdateBalanceLock(d, u, a, n) = e /\ Solvent(e.available) /\ Solvent(e.locked)
  BY DEF UpdateBalanceLock, Checked
<1>2. /\ DOMAIN e = DOMAIN d /\ e.orders = d.orders
      /\ e.available = Moved(d.available, u, a, -n)
      /\ e.locked = Moved(d.locked, u, a, n)
  BY DEF TablesOK
<1>3. -n \in Int /\ n = -(-n)
  OBVIOUS
<1> HIDE DEF e
<1>4. e.locked = Moved(d.locked, u, a, -(-n))
  BY <1>2, <1>3
<1> QED  BY <1>1, <1>2, <1>3, <1>4, TransferKeeps

\* UpdateBalanceUnlock.
LEMMA UnlockKeeps ==
    ASSUME NEW d, TablesOK(d), NEW u \in Users, NEW a \in Assets, NEW n \in Int,
           UpdateBalanceUnlock(d, u, a, n) # Refused
    PROVE  Keeps(d, UpdateBalanceUnlock(d, u, a, n))
<1> DEFINE e == [d EXCEPT !.available = Moved(@, u, a, n), !.locked = Moved(@, u, a, -n)]
<1>1. UpdateBalanceUnlock(d, u, a, n) = e /\ Solvent(e.available) /\ Solvent(e.locked)
  BY DEF UpdateBalanceUnlock, Checked
<1>2. /\ DOMAIN e = DOMAIN d /\ e.orders = d.orders
      /\ e.available = Moved(d.available, u, a, n)
      /\ e.locked = Moved(d.locked, u, a, -n)
  BY DEF TablesOK
<1> HIDE DEF e
<1> QED  BY <1>1, <1>2, TransferKeeps

\* Equal credits and debits leave the total as it was.
LEMMA TotalMoved ==
    ASSUME NEW d, TablesOK(d), NEW e, e.available \in Balances, e.locked \in Balances,
           NEW credit \in Balances, NEW debit \in Balances, NEW a \in Assets,
           \A u \in Users : /\ e.available[u][a] = d.available[u][a] + credit[u][a]
                            /\ e.locked[u][a] = d.locked[u][a] - debit[u][a],
           Sum([u \in Users |-> credit[u][a]]) = Sum([u \in Users |-> debit[u][a]])
    PROVE  Total(e, a) = Total(d, a)
<1> DEFINE old == [u \in Users |-> d.available[u][a] + d.locked[u][a]]
           new == [u \in Users |-> e.available[u][a] + e.locked[u][a]]
           came == [u \in Users |-> credit[u][a]]
           went == [u \in Users |-> debit[u][a]]
<1>1. \A u \in Users : /\ d.available[u][a] \in Nat /\ d.locked[u][a] \in Nat
                       /\ e.available[u][a] \in Nat /\ e.locked[u][a] \in Nat
                       /\ credit[u][a] \in Nat /\ debit[u][a] \in Nat
  BY DEF Balances, TablesOK
<1>2. /\ old \in [Users -> Nat] /\ new \in [Users -> Nat]
      /\ came \in [Users -> Nat] /\ went \in [Users -> Nat]
  BY <1>1
<1>3. \A u \in Users : new[u] + went[u] = old[u] + came[u]
  BY <1>1
<1>4. Sum(came) = Sum(went)
  OBVIOUS
<1>5. IsFiniteSet(Users)
  BY FiniteAssumption
<1> HIDE DEF old, new, came, went
<1>6. Sum(new) = Sum(old)
  BY <1>2, <1>3, <1>4, <1>5, SumMoved
<1> QED  BY <1>6 DEF old, new, Total

\* A batch whose credits and debits are equal for every asset keeps the totals.
LEMMA BatchKeeps ==
    ASSUME NEW d, TablesOK(d),
           NEW credit \in Balances, NEW debit \in Balances,
           NEW avail, avail = credit,
           NEW lock, lock = [u \in Users |-> [a \in Assets |-> -debit[u][a]]],
           \A a \in Assets : Sum([u \in Users |-> credit[u][a]]) = Sum([u \in Users |-> debit[u][a]]),
           BatchUpdateBalances(d, avail, lock) # Refused
    PROVE  Keeps(d, BatchUpdateBalances(d, avail, lock))
<1> DEFINE e == [d EXCEPT !.available = Changed(@, avail), !.locked = Changed(@, lock)]
<1>1. BatchUpdateBalances(d, avail, lock) = e /\ Solvent(e.available) /\ Solvent(e.locked)
  BY DEF BatchUpdateBalances, Checked
<1>2. /\ DOMAIN e = DOMAIN d /\ e.orders = d.orders
      /\ e.available = Changed(d.available, avail) /\ e.locked = Changed(d.locked, lock)
  BY DEF TablesOK
<1> HIDE DEF e
<1>3. ASSUME NEW u \in Users, NEW a \in Assets
      PROVE  /\ e.available[u][a] = d.available[u][a] + credit[u][a]
             /\ e.locked[u][a] = d.locked[u][a] - debit[u][a]
             /\ d.available[u][a] \in Nat /\ d.locked[u][a] \in Nat
             /\ credit[u][a] \in Nat /\ debit[u][a] \in Nat
  BY <1>2 DEF Changed, TablesOK, Balances
<1>4. e.available \in Balances /\ e.locked \in Balances
  <2>1. /\ e.available \in [Users -> [Assets -> Int]]
        /\ e.locked \in [Users -> [Assets -> Int]]
    BY <1>2, <1>3 DEF Changed
  <2> QED  BY <1>1, <2>1, SolventIsNat
<1>5. ASSUME NEW a \in Assets PROVE Total(e, a) = Total(d, a)
  <2>1. \A u \in Users : /\ e.available[u][a] = d.available[u][a] + credit[u][a]
                         /\ e.locked[u][a] = d.locked[u][a] - debit[u][a]
    BY <1>3
  <2>2. Sum([u \in Users |-> credit[u][a]]) = Sum([u \in Users |-> debit[u][a]])
    OBVIOUS
  <2> QED  BY <1>4, <2>1, <2>2, TotalMoved
<1> QED  BY <1>1, <1>2, <1>4, <1>5 DEF Keeps, TablesOK

-----------------------------------------------------------------------------
(* The payments of a fill go from one party to the other.                  *)

FillOK(f) == f.user \in Users /\ f.price \in Nat /\ f.qty \in Nat

Leg(l) == l.from \in Users /\ l.to \in Users /\ l.asset \in Assets /\ l.amount \in Nat

\* An amount is a natural number.
LEMMA NotionalType ==
    ASSUME NEW p \in Nat, NEW q \in Nat
    PROVE  Notional(p, q) \in Nat
<1>1. p * q \in Nat
  OBVIOUS
<1> QED  BY <1>1, DivBound, PositiveAssumption DEF Notional

\* The payments of finitely many fills are finitely many, from user to user.
LEMMA LegsOK ==
    ASSUME NEW r \in Row, NEW F, IsFiniteSet(F), \A f \in F : FillOK(f)
    PROVE  IsFiniteSet(Legs(r, F)) /\ \A l \in Legs(r, F) : Leg(l)
<1> DEFINE buyer(f) == IF r.side = "BUY" THEN r.user ELSE f.user
           seller(f) == IF r.side = "BUY" THEN f.user ELSE r.user
           quote(f) == [n |-> f.n, asset |-> "USD", amount |-> Notional(f.price, f.qty),
                        from |-> buyer(f), to |-> seller(f)]
           base(f) == [n |-> f.n, asset |-> "BTC", amount |-> f.qty,
                       from |-> seller(f), to |-> buyer(f)]
           Q == {quote(f) : f \in F}
           B == {base(f) : f \in F}
<1>1. Legs(r, F) = Q \cup B
  BY DEF Legs
<1>2. ASSUME NEW f \in F PROVE Leg(quote(f)) /\ Leg(base(f))
  <2>1. Notional(f.price, f.qty) \in Nat
    BY NotionalType DEF FillOK
  <2>2. r.user \in Users
    BY DEF Row
  <2> QED  BY <2>1, <2>2 DEF Leg, FillOK, Assets
<1>3. IsFiniteSet(Q)
  <2> DEFINE g == [f \in F |-> quote(f)]
  <2>1. g \in Surjection(F, Q)
    BY DEF Surjection
  <2> QED  BY <2>1, FS_Surjection
<1>4. IsFiniteSet(B)
  <2> DEFINE g == [f \in F |-> base(f)]
  <2>1. g \in Surjection(F, B)
    BY DEF Surjection
  <2> QED  BY <2>1, FS_Surjection
<1>5. IsFiniteSet(Q \cup B)
  BY <1>3, <1>4, FS_Union
<1>6. \A l \in Q \cup B : Leg(l)
  BY <1>2
<1> QED  BY <1>1, <1>5, <1>6

\* What is received of an asset is what is paid of it: each leg counts once on
\* either side.
LEMMA LegsBalance ==
    ASSUME NEW legs, IsFiniteSet(legs), \A l \in legs : Leg(l)
    PROVE  /\ Credits(legs) \in Balances
           /\ [u \in Users |-> [a \in Assets |-> Paid(legs, u, a)]] \in Balances
           /\ \A a \in Assets : Sum([u \in Users |-> Received(legs, u, a)])
                                  = Sum([u \in Users |-> Paid(legs, u, a)])
<1>1. ASSUME NEW a \in Assets
      PROVE  /\ [u \in Users |-> Received(legs, u, a)] \in [Users -> Nat]
             /\ [u \in Users |-> Paid(legs, u, a)] \in [Users -> Nat]
             /\ Sum([u \in Users |-> Received(legs, u, a)])
                  = Sum([u \in Users |-> Paid(legs, u, a)])
  <2> DEFINE S == {l \in legs : l.asset = a}
             f == [l \in S |-> l.amount]
             to == [l \in S |-> l.to]
             from == [l \in S |-> l.from]
  <2>1. IsFiniteSet(S) /\ f \in [S -> Nat] /\ to \in [S -> Users] /\ from \in [S -> Users]
    BY FS_Subset DEF Leg
  <2>2. \A u \in Users : Received(legs, u, a) = Sum([l \in {l \in S : to[l] = u} |-> f[l]])
    <3> TAKE u \in Users
    <3>1. {l \in S : to[l] = u} = {l \in legs : l.to = u /\ l.asset = a}
      OBVIOUS
    <3>2. \A l \in {l \in S : to[l] = u} : f[l] = l.amount
      OBVIOUS
    <3> HIDE DEF S, f, to
    <3>3. [l \in {l \in S : to[l] = u} |-> f[l]]
            = [l \in {l \in legs : l.to = u /\ l.asset = a} |-> l.amount]
      BY <3>1, <3>2
    <3> QED  BY <3>3 DEF Received
  <2>3. \A u \in Users : Paid(legs, u, a) = Sum([l \in {l \in S : from[l] = u} |-> f[l]])
    <3> TAKE u \in Users
    <3>1. {l \in S : from[l] = u} = {l \in legs : l.from = u /\ l.asset = a}
      OBVIOUS
    <3>2. \A l \in {l \in S : from[l] = u} : f[l] = l.amount
      OBVIOUS
    <3> HIDE DEF S, f, from
    <3>3. [l \in {l \in S : from[l] = u} |-> f[l]]
            = [l \in {l \in legs : l.from = u /\ l.asset = a} |-> l.amount]
      BY <3>1, <3>2
    <3> QED  BY <3>3 DEF Paid
  <2> HIDE DEF S, f, to, from
  <2>4. /\ [u \in Users |-> Sum([l \in {l \in S : to[l] = u} |-> f[l]])] \in [Users -> Nat]
        /\ Sum([u \in Users |-> Sum([l \in {l \in S : to[l] = u} |-> f[l]])]) = Sum(f)
    BY <2>1, FiniteAssumption, SumPartition
  <2>5. /\ [u \in Users |-> Sum([l \in {l \in S : from[l] = u} |-> f[l]])] \in [Users -> Nat]
        /\ Sum([u \in Users |-> Sum([l \in {l \in S : from[l] = u} |-> f[l]])]) = Sum(f)
    BY <2>1, FiniteAssumption, SumPartition
  <2>6. [u \in Users |-> Received(legs, u, a)]
          = [u \in Users |-> Sum([l \in {l \in S : to[l] = u} |-> f[l]])]
    BY <2>2
  <2>7. [u \in Users |-> Paid(legs, u, a)]
          = [u \in Users |-> Sum([l \in {l \in S : from[l] = u} |-> f[l]])]
    BY <2>3
  <2> QED  BY <2>4, <2>5, <2>6, <2>7
<1>2. \A u \in Users, a \in Assets : Received(legs, u, a) \in Nat /\ Paid(legs, u, a) \in Nat
  BY <1>1
<1> QED  BY <1>1, <1>2 DEF Credits, Balances

-----------------------------------------------------------------------------
(* The inductive invariant                                                 *)

DbInv ==
    /\ TablesOK(db)
    /\ deposited \in [Assets -> Nat]
    /\ DatabaseConserves

Messages ==
    [type : {"OrderPlaced", "OrderCancelRequested"}, id : OrderIds]
    \cup [type : {"DepositCreated"}, user : Users, asset : Assets, amount : Nat]

\* Commands are about orders that are in the database.
TopicInv ==
    /\ topic \in Seq(Messages)
    /\ \A i \in 1 .. Len(topic) :
         topic[i].type # "DepositCreated" => topic[i].id \in DOMAIN db.orders
    /\ handled \in 0 .. Len(topic)

\* The id map leads to nodes of the book, each of which knows its id.
MemoryInv ==
    /\ BookOK(book)
    /\ node \in [DOMAIN book -> OrderIds]
    /\ \A id \in DOMAIN orders : orders[id] \in DOMAIN book /\ node[orders[id]] = id
    /\ available \in Balances /\ locked \in Balances

PendingInv ==
    pending # NoTx =>
        /\ handled < Len(topic)
        /\ pending.kind \in {"place", "cancel"}
        /\ pending.id \in DOMAIN db.orders
        /\ pending.amount \in Nat
        /\ IsFiniteSet(pending.fills) /\ \A f \in pending.fills : FillOK(f)

ModeInv == mode \in {"down", "rebuilt", "up", "stuck", "dead"} /\ clean \in BOOLEAN

IInv == DbInv /\ TopicInv /\ MemoryInv /\ PendingInv /\ ModeInv

\* What may be published again is such a command, too.
SentInv ==
    /\ sent \subseteq Messages
    /\ \A c \in sent : c.type # "DepositCreated" => c.id \in DOMAIN db.orders

\* Nobody has anything.
LEMMA ZerosOK == Zeros \in Balances
BY DEF Zeros, Balances

\* A process without memory.
LEMMA ForgottenOK == Forget => MemoryInv' /\ PendingInv' /\ mode' = "down"
<1> SUFFICES ASSUME Forget PROVE MemoryInv' /\ PendingInv' /\ mode' = "down"
  OBVIOUS
<1> USE DEF Forget
<1>1. DOMAIN book' = {} /\ DOMAIN orders' = {} /\ DOMAIN node' = {}
  OBVIOUS
<1>2. BookOK(book')
  BY <1>1, FS_EmptySet DEF BookOK
<1>3. node' \in [DOMAIN book' -> OrderIds]
  BY <1>1
<1>4. MemoryInv'
  BY <1>1, <1>2, <1>3, ZerosOK DEF MemoryInv
<1> QED  BY <1>4 DEF PendingInv

\* The opening balances are the first deposits.
LEMMA ExchangeInit == Init => IInv
<1> SUFFICES ASSUME Init PROVE IInv
  OBVIOUS
<1> USE DEF Init
<1>1. Opening \in Balances
  BY OfferAssumption DEF Balances
<1>2. TablesOK(db)
  <2>1. DOMAIN db = {"orders", "available", "locked", "trades"} /\ DOMAIN db.orders = {}
    OBVIOUS
  <2>2. db.orders \in [DOMAIN db.orders -> Row]
    BY <2>1
  <2> QED  BY <1>1, <2>1, <2>2, ZerosOK DEF TablesOK
<1>3. ASSUME NEW a \in Assets
      PROVE  /\ deposited[a] = Sum([u \in Users |-> Opening[u][a]])
             /\ deposited[a] \in Nat
             /\ Sum([u \in Users |-> db.available[u][a] + db.locked[u][a]]) = deposited[a]
  <2>1. [u \in Users |-> Opening[u][a]] \in [Users -> Nat]
    BY <1>1 DEF Balances
  <2>2. deposited[a] = Sum([u \in Users |-> Opening[u][a]])
    OBVIOUS
  <2>3. deposited[a] \in Nat
    BY <2>1, <2>2, FiniteAssumption, SumType
  <2>4. \A u \in Users : db.available[u][a] + db.locked[u][a] = Opening[u][a]
    BY <1>1 DEF Balances, Zeros
  <2>5. [u \in Users |-> db.available[u][a] + db.locked[u][a]] = [u \in Users |-> Opening[u][a]]
    BY <2>4
  <2> QED  BY <2>2, <2>3, <2>5
<1>4. DbInv
  BY <1>2, <1>3 DEF DbInv, DatabaseConserves
<1>5. TopicInv
  <2>1. topic \in Seq(Messages) /\ Len(topic) = 0
    OBVIOUS
  <2> QED  BY <2>1 DEF TopicInv
<1>6. MemoryInv
  <2>1. DOMAIN book = {} /\ DOMAIN orders = {}
    OBVIOUS
  <2>2. BookOK(book) /\ node \in [DOMAIN book -> OrderIds]
    BY <2>1, FS_EmptySet DEF BookOK
  <2> QED  BY <2>1, <2>2, ZerosOK DEF MemoryInv
<1> QED  BY <1>4, <1>5, <1>6 DEF IInv, PendingInv, ModeInv

-----------------------------------------------------------------------------
(* The steps                                                               *)

\* As long as no row of orders goes missing, what speaks of rows stays true.
LEMMA RowsStay ==
    ASSUME PendingInv, TopicInv, DOMAIN db.orders \subseteq DOMAIN db'.orders,
           UNCHANGED <<topic, handled>>
    PROVE  TopicInv' /\ (UNCHANGED pending => PendingInv')
BY DEF PendingInv, TopicInv

\* A transaction that keeps rows and money keeps the invariant of the database.
LEMMA DbKept ==
    ASSUME DbInv, Keeps(db, db'), UNCHANGED deposited
    PROVE  DbInv' /\ DOMAIN db.orders \subseteq DOMAIN db'.orders
<1>1. TablesOK(db') /\ DOMAIN db'.orders = DOMAIN db.orders
  BY DEF Keeps
<1>2. \A a \in Assets : Total(db', a) = Total(db, a)
  BY DEF Keeps
<1>3. DatabaseConserves'
  BY <1>2 DEF DbInv, DatabaseConserves, Total
<1> QED  BY <1>1, <1>3 DEF DbInv

\* A command about an order of the database may join the topic.
LEMMA AppendOK ==
    ASSUME NEW c \in Messages, topic \in Seq(Messages), handled \in 0 .. Len(topic),
           topic' = Append(topic, c), UNCHANGED handled,
           \A i \in 1 .. Len(topic) :
             topic[i].type # "DepositCreated" => topic[i].id \in DOMAIN db'.orders,
           c.type # "DepositCreated" => c.id \in DOMAIN db'.orders
    PROVE  TopicInv' /\ (handled < Len(topic) => handled' < Len(topic'))
<1>1. topic' \in Seq(Messages) /\ Len(topic') = Len(topic) + 1
  OBVIOUS
<1>2. \A i \in 1 .. Len(topic) : topic'[i] = topic[i]
  OBVIOUS
<1>3. topic'[Len(topic) + 1] = c
  OBVIOUS
<1>4. Len(topic) \in Nat
  OBVIOUS
<1>5. \A i \in 1 .. Len(topic') : i \in 1 .. Len(topic) \/ i = Len(topic) + 1
  BY <1>1, <1>4
<1>6. \A i \in 1 .. Len(topic') :
        topic'[i].type # "DepositCreated" => topic'[i].id \in DOMAIN db'.orders
  BY <1>2, <1>3, <1>5
<1>7. handled' \in 0 .. Len(topic') /\ (handled < Len(topic) => handled' < Len(topic'))
  BY <1>1, <1>4
<1> QED  BY <1>1, <1>6, <1>7 DEF TopicInv

\* A new row has a new id, and its status is one of the statuses.
LEMMA SubmitOrderStep ==
    ASSUME IInv, NEW o \in Offers, SubmitOrder(o) PROVE IInv'
<1> DEFINE id == Cardinality(DOMAIN db.orders) + 1
           row == [user |-> o.user, side |-> o.side, price |-> o.price, qty |-> o.qty,
                   status |-> "NEW"]
<1>1. /\ id \in OrderIds /\ db' = CreateOrder(db, id, o)
      /\ topic' = Append(topic, PlaceCommand(id))
      /\ UNCHANGED <<handled, mode, bookVars, cacheVars, pending, deposited, clean>>
  BY DEF SubmitOrder, Send
<1>2. row \in Row
  BY OfferAssumption DEF Row, Statuses
<1> HIDE DEF id, row
<1>3. /\ DOMAIN db' = DOMAIN db /\ db'.orders = Bind(db.orders, id, row)
      /\ db'.available = db.available /\ db'.locked = db.locked
  BY <1>1 DEF CreateOrder, row, IInv, DbInv, TablesOK
<1>4. /\ DOMAIN db'.orders = DOMAIN db.orders \cup {id}
      /\ db'.orders \in [DOMAIN db'.orders -> Row]
  BY <1>2, <1>3 DEF Bind, IInv, DbInv, TablesOK
<1>5. TablesOK(db')
  BY <1>1, <1>3, <1>4 DEF IInv, DbInv, TablesOK
<1>6. DbInv'
  BY <1>1, <1>3, <1>5 DEF IInv, DbInv, DatabaseConserves
<1>7. PlaceCommand(id) \in Messages /\ PlaceCommand(id).type = "OrderPlaced"
      /\ PlaceCommand(id).id = id
  BY <1>1 DEF PlaceCommand, Messages
<1>8. TopicInv' /\ (handled < Len(topic) => handled' < Len(topic'))
  BY <1>1, <1>4, <1>7, AppendOK DEF IInv, TopicInv
<1>9. PendingInv'
  BY <1>1, <1>4, <1>8 DEF IInv, PendingInv
<1> QED
  BY <1>1, <1>6, <1>8, <1>9 DEF IInv, MemoryInv, ModeInv, bookVars, cacheVars

\* The row of the order stays; only the topic grows.
LEMMA RequestCancelStep ==
    ASSUME IInv, NEW id \in DOMAIN db.orders, RequestCancel(id) PROVE IInv'
<1>1. /\ topic' = Append(topic, CancelCommand(id))
      /\ UNCHANGED <<db, handled, mode, bookVars, cacheVars, pending, deposited, clean>>
  BY DEF RequestCancel, Send
<1>2. CancelCommand(id) \in Messages /\ CancelCommand(id).id = id
  BY DEF CancelCommand, Messages, IInv, DbInv, TablesOK
<1>3. TopicInv' /\ (handled < Len(topic) => handled' < Len(topic'))
  BY <1>1, <1>2, AppendOK DEF IInv, TopicInv
<1> QED
  BY <1>1, <1>3 DEF IInv, DbInv, DatabaseConserves, MemoryInv, PendingInv, ModeInv, bookVars, cacheVars

\* What is deposited is credited to one balance.
LEMMA SubmitDepositStep ==
    ASSUME IInv, NEW d \in Deposits, SubmitDeposit(d) PROVE IInv'
<1>1. /\ deposited' = [deposited EXCEPT ![d.asset] = @ + d.amount]
      /\ db' = UpsertBalance(db, d.user, d.asset, d.amount)
      /\ topic' = Append(topic, DepositCommand(d))
      /\ UNCHANGED <<handled, mode, bookVars, cacheVars, pending, clean>>
  BY DEF SubmitDeposit, Send
<1>2. d.user \in Users /\ d.asset \in Assets /\ d.amount \in Nat
  BY OfferAssumption
<1>3. /\ DOMAIN db' = DOMAIN db /\ db'.orders = db.orders /\ db'.locked = db.locked
      /\ db'.available = Moved(db.available, d.user, d.asset, d.amount)
  BY <1>1 DEF UpsertBalance, IInv, DbInv, TablesOK
<1>4. /\ db.available \in Balances /\ db.locked \in Balances /\ deposited \in [Assets -> Nat]
      /\ \A a \in Assets : Total(db, a) = deposited[a]
  BY DEF IInv, DbInv, TablesOK, DatabaseConserves, Total
<1>5. \A u \in Users, a \in Assets :
        /\ db.available[u][a] \in Nat /\ db.locked[u][a] \in Nat
        /\ db'.available[u][a]
             = db.available[u][a] + (IF u = d.user /\ a = d.asset THEN d.amount ELSE 0)
  BY <1>2, <1>3, <1>4 DEF Moved, Balances
<1>6. db'.available \in Balances
  BY <1>2, <1>3, <1>4, <1>5 DEF Moved, Balances
<1>7. ASSUME NEW a \in Assets PROVE Total(db', a) = deposited'[a]
  <2> DEFINE old == [u \in Users |-> db.available[u][a] + db.locked[u][a]]
             new == [u \in Users |-> db'.available[u][a] + db'.locked[u][a]]
  <2>1. \A u \in Users : old[u] \in Nat /\ new[u] \in Nat
    BY <1>3, <1>5, <1>6 DEF Balances
  <2>2. old \in [Users -> Nat] /\ new \in [Users -> Nat]
    BY <2>1
  <2>3. PICK f \in [Users -> Nat] : f = old
    BY <2>2
  <2>4. PICK g \in [Users -> Nat] : g = new
    BY <2>2
  <2>5. Total(db, a) = Sum(f) /\ Total(db', a) = Sum(g)
    BY <2>3, <2>4 DEF Total
  <2>6. \A u \in Users \ {d.user} : g[u] = f[u]
    BY <1>2, <1>3, <1>5, <2>3, <2>4
  <2>7. Sum(g) = Sum(f) - f[d.user] + g[d.user]
    BY <1>2, <2>6, FiniteAssumption, SumUpdate
  <2>8. /\ f[d.user] = db.available[d.user][a] + db.locked[d.user][a]
        /\ g[d.user] = db'.available[d.user][a] + db.locked[d.user][a]
    BY <1>2, <1>3, <2>3, <2>4
  <2>9. g[d.user] = f[d.user] + (IF a = d.asset THEN d.amount ELSE 0)
    <3>1. /\ db.available[d.user][a] \in Nat /\ db.locked[d.user][a] \in Nat
          /\ db'.available[d.user][a]
               = db.available[d.user][a] + (IF a = d.asset THEN d.amount ELSE 0)
      BY <1>2, <1>5
    <3> QED  BY <1>2, <2>8, <3>1
  <2>10. Sum(f) \in Nat /\ f[d.user] \in Nat
    BY <1>2, FiniteAssumption, SumType
  <2>11. Sum(g) = Sum(f) + (IF a = d.asset THEN d.amount ELSE 0)
    BY <1>2, <2>7, <2>9, <2>10
  <2>12. deposited'[a] = deposited[a] + (IF a = d.asset THEN d.amount ELSE 0)
    BY <1>1, <1>2, <1>4
  <2> QED  BY <1>4, <2>5, <2>11, <2>12
<1>8. DbInv'
  <2>1. TablesOK(db')
    BY <1>3, <1>4, <1>6 DEF IInv, DbInv, TablesOK
  <2>2. deposited' \in [Assets -> Nat]
    BY <1>1, <1>2, <1>4
  <2>3. DatabaseConserves'
    BY <1>7 DEF DatabaseConserves, Total
  <2> QED  BY <2>1, <2>2, <2>3 DEF DbInv
<1>9. DepositCommand(d) \in Messages /\ DepositCommand(d).type = "DepositCreated"
  BY <1>2 DEF DepositCommand, Messages
<1>10. TopicInv' /\ (handled < Len(topic) => handled' < Len(topic'))
  BY <1>1, <1>3, <1>9, AppendOK DEF IInv, TopicInv
<1> QED
  BY <1>1, <1>3, <1>8, <1>10 DEF IInv, MemoryInv, PendingInv, ModeInv, bookVars, cacheVars

\* The message in hand is a message, about an order of the database.
LEMMA CommandOK ==
    ASSUME IInv, NEW type, Fetched(type)
    PROVE  /\ Command \in Messages /\ Command.type = type
           /\ type # "DepositCreated" => Command.id \in DOMAIN db.orders
           /\ handled + 1 \in 0 .. Len(topic) /\ handled < Len(topic) /\ pending = NoTx
<1>1. /\ topic \in Seq(Messages) /\ handled \in 0 .. Len(topic) /\ handled < Len(topic)
      /\ topic[handled + 1].type = type
  BY DEF Fetched, IInv, TopicInv
<1>2. Len(topic) \in Nat
  BY <1>1
<1>3. handled + 1 \in 1 .. Len(topic)
  BY <1>1, <1>2
<1> QED  BY <1>1, <1>3 DEF Fetched, Command, IInv, TopicInv

\* A deposit only adds to the BalanceCache.
LEMMA HandleDepositStep == ASSUME IInv, HandleDeposit PROVE IInv'
<1>1. /\ available' = Moved(available, Command.user, Command.asset, Command.amount)
      /\ handled' = handled + 1 /\ Fetched("DepositCreated")
      /\ UNCHANGED <<db, topic, mode, bookVars, locked, pending, history>>
  BY DEF HandleDeposit
<1>2. Command \in Messages /\ Command.type = "DepositCreated"
      /\ handled + 1 \in 0 .. Len(topic) /\ pending = NoTx
  BY <1>1, CommandOK
<1>3. Command.user \in Users /\ Command.asset \in Assets /\ Command.amount \in Nat
  BY <1>2 DEF Messages
<1>4. available \in Balances
  BY DEF IInv, MemoryInv
<1>5. available' \in Balances
  BY <1>1, <1>3, <1>4 DEF Moved, Balances
<1> QED
  BY <1>1, <1>2, <1>5
     DEF IInv, DbInv, DatabaseConserves, TopicInv, MemoryInv, PendingInv, ModeInv, bookVars, history

\* A refused order only gets a status.
LEMMA RejectOrderStep == ASSUME IInv, RejectOrder PROVE IInv'
<1>1. /\ db' = UpdateOrderStatus(db, Command.id, "REJECTED")
      /\ handled' = handled + 1 /\ Fetched("OrderPlaced")
      /\ UNCHANGED <<topic, mode, bookVars, cacheVars, pending, history>>
  BY DEF RejectOrder
<1>2. /\ Command.id \in DOMAIN db.orders
      /\ handled + 1 \in 0 .. Len(topic) /\ pending = NoTx
  BY <1>1, CommandOK
<1>3. Keeps(db, db')
  BY <1>1, <1>2, StatusKeeps DEF IInv, DbInv
<1>4. DbInv' /\ DOMAIN db'.orders = DOMAIN db.orders
  BY <1>1, <1>3, DbKept DEF IInv, Keeps, history
<1> QED
  BY <1>1, <1>2, <1>4
     DEF IInv, TopicInv, MemoryInv, PendingInv, ModeInv, bookVars, cacheVars, history

\* What is handled leaves the topic from the front.
LEMMA CommitOffsetStep == ASSUME IInv, CommitOffset PROVE IInv'
<1>1. /\ topic' = SubSeq(topic, handled + 1, Len(topic)) /\ handled' = 0
      /\ UNCHANGED <<db, mode, bookVars, cacheVars, pending, history>>
  BY DEF CommitOffset
<1>2. /\ topic \in Seq(Messages) /\ handled \in 0 .. Len(topic) /\ Len(topic) \in Nat
      /\ \A i \in 1 .. Len(topic) :
           topic[i].type # "DepositCreated" => topic[i].id \in DOMAIN db.orders
  BY DEF IInv, TopicInv
<1>3. /\ topic' \in Seq(Messages) /\ Len(topic') = Len(topic) - handled
      /\ \A i \in 1 .. Len(topic) - handled : topic'[i] = topic[handled + i]
  BY <1>1, <1>2
<1>4. ASSUME NEW i \in 1 .. Len(topic'), topic'[i].type # "DepositCreated"
      PROVE  topic'[i].id \in DOMAIN db.orders
  <2>1. handled + i \in 1 .. Len(topic) /\ topic'[i] = topic[handled + i]
    BY <1>2, <1>3
  <2> QED  BY <1>2, <1>4, <2>1
<1>5. handled' \in 0 .. Len(topic') /\ (handled < Len(topic) => handled' < Len(topic'))
  BY <1>1, <1>2, <1>3
<1>6. TopicInv'
  BY <1>1, <1>3, <1>4, <1>5 DEF TopicInv
<1> QED
  BY <1>1, <1>5, <1>6
     DEF IInv, DbInv, DatabaseConserves, MemoryInv, PendingInv, ModeInv, bookVars, cacheVars, history

\* What an order owes is a natural number.
LEMMA DueType ==
    ASSUME NEW s, NEW p \in Prices, NEW q \in Nat
    PROVE  Due(s, p, q) \in Nat
<1>1. p \in Nat
  BY PositiveAssumption
<1> QED  BY <1>1, NotionalType DEF Due

\* What an order is paid with is an asset.
LEMMA LockAssetType == \A s : LockAsset(s) \in Assets
BY DEF LockAsset, Assets

\* The node of a row can be placed on the book.
LEMMA TakerType ==
    ASSUME BookOK(book), NEW r \in Row
    PROVE  TakerOK(book, Taker(r))
<1>1. DOMAIN book \cup {0} \in SUBSET Nat /\ IsFiniteSet(DOMAIN book \cup {0})
  BY FS_AddElement DEF BookOK
<1>2. /\ Max(DOMAIN book \cup {0}) \in Nat
      /\ \A n \in DOMAIN book \cup {0} : n <= Max(DOMAIN book \cup {0})
  BY <1>1, MaxOfFinite
<1> DEFINE n == Max(DOMAIN book \cup {0}) + 1
<1>3. n \in Nat /\ n \notin DOMAIN book
  BY <1>1, <1>2
<1> HIDE DEF n
<1>4. Taker(r) = [id |-> n, user |-> r.user, side |-> r.side, price |-> r.price,
                  qty |-> r.qty, rem |-> r.qty, seq |-> n]
  BY DEF Taker, n
<1>5. r.qty \in Nat
  BY PositiveAssumption DEF Row
<1> QED  BY <1>3, <1>4, <1>5 DEF TakerOK, Row

\* Trades are about units that were consumed.
LEMMA FillsOK ==
    ASSUME BookOK(book), NEW t, TakerOK(book, t), NEW index
    PROVE  IsFiniteSet(Fills(t, index)) /\ \A f \in Fills(t, index) : FillOK(f)
<1> DEFINE M == {m \in DOMAIN book : Consumed(book, t, m) > 0}
           fill(m) == [n |-> m, maker |-> node[m], user |-> book[m].user,
                       price |-> book[m].price, qty |-> Consumed(book, t, m),
                       status |-> IF node[m] \in DOMAIN index THEN "NEW" ELSE "FILLED"]
           g == [m \in M |-> fill(m)]
<1>1. Fills(t, index) = {fill(m) : m \in M}
  BY DEF Fills
<1>2. IsFiniteSet(M)
  BY FS_Subset DEF BookOK
<1>3. g \in Surjection(M, {fill(m) : m \in M})
  BY DEF Surjection
<1>4. IsFiniteSet({fill(m) : m \in M})
  BY <1>2, <1>3, FS_Surjection
<1>5. ASSUME NEW m \in M PROVE FillOK(fill(m))
  <2>1. Consumed(book, t, m) \in Nat
    BY ConsumedOK DEF TakerOK
  <2>2. book[m].user \in Users /\ book[m].price \in Nat
    BY PositiveAssumption DEF BookOK, Resting
  <2> QED  BY <2>1, <2>2 DEF FillOK
<1> QED  BY <1>1, <1>4, <1>5

\* The id map after an order has been placed.
LEMMA IndexOK ==
    ASSUME MemoryInv, NEW t, TakerOK(book, t), NEW id \in OrderIds,
           NEW after, DOMAIN after \subseteq DOMAIN book \cup {t.id},
           NEW nodes, nodes = Restrict(Bind(node, t.id, id), DOMAIN after)
    PROVE  /\ nodes \in [DOMAIN after -> OrderIds]
           /\ \A i \in DOMAIN Index(id, t, after) :
                /\ Index(id, t, after)[i] \in DOMAIN after
                /\ nodes[Index(id, t, after)[i]] = i
<1> DEFINE gone == {node[m] : m \in DOMAIN book \ DOMAIN after}
           kept == Restrict(orders, DOMAIN orders \ gone)
<1>1. /\ node \in [DOMAIN book -> OrderIds] /\ t.id \notin DOMAIN book
      /\ \A i \in DOMAIN orders : orders[i] \in DOMAIN book /\ node[orders[i]] = i
  BY DEF MemoryInv, TakerOK
<1>2. \A m \in DOMAIN after : nodes[m] = IF m = t.id THEN id ELSE node[m]
  BY <1>1 DEF Restrict, Bind
<1>3. nodes \in [DOMAIN after -> OrderIds]
  BY <1>1 DEF Restrict, Bind
<1>4. ASSUME NEW i \in DOMAIN kept
      PROVE  kept[i] \in DOMAIN after /\ nodes[kept[i]] = i
  <2>1. i \in DOMAIN orders /\ i \notin gone /\ kept[i] = orders[i]
    BY DEF Restrict
  <2>2. orders[i] \in DOMAIN after
    BY <1>1, <2>1
  <2> QED  BY <1>1, <1>2, <2>1, <2>2
<1>5. Index(id, t, after) = IF t.id \in DOMAIN after THEN Bind(kept, id, t.id) ELSE kept
  BY DEF Index
<1> HIDE DEF kept
<1>6. CASE t.id \in DOMAIN after
  <2>1. Index(id, t, after) = Bind(kept, id, t.id)
    BY <1>5, <1>6
  <2>2. ASSUME NEW i \in DOMAIN Bind(kept, id, t.id)
        PROVE  /\ Bind(kept, id, t.id)[i] \in DOMAIN after
               /\ nodes[Bind(kept, id, t.id)[i]] = i
    <3>1. CASE i = id
      <4>1. Bind(kept, id, t.id)[i] = t.id
        BY <3>1 DEF Bind
      <4> QED  BY <1>2, <1>6, <3>1, <4>1
    <3>2. CASE i # id
      <4>1. i \in DOMAIN kept /\ Bind(kept, id, t.id)[i] = kept[i]
        BY <2>2, <3>2 DEF Bind
      <4> QED  BY <1>4, <4>1
    <3> QED  BY <3>1, <3>2
  <2> QED  BY <1>3, <2>1, <2>2
<1>7. CASE t.id \notin DOMAIN after
  <2>1. Index(id, t, after) = kept
    BY <1>5, <1>7
  <2> QED  BY <1>3, <1>4, <2>1
<1> QED  BY <1>6, <1>7

\* The funds suffice or the worker is stuck with its memory unchanged.
LEMMA AcceptOrderStep == ASSUME IInv, AcceptOrder PROVE IInv'
<1> DEFINE id == Command.id
           r == db.orders[id]
           a == LockAsset(r.side)
           amount == Due(r.side, r.price, r.qty)
           t == Taker(r)
           after == Outcome(book, t)
           index == Index(id, t, after)
           made == Fills(t, index)
           legs == Legs(r, made)
           held == Moved(locked, r.user, a, amount)
           left == Moved(available, r.user, a, -amount)
           paid == Changed(held, Debits(legs))
           tx == [kind |-> "place", id |-> id, amount |-> amount,
                  fills |-> made, status |-> TakerStatus(t, after)]
<1>1. /\ Fetched("OrderPlaced") /\ UNCHANGED <<db, topic, history>>
      /\ available[r.user][a] >= amount
      /\ \/ /\ Solvent(paid)
            /\ book' = after /\ node' = Restrict(Bind(node, t.id, id), DOMAIN after)
            /\ orders' = index
            /\ locked' = paid
            /\ available' = Changed(left, Credits(legs))
            /\ pending' = tx
            /\ UNCHANGED <<mode, handled>>
         \/ /\ mode' = "stuck" /\ handled' = handled + 1
            /\ UNCHANGED <<bookVars, cacheVars, pending>>
  BY DEF AcceptOrder
<1>2. /\ id \in DOMAIN db.orders
      /\ handled + 1 \in 0 .. Len(topic) /\ handled < Len(topic) /\ pending = NoTx
  BY <1>1, CommandOK
<1>3. r \in Row /\ id \in OrderIds
  BY <1>2 DEF IInv, DbInv, TablesOK
<1>4. /\ r.user \in Users /\ r.price \in Prices /\ r.qty \in Nat /\ a \in Assets
      /\ amount \in Nat
  BY <1>3, PositiveAssumption, DueType, LockAssetType DEF Row
<1>5. BookOK(book) /\ available \in Balances /\ locked \in Balances
  BY DEF IInv, MemoryInv
<1>6. TakerOK(book, t)
  BY <1>3, <1>5, TakerType
<1>7. IsFiniteSet(made) /\ \A f \in made : FillOK(f)
  BY <1>5, <1>6, FillsOK
<1>8. IsFiniteSet(legs) /\ \A l \in legs : Leg(l)
  BY <1>3, <1>7, LegsOK
<1>9. /\ Credits(legs) \in Balances
      /\ [u \in Users |-> [b \in Assets |-> Paid(legs, u, b)]] \in Balances
  BY <1>8, LegsBalance
<1>10. BookOK(after) /\ DOMAIN after \subseteq DOMAIN book \cup {t.id}
  BY <1>5, <1>6, OutcomeOK
<1> HIDE DEF id, r, a, amount, t, after, index, made, legs, held, left, paid, tx
<1>11. DbInv' /\ ModeInv'
  BY <1>1 DEF IInv, DbInv, DatabaseConserves, ModeInv, history
<1>12. CASE UNCHANGED <<bookVars, cacheVars, pending>> /\ handled' = handled + 1
  BY <1>1, <1>2, <1>11, <1>12
     DEF IInv, TopicInv, MemoryInv, PendingInv, bookVars, cacheVars
<1>13. CASE /\ Solvent(paid)
            /\ book' = after /\ node' = Restrict(Bind(node, t.id, id), DOMAIN after)
            /\ orders' = index
            /\ locked' = paid
            /\ available' = Changed(left, Credits(legs))
            /\ pending' = tx
            /\ UNCHANGED <<mode, handled>>
  <2>1. TopicInv'
    BY <1>1, <1>13 DEF IInv, TopicInv
  <2>2. PendingInv'
    <3>1. /\ tx.kind = "place" /\ tx.id = id /\ tx.amount = amount /\ tx.fills = made
      BY DEF tx
    <3> QED  BY <1>1, <1>2, <1>4, <1>7, <1>13, <3>1 DEF PendingInv
  <2>3. /\ node' \in [DOMAIN after -> OrderIds]
        /\ \A i \in DOMAIN index : index[i] \in DOMAIN after /\ node'[index[i]] = i
    BY <1>3, <1>6, <1>10, <1>13, IndexOK DEF index, IInv
  <2>4. paid \in Balances
    <3>1. held \in [Users -> [Assets -> Int]]
      BY <1>4, <1>5, MovedType DEF held
    <3>2. \A u \in Users, b \in Assets : Paid(legs, u, b) \in Nat
      BY <1>9 DEF Balances
    <3>3. \A u \in Users, b \in Assets : Debits(legs)[u][b] \in Int
      BY <3>2 DEF Debits
    <3>4. paid \in [Users -> [Assets -> Int]]
      BY <3>1, <3>3 DEF paid, Changed
    <3> QED  BY <1>13, <3>4, SolventIsNat
  <2>5. Changed(left, Credits(legs)) \in Balances
    <3>1. \A u \in Users, b \in Assets : left[u][b] \in Nat
      <4> TAKE u \in Users, b \in Assets
      <4>1. available[u][b] \in Nat /\ -amount \in Int
        BY <1>4, <1>5 DEF Balances
      <4>2. left[u][b] = available[u][b] + (IF u = r.user /\ b = a THEN -amount ELSE 0)
        BY <1>4, <1>5, <4>1 DEF left, Moved, Balances
      <4> QED  BY <1>1, <1>4, <4>1, <4>2
    <3>2. \A u \in Users, b \in Assets : Credits(legs)[u][b] \in Nat
      BY <1>9 DEF Balances
    <3> QED  BY <3>1, <3>2 DEF Changed, Balances
  <2>6. MemoryInv'
    BY <1>10, <1>13, <2>3, <2>4, <2>5 DEF MemoryInv
  <2> QED  BY <1>11, <2>1, <2>2, <2>6 DEF IInv
<1> QED  BY <1>1, <1>12, <1>13

\* The node leaves the book and the id map together; the guard of UnlockFunds
\* keeps the BalanceCache from going negative.
LEMMA HandleCancelStep == ASSUME IInv, HandleCancel PROVE IInv'
<1> DEFINE id == Command.id
           n == orders[id]
           o == book[n]
           a == LockAsset(o.side)
           amount == Due(o.side, o.price, o.rem)
           tx == [kind |-> "cancel", id |-> id, amount |-> amount,
                  fills |-> {}, status |-> "CANCELLED"]
<1>1. /\ Fetched("OrderCancelRequested") /\ UNCHANGED <<topic, mode, history>>
      /\ CancelMissing(id) \/ CancelResting(id)
  BY DEF HandleCancel
<1>2. /\ id \in DOMAIN db.orders
      /\ handled + 1 \in 0 .. Len(topic) /\ handled < Len(topic) /\ pending = NoTx
  BY <1>1, CommandOK
<1>3. CASE CancelMissing(id)
  BY <1>1, <1>2, <1>3
     DEF CancelMissing, IInv, DbInv, DatabaseConserves, TopicInv, MemoryInv, PendingInv, ModeInv,
         bookVars, cacheVars, history
<1>4. CASE CancelResting(id)
  <2>1. /\ id \in DOMAIN orders /\ UNCHANGED db
        /\ book' = Unbind(book, n) /\ node' = Unbind(node, n) /\ orders' = Unbind(orders, id)
        /\ \/ /\ locked[o.user][a] >= amount
              /\ locked' = Moved(locked, o.user, a, -amount)
              /\ available' = Moved(available, o.user, a, amount)
              /\ pending' = tx /\ UNCHANGED handled
           \/ handled' = handled + 1 /\ UNCHANGED <<cacheVars, pending>>
    BY <1>4 DEF CancelResting
  <2>2. /\ BookOK(book) /\ node \in [DOMAIN book -> OrderIds]
        /\ \A i \in DOMAIN orders : orders[i] \in DOMAIN book /\ node[orders[i]] = i
        /\ available \in Balances /\ locked \in Balances
    BY DEF IInv, MemoryInv
  <2>3. o \in Resting
    BY <2>1, <2>2 DEF BookOK
  <2>4. o.user \in Users /\ a \in Assets /\ amount \in Nat
    BY <2>3, DueType, LockAssetType DEF Resting
  <2> HIDE DEF id, n, o, a, amount, tx
  <2>5. BookOK(book')
    <3>1. DOMAIN book' = DOMAIN book \ {n} /\ \A m \in DOMAIN book \ {n} : book'[m] = book[m]
      BY <2>1 DEF Unbind, Restrict
    <3>2. IsFiniteSet(DOMAIN book \ {n})
      BY <2>2, FS_Subset DEF BookOK
    <3>3. book' \in [DOMAIN book' -> Resting]
      BY <2>1, <2>2, <3>1 DEF BookOK, Unbind, Restrict
    <3> QED  BY <2>2, <3>1, <3>2, <3>3 DEF BookOK
  <2>6. /\ node' \in [DOMAIN book' -> OrderIds]
        /\ \A i \in DOMAIN orders' : orders'[i] \in DOMAIN book' /\ node'[orders'[i]] = i
    BY <2>1, <2>2 DEF Unbind, Restrict, n
  <2>7. available' \in Balances /\ locked' \in Balances
    <3>1. CASE UNCHANGED cacheVars
      BY <2>2, <3>1 DEF cacheVars
    <3>2. CASE /\ locked[o.user][a] >= amount
               /\ locked' = Moved(locked, o.user, a, -amount)
               /\ available' = Moved(available, o.user, a, amount)
      <4>1. \A u \in Users, b \in Assets : available'[u][b] \in Nat /\ locked'[u][b] \in Nat
        <5> TAKE u \in Users, b \in Assets
        <5>1. available[u][b] \in Nat /\ locked[u][b] \in Nat
          BY <2>2 DEF Balances
        <5>2. /\ available'[u][b] = available[u][b] + (IF u = o.user /\ b = a THEN amount ELSE 0)
              /\ locked'[u][b] = locked[u][b] + (IF u = o.user /\ b = a THEN -amount ELSE 0)
          BY <2>2, <2>4, <3>2 DEF Moved, Balances
        <5> QED  BY <2>4, <3>2, <5>1, <5>2
      <4>2. /\ available' \in [Users -> [Assets -> Int]]
            /\ locked' \in [Users -> [Assets -> Int]]
        <5>1. -amount \in Int /\ amount \in Int
          BY <2>4
        <5> QED  BY <2>2, <2>4, <3>2, <5>1, MovedType
      <4> QED  BY <4>1, <4>2 DEF Balances
    <3> QED  BY <2>1, <3>1, <3>2
  <2>8. PendingInv'
    <3>1. /\ tx.kind = "cancel" /\ tx.id = id /\ tx.amount = amount /\ tx.fills = {}
      BY DEF tx
    <3>2. IsFiniteSet(tx.fills) /\ \A f \in tx.fills : FillOK(f)
      BY <3>1, FS_EmptySet
    <3>3. CASE pending' = tx /\ UNCHANGED handled
      BY <1>1, <1>2, <2>1, <2>4, <3>1, <3>2, <3>3 DEF PendingInv
    <3>4. CASE UNCHANGED pending
      BY <1>2, <3>4 DEF PendingInv
    <3> QED  BY <2>1, <3>3, <3>4
  <2>9. TopicInv'
    BY <1>1, <1>2, <2>1 DEF IInv, TopicInv
  <2> QED
    BY <1>1, <2>1, <2>2, <2>5, <2>6, <2>7, <2>8, <2>9
       DEF IInv, DbInv, DatabaseConserves, MemoryInv, ModeInv, history
<1> QED  BY <1>1, <1>3, <1>4

\* A crash keeps the database and what is not committed of the topic.
LEMMA CrashStep == ASSUME IInv, Crash PROVE IInv'
<1>1. Forget /\ handled' = 0 /\ UNCHANGED <<db, topic, deposited>>
      /\ clean' = (clean /\ ~Settling /\ \A n \in DOMAIN book : book[n].rem = book[n].qty)
  BY DEF Crash
<1>2. MemoryInv' /\ PendingInv' /\ mode' = "down"
  BY <1>1, ForgottenOK
<1>3. TopicInv'
  BY <1>1 DEF IInv, TopicInv
<1> QED  BY <1>1, <1>2, <1>3 DEF IInv, DbInv, DatabaseConserves, ModeInv

\* A transaction that is lost leaves the database as it was.
LEMMA LoseTxStep == ASSUME IInv, LoseTx PROVE IInv'
<1>1. /\ pending # NoTx /\ pending' = NoTx /\ handled' = handled + 1 /\ clean' = FALSE
      /\ UNCHANGED <<db, topic, mode, bookVars, cacheVars, deposited>>
  BY DEF LoseTx
<1>2. handled' \in 0 .. Len(topic)
  <2>1. handled \in 0 .. Len(topic) /\ handled < Len(topic) /\ Len(topic) \in Nat
    BY <1>1 DEF IInv, TopicInv, PendingInv
  <2> QED  BY <1>1, <2>1
<1> QED
  BY <1>1, <1>2 DEF IInv, DbInv, DatabaseConserves, TopicInv, MemoryInv, PendingInv, ModeInv,
                    bookVars, cacheVars

\* The worker is dead, the rest stays.
LEMMA HydrateFailsStep == ASSUME IInv, HydrateFails PROVE IInv'
BY DEF HydrateFails, topicVars, bookVars, cacheVars, IInv, DbInv, DatabaseConserves, TopicInv,
       MemoryInv, PendingInv, ModeInv

\* The transaction of handleCancelOrder moves money within one account.
LEMMA CancelTxKeeps ==
    ASSUME TablesOK(db), PendingInv, pending # NoTx, CancelTx(pending) # Refused
    PROVE  Keeps(db, CancelTx(pending))
<1> DEFINE r == db.orders[pending.id]
           d == UpdateBalanceUnlock(db, r.user, LockAsset(r.side), pending.amount)
           e == UpdateOrderStatus(d, pending.id, pending.status)
<1>1. r.user \in Users /\ pending.amount \in Int /\ pending.id \in DOMAIN db.orders
  BY DEF PendingInv, TablesOK, Row
<1>2. CancelTx(pending) = Then(d, e)
  BY DEF CancelTx
<1>3. d # Refused /\ CancelTx(pending) = e
  BY <1>2 DEF Then
<1>4. Keeps(db, d)
  BY <1>1, <1>3, LockAssetType, UnlockKeeps
<1> HIDE DEF d
<1>5. Keeps(d, e)
  BY <1>1, <1>4, StatusKeeps DEF Keeps
<1> HIDE DEF e
<1> QED  BY <1>3, <1>4, <1>5 DEF Keeps

\* The transaction of handlePlaceOrder: a failed statement refuses all of it,
\* and the batch of balances credits what it debits.
LEMMA PlaceTxKeeps ==
    ASSUME TablesOK(db), PendingInv, pending # NoTx, PlaceTx(pending) # Refused
    PROVE  Keeps(db, PlaceTx(pending))
<1> DEFINE p == pending
           r == db.orders[p.id]
           legs == Legs(r, p.fills)
           makers == {f.maker : f \in p.fills}
           keys == [f \in p.fills |-> FillKey(p.id, r.side, f)]
           status == [id \in makers |-> (CHOOSE f \in p.fills : f.maker = id).status]
           s1 == UpdateBalanceLock(db, r.user, LockAsset(r.side), p.amount)
           s2 == UpdateOrderStatus(s1, p.id, p.status)
           d2 == Then(s1, s2)
           s3 == CreateTradesBatch(d2, keys)
           d3 == Then(d2, s3)
           s4 == UpdateOrderStatusesBatch(d3, status)
           d4 == Then(d3, s4)
           s5 == BatchUpdateBalances(d4, Credits(legs), Debits(legs))
           debit == [u \in Users |-> [a \in Assets |-> Paid(legs, u, a)]]
<1>1. /\ r \in Row /\ r.user \in Users /\ p.amount \in Int /\ p.id \in DOMAIN db.orders
      /\ IsFiniteSet(p.fills) /\ \A f \in p.fills : FillOK(f)
  BY DEF PendingInv, TablesOK, Row
<1>2. PlaceTx(p) = Then(d4, s5)
  BY DEF PlaceTx
<1>3. IsFiniteSet(legs) /\ \A l \in legs : Leg(l)
  BY <1>1, LegsOK
<1> HIDE DEF r, legs, keys, status
<1>4. /\ Credits(legs) \in Balances /\ debit \in Balances
      /\ \A a \in Assets : Sum([u \in Users |-> Credits(legs)[u][a]])
                             = Sum([u \in Users |-> debit[u][a]])
  <2>1. /\ Credits(legs) \in Balances /\ debit \in Balances
        /\ \A a \in Assets : Sum([u \in Users |-> Received(legs, u, a)])
                               = Sum([u \in Users |-> Paid(legs, u, a)])
    BY <1>3, LegsBalance
  <2>2. ASSUME NEW a \in Assets
        PROVE  /\ [u \in Users |-> Credits(legs)[u][a]] = [u \in Users |-> Received(legs, u, a)]
               /\ [u \in Users |-> debit[u][a]] = [u \in Users |-> Paid(legs, u, a)]
    BY DEF Credits
  <2> HIDE DEF debit
  <2> QED  BY <2>1, <2>2
<1>5. Debits(legs) = [u \in Users |-> [a \in Assets |-> -debit[u][a]]]
  BY DEF Debits
<1>6. /\ s1 # Refused /\ d2 # Refused /\ d3 # Refused /\ d4 # Refused
      /\ d2 = s2 /\ d3 = s3 /\ d4 = s4 /\ PlaceTx(p) = s5
  BY <1>2 DEF Then
<1> HIDE DEF debit
<1>7. Keeps(db, s1)
  BY <1>1, <1>6, LockAssetType, LockKeeps
<1> HIDE DEF s1
<1>8. Keeps(s1, s2)
  BY <1>1, <1>7, StatusKeeps DEF Keeps
<1> HIDE DEF s2, d2
<1>9. Keeps(d2, s3)
  BY <1>6, <1>8, TradesKeep DEF Keeps
<1> HIDE DEF s3, d3
<1>10. Keeps(d3, s4)
  BY <1>6, <1>9, StatusesKeep DEF Keeps
<1> HIDE DEF s4, d4
<1>11. TablesOK(d4)
  BY <1>6, <1>10 DEF Keeps
<1>12. Keeps(d4, s5)
  BY <1>4, <1>5, <1>6, <1>11, BatchKeeps
<1> HIDE DEF s5
<1> QED  BY <1>6, <1>7, <1>8, <1>9, <1>10, <1>12 DEF Keeps

\* A transaction is written whole or not at all.
LEMMA PersistStep == ASSUME IInv, Persist PROVE IInv'
<1>1. /\ pending # NoTx /\ pending' = NoTx /\ handled' = handled + 1
      /\ db' = IF Outgoing(pending) = Refused THEN db ELSE Outgoing(pending)
      /\ UNCHANGED <<topic, mode, bookVars, cacheVars, history>>
  BY DEF Persist
<1>2. TablesOK(db) /\ PendingInv /\ DbInv
  BY DEF IInv, DbInv
<1>3. Outgoing(pending) # Refused => Keeps(db, Outgoing(pending))
  BY <1>1, <1>2, CancelTxKeeps, PlaceTxKeeps DEF Outgoing
<1>4. Keeps(db, db')
  BY <1>1, <1>2, <1>3 DEF Keeps
<1>5. DbInv' /\ DOMAIN db'.orders = DOMAIN db.orders
  BY <1>1, <1>2, <1>4, DbKept DEF Keeps, history
<1>6. handled' \in 0 .. Len(topic)
  <2>1. handled \in 0 .. Len(topic) /\ handled < Len(topic) /\ Len(topic) \in Nat
    BY <1>1 DEF IInv, TopicInv, PendingInv
  <2> QED  BY <1>1, <2>1
<1> QED
  BY <1>1, <1>5, <1>6
     DEF IInv, TopicInv, MemoryInv, PendingInv, ModeInv, bookVars, cacheVars, history

\* The active orders are finitely many rows of the table.
LEMMA ActiveOK ==
    ASSUME TablesOK(db)
    PROVE  /\ Active \subseteq DOMAIN db.orders /\ IsFiniteSet(Active)
           /\ Active \subseteq OrderIds /\ Active \subseteq Nat
           /\ \A id \in Active : db.orders[id] \in Row
<1>1. Active \subseteq DOMAIN db.orders
  BY DEF Active, ListActiveOrders
<1>2. Active \in SUBSET OrderIds
  BY <1>1 DEF TablesOK
<1>3. IsFiniteSet(Active)
  BY <1>2, FiniteAssumption, FS_Subset
<1>4. OrderIds \subseteq Nat
  BY FiniteAssumption, FS_CardinalityType, OfferAssumption
<1> QED  BY <1>1, <1>2, <1>3, <1>4 DEF TablesOK

\* Numbering the active orders in the order of creation leaves none out.
LEMMA CreatedOK ==
    ASSUME NEW S, IsFiniteSet(S), S \subseteq Nat, NEW s \in Created(S)
    PROVE  /\ s \in [1 .. Cardinality(S) -> S] /\ Cardinality(S) \in Nat
           /\ \A x \in S : \E n \in 1 .. Cardinality(S) : s[n] = x
<1> DEFINE k == Cardinality(S)
<1>1. k \in Nat
  BY FS_CardinalityType
<1>2. s \in [1 .. k -> S] /\ \A i, j \in 1 .. k : i < j => s[i] < s[j]
  BY DEF Created
<1>3. IsFiniteSet(1 .. k) /\ Cardinality(1 .. k) = k
  BY <1>1, FS_Interval
<1> HIDE DEF k
<1>4. \A i, j \in 1 .. k : s[i] = s[j] => i = j
  <2> SUFFICES ASSUME NEW i \in 1 .. k, NEW j \in 1 .. k, i < j PROVE s[i] # s[j]
    BY <1>1
  <2>1. s[i] \in Nat /\ s[j] \in Nat /\ s[i] < s[j]
    BY <1>2
  <2> QED  BY <2>1
<1>5. s \in Injection(1 .. k, S)
  BY <1>2, <1>4 DEF Injection, IsInjective
<1>6. s \in Surjection(1 .. k, S)
  BY <1>3, <1>5, FS_Injection DEF k
<1> QED  BY <1>1, <1>2, <1>6 DEF Surjection, k

\* The rebuilt book is numbered from 1, and the id map inverts the numbering.
LEMMA RebuildStep == ASSUME IInv, Rebuild PROVE IInv'
<1>1. PICK created \in Created(Active) :
        /\ node' = created
        /\ book' = [n \in DOMAIN created |-> Restored(db.orders[created[n]], n)]
        /\ orders' = [id \in Active |-> CHOOSE n \in DOMAIN created : created[n] = id]
  BY DEF Rebuild
<1>2. mode' = "rebuilt" /\ UNCHANGED <<db, topicVars, cacheVars, pending, history>>
  BY DEF Rebuild
<1> DEFINE k == Cardinality(Active)
<1>3. /\ IsFiniteSet(Active) /\ Active \subseteq OrderIds /\ Active \subseteq Nat
      /\ \A id \in Active : db.orders[id] \in Row
  BY ActiveOK DEF IInv, DbInv
<1>4. /\ created \in [1 .. k -> Active] /\ k \in Nat
      /\ \A id \in Active : \E n \in 1 .. k : created[n] = id
  BY <1>3, CreatedOK
<1> HIDE DEF k
<1>5. BookOK(book')
  <2>1. DOMAIN book' = 1 .. k
    BY <1>1, <1>4
  <2>2. IsFiniteSet(1 .. k) /\ 1 .. k \subseteq Nat
    BY <1>4, FS_Interval
  <2>3. ASSUME NEW n \in 1 .. k
        PROVE  book'[n] \in Resting /\ book'[n].seq = n
    <3>1. db.orders[created[n]] \in Row
      BY <1>3, <1>4
    <3>2. book'[n] = Restored(db.orders[created[n]], n)
      BY <1>1, <1>4
    <3>3. db.orders[created[n]].qty \in Nat /\ n \in Nat
      BY <2>2, <3>1, PositiveAssumption DEF Row
    <3> QED  BY <3>1, <3>2, <3>3 DEF Restored, Row, Resting
  <2>4. book' \in [1 .. k -> Resting]
    BY <1>1, <1>4, <2>3
  <2> QED  BY <2>1, <2>2, <2>3, <2>4 DEF BookOK
<1>6. node' \in [DOMAIN book' -> OrderIds]
  BY <1>1, <1>3, <1>4
<1>7. ASSUME NEW id \in DOMAIN orders'
      PROVE  orders'[id] \in DOMAIN book' /\ node'[orders'[id]] = id
  <2>1. id \in Active /\ orders'[id] = CHOOSE n \in 1 .. k : created[n] = id
    BY <1>1, <1>4
  <2>2. orders'[id] \in 1 .. k /\ created[orders'[id]] = id
    BY <1>4, <2>1
  <2> QED  BY <1>1, <1>4, <2>2
<1>8. MemoryInv'
  BY <1>2, <1>5, <1>6, <1>7 DEF IInv, MemoryInv, cacheVars
<1> QED
  BY <1>2, <1>8
     DEF IInv, DbInv, DatabaseConserves, TopicInv, PendingInv, ModeInv, topicVars, history

\* What is hydrated is a balance of the database or the largest due.
LEMMA HydrateStep == ASSUME IInv, Hydrate PROVE IInv'
<1>1. /\ available' = db.available /\ mode' = "up"
      /\ locked' = [u \in Users |-> [a \in Assets |-> Hydrated(u, a)]]
      /\ clean' = (clean /\ \A i \in handled + 1 .. Len(topic) : topic[i].type # "DepositCreated")
      /\ UNCHANGED <<db, topicVars, bookVars, pending, deposited>>
  BY DEF Hydrate
<1>2. /\ IsFiniteSet(Active) /\ \A id \in Active : db.orders[id] \in Row
      /\ db.available \in Balances /\ db.locked \in Balances
  BY ActiveOK DEF IInv, DbInv, TablesOK
<1>3. ASSUME NEW u \in Users, NEW a \in Assets
      PROVE  Hydrated(u, a) \in Nat
  <2> DEFINE mine == {id \in Active : db.orders[id].user = u /\ LockAsset(db.orders[id].side) = a}
             dues == [id \in mine |-> Due(db.orders[id].side, db.orders[id].price, db.orders[id].qty)]
             S == Range(dues) \cup {db.locked[u][a]}
  <2>1. IsFiniteSet(mine)
    BY <1>2, FS_Subset
  <2>2. \A id \in mine : dues[id] \in Nat
    BY <1>2, DueType, PositiveAssumption DEF Row
  <2>3. IsFiniteSet(Range(dues)) /\ Range(dues) \subseteq Nat
    <3>1. dues \in Surjection(mine, Range(dues))
      BY DEF Surjection, Range
    <3>2. Range(dues) \subseteq Nat
      BY <2>2 DEF Range
    <3> HIDE DEF dues, mine
    <3> QED  BY <2>1, <3>1, <3>2, FS_Surjection
  <2>4. db.locked[u][a] \in Nat
    BY <1>2 DEF Balances
  <2>5. Hydrated(u, a) = Max(S)
    BY DEF Hydrated, Dues
  <2> HIDE DEF dues, mine
  <2>6. S \in SUBSET Nat /\ IsFiniteSet(S) /\ S # {}
    BY <2>3, <2>4, FS_AddElement
  <2> HIDE DEF S
  <2> QED  BY <2>5, <2>6, MaxOfFinite
<1>4. locked' \in Balances
  BY <1>1, <1>3 DEF Balances
<1> QED
  BY <1>1, <1>2, <1>4
     DEF IInv, DbInv, DatabaseConserves, TopicInv, MemoryInv, PendingInv, ModeInv,
         topicVars, bookVars

-----------------------------------------------------------------------------
(* What is published again, delivered again or overtaken.                  *)

\* A command that was sent may join the topic once more.
LEMMA RedeliverStep == ASSUME IInv, SentInv, Redeliver PROVE IInv'
<1>1. PICK c \in sent : topic' = Append(topic, c) /\ clean' = (clean /\ Idempotent(c))
  BY DEF Redeliver
<1>2. UNCHANGED <<db, handled, mode, bookVars, cacheVars, pending, deposited>>
  BY DEF Redeliver
<1>3. c \in Messages /\ (c.type # "DepositCreated" => c.id \in DOMAIN db'.orders)
  BY <1>2 DEF SentInv
<1>4. TopicInv' /\ (handled < Len(topic) => handled' < Len(topic'))
  BY <1>1, <1>2, <1>3, AppendOK DEF IInv, TopicInv
<1>5. clean' \in BOOLEAN
  BY <1>1 DEF IInv, ModeInv
<1> QED
  BY <1>2, <1>4, <1>5
     DEF IInv, DbInv, DatabaseConserves, MemoryInv, PendingInv, ModeInv, bookVars, cacheVars

\* What has been handled is on the topic still.
LEMMA RejoinStep == ASSUME IInv, Rejoin PROVE IInv'
<1>1. /\ pending = NoTx /\ handled' = 0
      /\ clean' = (clean /\ \A i \in 1 .. handled : Idempotent(topic[i]))
      /\ UNCHANGED <<db, topic, mode, bookVars, cacheVars, pending, deposited>>
  BY DEF Rejoin
<1>2. clean' \in BOOLEAN
  BY <1>1 DEF IInv, ModeInv
<1>3. TopicInv'
  BY <1>1 DEF IInv, TopicInv
<1> QED
  BY <1>1, <1>2, <1>3
     DEF IInv, DbInv, DatabaseConserves, MemoryInv, PendingInv, ModeInv, bookVars, cacheVars

\* Where the k-th of n messages comes from when the i-th goes last, and where
\* it goes.
From(n, i, k) == IF k < i THEN k ELSE IF k < n THEN k + 1 ELSE i
To(n, i, k) == IF k < i THEN k ELSE IF k = i THEN n ELSE k - 1

\* The messages are the same ones, in another order; those before i stay.
LEMMA MovedLastOK ==
    ASSUME NEW q \in Seq(Messages), NEW i \in 1 .. Len(q)
    PROVE  /\ MovedLast(q, i) \in Seq(Messages) /\ Len(MovedLast(q, i)) = Len(q)
           /\ \A k \in 1 .. Len(q) : /\ From(Len(q), i, k) \in 1 .. Len(q)
                                     /\ MovedLast(q, i)[k] = q[From(Len(q), i, k)]
                                     /\ To(Len(q), i, k) \in 1 .. Len(q)
                                     /\ MovedLast(q, i)[To(Len(q), i, k)] = q[k]
           /\ \A k \in 1 .. i - 1 : MovedLast(q, i)[k] = q[k]
<1> DEFINE p == MovedLast(q, i)
<1>1. PICK n \in Nat : n = Len(q)
  OBVIOUS
<1>2. DOMAIN q = 1 .. n /\ i \in 1 .. n /\ \A k \in 1 .. n : q[k] \in Messages
  BY <1>1
<1>3. \A k \in 1 .. n : From(n, i, k) \in 1 .. n /\ To(n, i, k) \in 1 .. n
  BY <1>2 DEF From, To
<1>4. \A k \in 1 .. n : From(n, i, To(n, i, k)) = k
  BY <1>2 DEF From, To
<1>5. p = [k \in 1 .. n |-> q[From(n, i, k)]]
  BY <1>1, <1>2 DEF MovedLast, From
<1>6. \A k \in 1 .. n : p[k] = q[From(n, i, k)] /\ p[k] \in Messages
  BY <1>2, <1>3, <1>5
<1>7. \A k \in 1 .. n : p[To(n, i, k)] = q[k]
  BY <1>3, <1>4, <1>6
<1>8. p \in Seq(Messages) /\ Len(p) = n
  BY <1>5, <1>6
<1>9. \A k \in 1 .. i - 1 : k \in 1 .. n /\ From(n, i, k) = k
  BY <1>2 DEF From
<1>10. \A k \in 1 .. i - 1 : p[k] = q[k]
  BY <1>6, <1>9
<1> QED  BY <1>1, <1>3, <1>6, <1>7, <1>8, <1>10

\* What is overtaken is the i-th message, whose handler has not begun.
LEMMA OvertakeOK ==
    ASSUME IInv, Overtake
    PROVE  \E i \in 1 .. Len(topic) :
             /\ topic' = MovedLast(topic, i) /\ Unread <= i
             /\ topic \in Seq(Messages) /\ handled \in Nat /\ handled < i /\ Unread \in Nat \ {0}
             /\ UNCHANGED <<db, handled, mode, bookVars, cacheVars, pending, deposited, clean>>
<1>1. PICK i \in Unread .. Len(topic) - 1 : topic' = MovedLast(topic, i)
  BY DEF Overtake
<1>2. UNCHANGED <<db, handled, mode, bookVars, cacheVars, pending, deposited, clean>>
  BY DEF Overtake
<1>3. topic \in Seq(Messages) /\ handled \in 0 .. Len(topic) /\ Len(topic) \in Nat
  BY DEF IInv, TopicInv
<1>4. Unread \in Nat \ {0} /\ handled < Unread
  BY <1>3 DEF Unread
<1>5. i \in 1 .. Len(topic) /\ Unread <= i /\ handled < i
  BY <1>3, <1>4
<1> QED  BY <1>1, <1>2, <1>3, <1>4, <1>5

\* The order of the messages does not matter here.
LEMMA OvertakeStep == ASSUME IInv, Overtake PROVE IInv'
<1>1. PICK i \in 1 .. Len(topic) :
        /\ topic' = MovedLast(topic, i) /\ topic \in Seq(Messages)
        /\ UNCHANGED <<db, handled, mode, bookVars, cacheVars, pending, deposited, clean>>
  BY OvertakeOK
<1>2. /\ topic' \in Seq(Messages) /\ Len(topic') = Len(topic)
      /\ \A k \in 1 .. Len(topic) : \E j \in 1 .. Len(topic) : topic'[k] = topic[j]
  BY <1>1, MovedLastOK
<1>3. TopicInv'
  BY <1>1, <1>2 DEF IInv, TopicInv
<1>4. PendingInv'
  BY <1>1, <1>2 DEF IInv, PendingInv
<1> QED
  BY <1>1, <1>3, <1>4 DEF IInv, DbInv, DatabaseConserves, MemoryInv, ModeInv, bookVars, cacheVars

\* What a transaction does, it does to the rows there are.
LEMMA PersistKeeps == ASSUME IInv, Persist PROVE Keeps(db, db')
<1>1. /\ pending # NoTx
      /\ db' = IF Outgoing(pending) = Refused THEN db ELSE Outgoing(pending)
  BY DEF Persist
<1>2. TablesOK(db) /\ PendingInv
  BY DEF IInv, DbInv
<1>3. Outgoing(pending) # Refused => Keeps(db, Outgoing(pending))
  BY <1>1, <1>2, CancelTxKeeps, PlaceTxKeeps DEF Outgoing
<1> QED  BY <1>1, <1>2, <1>3 DEF Keeps

\* A rejection changes a status, and no row or money goes missing.
LEMMA RejectKeeps == ASSUME IInv, RejectOrder PROVE Keeps(db, db')
<1>1. db' = UpdateOrderStatus(db, Command.id, "REJECTED") /\ Fetched("OrderPlaced")
  BY DEF RejectOrder
<1>2. Command.id \in DOMAIN db.orders
  BY <1>1, CommandOK
<1> QED  BY <1>1, <1>2, StatusKeeps DEF IInv, DbInv

\* No row of orders is ever deleted.
LEMMA RowsGrow == ASSUME IInv, Next PROVE DOMAIN db.orders \subseteq DOMAIN db'.orders
<1>1. ASSUME NEW o \in Offers, SubmitOrder(o) PROVE DOMAIN db.orders \subseteq DOMAIN db'.orders
  BY <1>1 DEF SubmitOrder, CreateOrder, Bind, IInv, DbInv, TablesOK
<1>2. ASSUME NEW d \in Deposits, SubmitDeposit(d) PROVE db'.orders = db.orders
  BY <1>2 DEF SubmitDeposit, UpsertBalance, IInv, DbInv, TablesOK
<1>3. CASE RejectOrder
  BY <1>3, RejectKeeps DEF Keeps
<1>4. CASE Persist
  BY <1>4, PersistKeeps DEF Keeps
<1>5. CASE UNCHANGED db
  BY <1>5
<1> QED
  BY <1>1, <1>2, <1>3, <1>4, <1>5
     DEF Next, RequestCancel, HandleDeposit, AcceptOrder, HandleCancel, CancelMissing, CancelResting,
         CommitOffset, Rebuild, Hydrate, Crash, LoseTx, HydrateFails, Redeliver, Rejoin, Overtake

-----------------------------------------------------------------------------
(* The results *)

\* Every step keeps the invariant, ...
LEMMA ExchangeStep == ASSUME IInv, SentInv, [Next]_vars PROVE IInv'
<1>1. ASSUME Next PROVE IInv'
  BY <1>1, SubmitOrderStep, RequestCancelStep, SubmitDepositStep, HandleDepositStep,
     RejectOrderStep, AcceptOrderStep, HandleCancelStep, PersistStep, CommitOffsetStep,
     RebuildStep, HydrateStep, CrashStep, LoseTxStep, HydrateFailsStep, RedeliverStep, RejoinStep,
     OvertakeStep DEF Next
<1>2. CASE UNCHANGED vars
  BY <1>2 DEF vars, topicVars, bookVars, cacheVars, history, IInv, DbInv, DatabaseConserves,
              TopicInv, MemoryInv, PendingInv, ModeInv
<1> QED  BY <1>1, <1>2

\* ... and what is sent is a command about a row.
LEMMA SentStep == ASSUME IInv, SentInv, [Next]_vars PROVE SentInv'
<1>1. ASSUME DOMAIN db.orders \subseteq DOMAIN db'.orders, UNCHANGED sent PROVE SentInv'
  BY <1>1 DEF SentInv
<1>2. ASSUME NEW c \in Messages, Send(c), c.type # "DepositCreated" => c.id \in DOMAIN db'.orders,
             DOMAIN db.orders \subseteq DOMAIN db'.orders
      PROVE  SentInv'
  BY <1>2 DEF Send, SentInv
<1>3. ASSUME NEW o \in Offers, SubmitOrder(o), DOMAIN db.orders \subseteq DOMAIN db'.orders
      PROVE  SentInv'
  <2> DEFINE id == Cardinality(DOMAIN db.orders) + 1
             c == PlaceCommand(id)
  <2>1. id \in OrderIds /\ db' = CreateOrder(db, id, o) /\ Send(c)
    BY <1>3 DEF SubmitOrder
  <2> HIDE DEF id
  <2>2. c \in Messages /\ c.id = id
    BY <2>1 DEF PlaceCommand, Messages
  <2>3. id \in DOMAIN db'.orders
    BY <2>1 DEF CreateOrder, Bind, IInv, DbInv, TablesOK
  <2> HIDE DEF c
  <2> QED  BY <1>2, <1>3, <2>1, <2>2, <2>3
<1>4. ASSUME NEW id \in DOMAIN db.orders, RequestCancel(id) PROVE SentInv'
  <2>1. CancelCommand(id) \in Messages /\ CancelCommand(id).id = id
    BY DEF CancelCommand, Messages, IInv, DbInv, TablesOK
  <2>2. Send(CancelCommand(id)) /\ db' = db
    BY <1>4 DEF RequestCancel
  <2> QED  BY <1>2, <2>1, <2>2
<1>5. ASSUME NEW d \in Deposits, SubmitDeposit(d), DOMAIN db.orders \subseteq DOMAIN db'.orders
      PROVE  SentInv'
  <2>1. DepositCommand(d) \in Messages /\ DepositCommand(d).type = "DepositCreated"
    BY OfferAssumption DEF DepositCommand, Messages
  <2>2. Send(DepositCommand(d))
    BY <1>5 DEF SubmitDeposit
  <2> QED  BY <1>2, <1>5, <2>1, <2>2
<1>6. CASE Next
  <2>1. DOMAIN db.orders \subseteq DOMAIN db'.orders
    BY <1>6, RowsGrow
  <2> QED
    BY <1>1, <1>3, <1>4, <1>5, <1>6, <2>1
       DEF Next, HandleDeposit, RejectOrder, AcceptOrder, HandleCancel, Persist, CommitOffset,
           Rebuild, Hydrate, Crash, LoseTx, HydrateFails, Redeliver, Rejoin, Overtake, history
<1>7. CASE UNCHANGED vars
  BY <1>7 DEF vars, history, SentInv
<1> QED  BY <1>6, <1>7

\* The tables, the topic, the memory of the process and the transaction it
\* has in hand are well-formed in every reachable state.
THEOREM ExchangeInvariant == Spec => [](IInv /\ SentInv)
<1>1. Init => SentInv
  BY DEF Init, SentInv
<1> QED  BY <1>1, ExchangeInit, ExchangeStep, SentStep, PTL DEF Spec

\* Whatever crashes, fails or is repeated, the database neither creates nor
\* destroys money: a batch of trades credits what it debits, and what the
\* constraints refuse of an engine's mistake they refuse as a whole.
THEOREM DatabaseAlwaysConserves == Spec => []DatabaseConserves
<1>1. IInv => DatabaseConserves
  BY DEF IInv, DbInv
<1> QED  BY <1>1, ExchangeInvariant, PTL

\* No balance is ever negative, in the database or in the BalanceCache, and
\* the id map leads to orders of the book.
THEOREM TypeCorrect == Spec => []TypeOK
<1>1. IInv => TypeOK
  <2> SUFFICES ASSUME IInv PROVE TypeOK
    OBVIOUS
  <2>1. Range(orders) \subseteq DOMAIN book
    BY DEF IInv, MemoryInv, Range
  <2> QED
    BY <2>1 DEF IInv, DbInv, TablesOK, TopicInv, MemoryInv, ModeInv, TypeOK, Row, Balances
<1> QED  BY <1>1, ExchangeInvariant, PTL

-----------------------------------------------------------------------------
(* While clean: memory, the transaction in hand and the database agree.    *)

\* The statuses no order leaves.
Terminal == {"FILLED", "CANCELLED"}

\* The resting orders a transaction fills, and the status each gets.
Makers(p) == {f.maker : f \in p.fills}

MakerStatus(p, id) == (CHOOSE f \in p.fills : f.maker = id).status

\* The status a row will have when the transaction in hand is written.
Told(id) ==
    IF pending = NoTx THEN db.orders[id].status
    ELSE IF id = pending.id THEN StatusInDB(pending.status)
    ELSE IF id \in Makers(pending) THEN StatusInDB(MakerStatus(pending, id))
    ELSE db.orders[id].status

\* The orders in q from the k-th message on.
PlacedFrom(q, k) == {q[i].id : i \in {i \in k .. Len(q) : q[i].type = "OrderPlaced"}}

Waiting == PlacedFrom(topic, Unread)

PlacedOnce(q) ==
    \A i, j \in 1 .. Len(q) :
        i # j /\ q[i].type = "OrderPlaced" /\ q[j].type = "OrderPlaced" => q[i].id # q[j].id

\* The transaction in hand is that of the first message, no deposit.
HandInv == pending # NoTx => mode = "up" /\ topic[handled + 1].type # "DepositCreated"

\* Rows are numbered.
RowsInv ==
    /\ DOMAIN db.orders = 1 .. Cardinality(DOMAIN db.orders)
    /\ HandInv

\* An order that waits has left no trace.
WaitingInv ==
    /\ \A k \in db.trades : k.buyer \in DOMAIN db.orders /\ k.seller \in DOMAIN db.orders
    /\ \A id \in Waiting :
        /\ db.orders[id].status = "NEW" /\ id \notin DOMAIN orders
        /\ \A k \in db.trades : k.buyer # id /\ k.seller # id
        /\ pending # NoTx => id # pending.id /\ id \notin Makers(pending)

\* A resting order is that of its row, and found by its id.
RestingInv ==
    \A n \in DOMAIN book :
        /\ node[n] \in DOMAIN db.orders
        /\ node[n] \in DOMAIN orders /\ orders[node[n]] = n
        /\ book[n].user = db.orders[node[n]].user /\ book[n].side = db.orders[node[n]].side
        /\ book[n].price = db.orders[node[n]].price /\ book[n].qty = db.orders[node[n]].qty
        /\ book[n].rem > 0
        /\ mode \in {"rebuilt", "dead"} => book[n].rem = book[n].qty /\ node[n] \in Active

\* The rows tell what is on the book, once they are told.
StatusInv ==
    /\ \A id \in DOMAIN orders : Told(id) \notin Terminal
    /\ mode # "down" => \A id \in DOMAIN db.orders : Told(id) \in {"PLACED", "PARTIAL"} => id \in DOMAIN orders

\* What the transaction in hand is about to write can be written.
PlaceReady ==
    LET r == db.orders[pending.id]
    IN  /\ r.status = "NEW"
        /\ pending.status \in {"PLACED", "PARTIAL", "FILLED"}
        /\ db.available[r.user][LockAsset(r.side)] >= pending.amount

CancelReady ==
    /\ db.orders[pending.id].status \notin Terminal
    /\ pending.fills = {} /\ pending.status = "CANCELLED"

FillsReady ==
    /\ \A f \in pending.fills :
         /\ f.maker \in DOMAIN db.orders /\ f.maker # pending.id
         /\ db.orders[f.maker].status \notin Terminal
         /\ FillKey(pending.id, db.orders[pending.id].side, f) \notin db.trades
    /\ \A f, g \in pending.fills : f.maker = g.maker => f = g

\* The transaction in hand, whichever handler made it, can be written.
TxInv ==
    pending # NoTx =>
        /\ pending.kind = "place" => PlaceReady
        /\ pending.kind = "cancel" => CancelReady
        /\ FillsReady

\* What the transaction in hand moves of u's asset a between the columns.
Held(u, a) ==
    LET r == db.orders[pending.id]
    IN  IF u = r.user /\ a = LockAsset(r.side) THEN pending.amount ELSE 0

\* What the transaction in hand adds to what is locked, and to what is available.
TxLocked(u, a) ==
    IF pending = NoTx THEN 0
    ELSE IF pending.kind = "cancel" THEN -Held(u, a)
    ELSE Held(u, a) - Paid(Legs(db.orders[pending.id], pending.fills), u, a)

TxAvailable(u, a) ==
    IF pending = NoTx THEN 0
    ELSE IF pending.kind = "cancel" THEN Held(u, a)
    ELSE Received(Legs(db.orders[pending.id], pending.fills), u, a) - Held(u, a)

\* What the orders of u on the book b, or in the table, may still cost of a.
Owe(o, q, u, a) == IF o.user = u /\ LockAsset(o.side) = a THEN Due(o.side, o.price, q) ELSE 0

Owes(b, u, a) == Sum([n \in DOMAIN b |-> Owe(b[n], b[n].rem, u, a)])

OwesInDB(u, a) == Sum([id \in Active |-> Owe(db.orders[id], db.orders[id].qty, u, a)])

\* The locked funds cover it; memory is what the database will be.
FundsInv ==
    \A u \in Users, a \in Assets :
        /\ mode # "up" => db.locked[u][a] >= OwesInDB(u, a)
        /\ mode = "up" =>
             /\ locked[u][a] >= Owes(book, u, a)
             /\ locked[u][a] = db.locked[u][a] + TxLocked(u, a)
             /\ available[u][a] + Underway(u, a) = db.available[u][a] + TxAvailable(u, a)

Agreed ==
    WaitingInv /\ RestingInv /\ StatusInv /\ TxInv /\ FundsInv /\ mode # "stuck"

\* While clean, no order is sent to the worker twice either.
AgreeInv == RowsInv /\ (clean => PlacedOnce(topic) /\ Agreed)

-----------------------------------------------------------------------------
(* The topic: what is under way to the worker.                             *)

\* What the message c brings to u of a, and the messages of q after the h-th.
Amount(c, u, a) == IF c.type = "DepositCreated" /\ c.user = u /\ c.asset = a THEN c.amount ELSE 0

Amounts(q, h, u, a) == [i \in h + 1 .. Len(q) |-> Amount(q[i], u, a)]

Came(q, h, u, a) == Sum(Amounts(q, h, u, a))

\* What is underway is the sum of what came after the handled messages, now and next.
LEMMA UnderwayIsCame ==
    \A u, a : /\ Underway(u, a) = Came(topic, handled, u, a)
              /\ Underway(u, a)' = Came(topic', handled', u, a)
BY DEF Underway, Came, Amounts, Amount

\* Amounts are naturals.
LEMMA AmountType ==
    ASSUME NEW c \in Messages, NEW u, NEW a
    PROVE  Amount(c, u, a) \in Nat
BY DEF Amount, Messages

\* So are their sums.
LEMMA CameType ==
    ASSUME NEW q \in Seq(Messages), NEW h \in Nat, NEW u, NEW a
    PROVE  /\ IsFiniteSet(h + 1 .. Len(q))
           /\ Amounts(q, h, u, a) \in [h + 1 .. Len(q) -> Nat]
           /\ \A i \in h + 1 .. Len(q) : Amounts(q, h, u, a)[i] = Amount(q[i], u, a)
           /\ Came(q, h, u, a) \in Nat
<1>1. IsFiniteSet(h + 1 .. Len(q))
  BY FS_Interval
<1>2. \A i \in h + 1 .. Len(q) : q[i] \in Messages
  OBVIOUS
<1>3. Amounts(q, h, u, a) \in [h + 1 .. Len(q) -> Nat]
  BY <1>2, AmountType DEF Amounts
<1>4. \A i \in h + 1 .. Len(q) : Amounts(q, h, u, a)[i] = Amount(q[i], u, a)
  BY DEF Amounts
<1> QED  BY <1>1, <1>3, <1>4, SumType DEF Came

\* A message that joins the topic adds its amount.
LEMMA CameAppended ==
    ASSUME NEW q \in Seq(Messages), NEW h \in 0 .. Len(q), NEW c \in Messages, NEW u, NEW a
    PROVE  Came(Append(q, c), h, u, a) = Came(q, h, u, a) + Amount(c, u, a)
<1> DEFINE p == Append(q, c)
           x == Len(q) + 1
           f == Amounts(q, h, u, a)
           g == Amounts(p, h, u, a)
<1>1. p \in Seq(Messages) /\ Len(p) = x /\ p[x] = c /\ \A i \in 1 .. Len(q) : p[i] = q[i]
  OBVIOUS
<1>2. Len(q) \in Nat /\ h \in Nat
  OBVIOUS
<1> HIDE DEF p
<1>3. (h + 1 .. Len(p)) \ {x} = h + 1 .. Len(q) /\ x \in h + 1 .. Len(p)
  BY <1>1, <1>2
<1> HIDE DEF x
<1>4. f \in [(h + 1 .. Len(p)) \ {x} -> Nat] /\ \A i \in h + 1 .. Len(q) : f[i] = Amount(q[i], u, a)
  <2>1. f \in [h + 1 .. Len(q) -> Nat] /\ \A i \in h + 1 .. Len(q) : f[i] = Amount(q[i], u, a)
    BY <1>2, CameType
  <2> HIDE DEF f
  <2> QED  BY <1>3, <2>1
<1>5. /\ IsFiniteSet(h + 1 .. Len(p)) /\ g \in [h + 1 .. Len(p) -> Nat]
      /\ \A i \in h + 1 .. Len(p) : g[i] = Amount(p[i], u, a)
  BY <1>1, <1>2, CameType
<1>6. \A i \in (h + 1 .. Len(p)) \ {x} : g[i] = f[i]
  <2> TAKE i \in (h + 1 .. Len(p)) \ {x}
  <2>1. i \in h + 1 .. Len(q) /\ i \in h + 1 .. Len(p)
    BY <1>3
  <2>2. i \in 1 .. Len(q)
    BY <1>2, <2>1
  <2> HIDE DEF f, g
  <2>3. f[i] = Amount(q[i], u, a) /\ g[i] = Amount(p[i], u, a) /\ p[i] = q[i]
    BY <1>1, <1>4, <1>5, <2>1, <2>2
  <2> QED  BY <2>3
<1>7. g[x] = Amount(c, u, a)
  BY <1>1, <1>3, <1>5
<1> HIDE DEF f, g
<1> DEFINE T == h + 1 .. Len(p)
<1>8. Sum(g) = Sum(f) + g[x]
  <2>1. IsFiniteSet(T) /\ x \in T /\ f \in [T \ {x} -> Nat] /\ g \in [T -> Nat]
        /\ \A i \in T \ {x} : g[i] = f[i]
    BY <1>3, <1>4, <1>5, <1>6
  <2> HIDE DEF T
  <2> QED  BY <2>1, SumExtend
<1> QED  BY <1>7, <1>8 DEF Came, f, g, p

\* A message that is handled takes its amount out.
LEMMA CameHandled ==
    ASSUME NEW q \in Seq(Messages), NEW h \in Nat, h < Len(q), NEW u, NEW a
    PROVE  Came(q, h, u, a) = Came(q, h + 1, u, a) + Amount(q[h + 1], u, a)
<1> DEFINE f == Amounts(q, h, u, a)
           g == Amounts(q, h + 1, u, a)
<1>1. IsFiniteSet(h + 1 .. Len(q)) /\ f \in [h + 1 .. Len(q) -> Nat]
  BY CameType
<1>2. (h + 1 .. Len(q)) \ {h + 1} = (h + 1) + 1 .. Len(q) /\ h + 1 \in h + 1 .. Len(q)
  OBVIOUS
<1>3. [i \in (h + 1 .. Len(q)) \ {h + 1} |-> f[i]] = g
  BY <1>2 DEF Amounts
<1>4. f[h + 1] = Amount(q[h + 1], u, a)
  BY <1>2 DEF Amounts
<1> HIDE DEF f, g
<1>5. Sum(f) = Sum([i \in (h + 1 .. Len(q)) \ {h + 1} |-> f[i]]) + f[h + 1]
  BY <1>1, <1>2, SumSplit
<1> QED  BY <1>3, <1>4, <1>5 DEF Came, f, g

\* A commit drops what has been handled.
LEMMA CameShifted ==
    ASSUME NEW q \in Seq(Messages), NEW h \in 0 .. Len(q), NEW u, NEW a
    PROVE  Came(SubSeq(q, h + 1, Len(q)), 0, u, a) = Came(q, h, u, a)
<1> DEFINE p == SubSeq(q, h + 1, Len(q))
           f == Amounts(q, h, u, a)
           g == Amounts(p, 0, u, a)
           S == h + 1 .. Len(q)
           T == 0 + 1 .. Len(p)
<1>1. Len(q) \in Nat /\ h \in Nat
  OBVIOUS
<1>2. p \in Seq(Messages) /\ Len(p) = Len(q) - h /\ \A i \in 1 .. Len(q) - h : p[i] = q[h + i]
  BY <1>1
<1> HIDE DEF p
<1>3. /\ IsFiniteSet(S) /\ f \in [S -> Nat] /\ \A i \in S : f[i] = Amount(q[i], u, a)
      /\ IsFiniteSet(T) /\ g \in [T -> Nat] /\ \A i \in T : g[i] = Amount(p[i], u, a)
  BY <1>1, <1>2, CameType
<1>4. \A i \in S : i - h \in T /\ f[i] = g[i - h]
  <2> TAKE i \in S
  <2>1. i - h \in T /\ i - h \in 1 .. Len(q) - h /\ h + (i - h) = i
    BY <1>1, <1>2
  <2>2. p[i - h] = q[i]
    BY <1>2, <2>1
  <2> QED  BY <1>3, <2>1, <2>2
<1>5. \A i \in T : i + h \in S /\ g[i] = f[i + h]
  <2> TAKE i \in T
  <2>1. i + h \in S /\ i \in 1 .. Len(q) - h /\ h + i = i + h
    BY <1>1, <1>2
  <2>2. p[i] = q[i + h]
    BY <1>2, <2>1
  <2> QED  BY <1>3, <2>1, <2>2
<1> DEFINE down == [i \in S |-> i - h]
           up == [i \in T |-> i + h]
<1>6. down \in Injection(S, T)
  <2>1. down \in [S -> T]
    BY <1>4
  <2>2. \A i, j \in S : down[i] = down[j] => i = j
    BY <1>1
  <2> QED  BY <2>1, <2>2 DEF Injection, IsInjective
<1>7. up \in Injection(T, S)
  <2>1. up \in [T -> S]
    BY <1>5
  <2>2. \A i, j \in T : up[i] = up[j] => i = j
    BY <1>1, <1>2
  <2> QED  BY <2>1, <2>2 DEF Injection, IsInjective
<1>8. (\A i \in S : f[i] <= g[down[i]]) /\ (\A i \in T : g[i] <= f[up[i]])
  <2>1. (\A i \in S : f[i] \in Nat) /\ (\A i \in T : g[i] \in Nat)
    BY <1>3
  <2>2. (\A i \in S : down[i] = i - h) /\ (\A i \in T : up[i] = i + h)
    OBVIOUS
  <2> HIDE DEF f, g, S, T, down, up
  <2>3. \A i \in S : f[i] <= g[down[i]]
    BY <1>4, <2>1, <2>2
  <2>4. \A i \in T : g[i] <= f[up[i]]
    BY <1>5, <2>1, <2>2
  <2> QED  BY <2>3, <2>4
<1> HIDE DEF f, g, S, T, down, up
<1>9. Sum(f) <= Sum(g)
  BY <1>3, <1>6, <1>8, SumInjected
<1>10. Sum(g) <= Sum(f)
  BY <1>3, <1>7, <1>8, SumInjected
<1>11. Sum(f) \in Nat /\ Sum(g) \in Nat
  BY <1>3, SumType
<1>12. Sum(f) = Sum(g)
  BY <1>9, <1>10, <1>11
<1> QED  BY <1>12 DEF Came, f, g, S, T, p

\* Which orders wait when a message joins the topic, ...
LEMMA PlacedAppended ==
    ASSUME NEW q \in Seq(Messages), NEW c \in Messages, NEW k \in Nat \ {0}
    PROVE  \A id \in PlacedFrom(Append(q, c), k) :
             id \in PlacedFrom(q, k) \/ (c.type = "OrderPlaced" /\ id = c.id)
<1> DEFINE p == Append(q, c)
<1>1. Len(q) \in Nat /\ Len(p) = Len(q) + 1 /\ p[Len(q) + 1] = c
      /\ \A i \in 1 .. Len(q) : p[i] = q[i]
  OBVIOUS
<1> HIDE DEF p
<1>2. ASSUME NEW i \in k .. Len(p), p[i].type = "OrderPlaced"
      PROVE  p[i].id \in PlacedFrom(q, k) \/ (c.type = "OrderPlaced" /\ p[i].id = c.id)
  <2>1. CASE i = Len(q) + 1
    BY <1>1, <1>2, <2>1
  <2>2. CASE i # Len(q) + 1
    <3>1. i \in k .. Len(q) /\ p[i] = q[i]
      BY <1>1, <2>2
    <3> QED  BY <1>2, <3>1 DEF PlacedFrom
  <2> QED  BY <2>1, <2>2
<1>3. \A id \in PlacedFrom(p, k) : \E i \in k .. Len(p) : p[i].type = "OrderPlaced" /\ p[i].id = id
  BY DEF PlacedFrom
<1>4. \A id \in PlacedFrom(p, k) : id \in PlacedFrom(q, k) \/ (c.type = "OrderPlaced" /\ id = c.id)
  BY <1>2, <1>3
<1> QED  BY <1>4 DEF p

\* ... when one is taken from it, ...
LEMMA PlacedTaken ==
    ASSUME NEW q \in Seq(Messages), NEW k \in 1 .. Len(q)
    PROVE  /\ PlacedFrom(q, k + 1) \subseteq PlacedFrom(q, k)
           /\ q[k].type = "OrderPlaced" => q[k].id \in PlacedFrom(q, k)
           /\ q[k].type = "OrderPlaced" /\ PlacedOnce(q) => q[k].id \notin PlacedFrom(q, k + 1)
<1>1. k + 1 .. Len(q) \subseteq k .. Len(q) /\ k \in k .. Len(q) /\ k \notin k + 1 .. Len(q)
      /\ k + 1 .. Len(q) \subseteq 1 .. Len(q)
  OBVIOUS
<1> QED  BY <1>1 DEF PlacedFrom, PlacedOnce

\* ... and when what was handled is committed.
LEMMA PlacedShifted ==
    ASSUME NEW q \in Seq(Messages), NEW h \in 0 .. Len(q), NEW k \in Nat \ {0}
    PROVE  /\ PlacedFrom(SubSeq(q, h + 1, Len(q)), k) \subseteq PlacedFrom(q, h + k)
           /\ PlacedOnce(q) => PlacedOnce(SubSeq(q, h + 1, Len(q)))
<1> DEFINE p == SubSeq(q, h + 1, Len(q))
<1>1. Len(q) \in Nat /\ h \in Nat
  OBVIOUS
<1>2. p \in Seq(Messages) /\ Len(p) = Len(q) - h /\ \A i \in 1 .. Len(q) - h : p[i] = q[h + i]
  BY <1>1
<1> HIDE DEF p
<1>3. \A i \in 1 .. Len(p) : h + i \in 1 .. Len(q) /\ p[i] = q[h + i]
  BY <1>1, <1>2
<1>4. \A i \in k .. Len(p) : i \in 1 .. Len(p) /\ h + i \in h + k .. Len(q)
  BY <1>1, <1>2
<1>5. PlacedFrom(p, k) \subseteq PlacedFrom(q, h + k)
  <2>1. \A i \in k .. Len(p) : h + i \in h + k .. Len(q) /\ p[i] = q[h + i]
    BY <1>3, <1>4
  <2>2. \A id \in PlacedFrom(p, k) : \E i \in k .. Len(p) : p[i].type = "OrderPlaced" /\ p[i].id = id
    BY DEF PlacedFrom
  <2>3. ASSUME NEW id \in PlacedFrom(p, k) PROVE id \in PlacedFrom(q, h + k)
    <3>1. PICK i \in k .. Len(p) : p[i].type = "OrderPlaced" /\ p[i].id = id
      BY <2>2
    <3>2. h + i \in h + k .. Len(q) /\ q[h + i].type = "OrderPlaced" /\ q[h + i].id = id
      BY <2>1, <3>1
    <3> QED  BY <3>2 DEF PlacedFrom
  <2> QED  BY <2>3
<1>6. ASSUME PlacedOnce(q) PROVE PlacedOnce(p)
  <2> SUFFICES ASSUME NEW i \in 1 .. Len(p), NEW j \in 1 .. Len(p), i # j,
                      p[i].type = "OrderPlaced", p[j].type = "OrderPlaced"
               PROVE  p[i].id # p[j].id
    BY DEF PlacedOnce
  <2>1. h + i \in 1 .. Len(q) /\ h + j \in 1 .. Len(q) /\ p[i] = q[h + i] /\ p[j] = q[h + j]
    BY <1>3
  <2>2. h + i # h + j
    BY <1>1
  <2> QED  BY <1>6, <2>1, <2>2 DEF PlacedOnce
<1> QED  BY <1>5, <1>6 DEF p

\* An order that joins the topic is the only one of its id.
LEMMA PlacedOnceAppended ==
    ASSUME NEW q \in Seq(Messages), NEW c \in Messages, PlacedOnce(q),
           c.type = "OrderPlaced" => c.id \notin PlacedFrom(q, 1)
    PROVE  PlacedOnce(Append(q, c))
<1> DEFINE p == Append(q, c)
           x == Len(q) + 1
<1>1. Len(q) \in Nat /\ Len(p) = x /\ p[x] = c /\ \A i \in 1 .. Len(q) : p[i] = q[i]
  OBVIOUS
<1> HIDE DEF p
<1> SUFFICES ASSUME NEW i \in 1 .. Len(p), NEW j \in 1 .. Len(p), i # j,
                    p[i].type = "OrderPlaced", p[j].type = "OrderPlaced"
             PROVE  p[i].id # p[j].id
  BY DEF PlacedOnce, p
<1>2. \A k \in 1 .. Len(p) : k = x \/ (k \in 1 .. Len(q) /\ p[k] = q[k])
  BY <1>1
<1>3. \A k \in 1 .. Len(q) : q[k].type = "OrderPlaced" => q[k].id \in PlacedFrom(q, 1)
  BY DEF PlacedFrom
<1>4. CASE i = x
  BY <1>1, <1>2, <1>3, <1>4
<1>5. CASE j = x
  BY <1>1, <1>2, <1>3, <1>5
<1>6. CASE i # x /\ j # x
  BY <1>2, <1>6 DEF PlacedOnce
<1> QED  BY <1>4, <1>5, <1>6

\* The orders on the topic are rows.
LEMMA PlacedKnown ==
    ASSUME TopicInv, NEW k \in Nat \ {0}
    PROVE  PlacedFrom(topic, k) \subseteq DOMAIN db.orders
<1>1. \A i \in k .. Len(topic) : i \in 1 .. Len(topic)
  BY DEF TopicInv
<1> QED  BY <1>1 DEF TopicInv, PlacedFrom

-----------------------------------------------------------------------------
(* What orders may still cost.  Amounts are rounded down, one by one.      *)

\* What an order owes is a natural number.
LEMMA OweType ==
    ASSUME NEW o, o.price \in Prices, NEW q \in Nat, NEW u, NEW a
    PROVE  Owe(o, q, u, a) \in Nat
BY DueType DEF Owe

\* Paying for a part and for the rest costs no more than paying at once.
LEMMA OweSplit ==
    ASSUME NEW o, o.price \in Prices, NEW q \in Nat, NEW c \in Nat, c <= q, NEW u, NEW a
    PROVE  Owe(o, q - c, u, a) + Owe(o, c, u, a) <= Owe(o, q, u, a)
<1>1. PICK p \in Nat : p = o.price
  BY PositiveAssumption
<1>2. PICK r \in Nat : r = q - c /\ r + c = q
  <2>1. q - c \in Nat /\ (q - c) + c = q
    OBVIOUS
  <2> QED  BY <2>1
<1>3. p * r \in Nat /\ p * c \in Nat /\ p * q = p * r + p * c
  BY <1>2
<1>4. Notional(p, r) + Notional(p, c) <= Notional(p, q)
  BY <1>3, DivAdd, PositiveAssumption DEF Notional
<1>5. Due(o.side, p, r) + Due(o.side, p, c) <= Due(o.side, p, q)
  BY <1>2, <1>4 DEF Due
<1> QED  BY <1>1, <1>2, <1>5 DEF Owe

\* What the orders on a book cost, one by one.
Costs(b, u, a) == [n \in DOMAIN b |-> Owe(b[n], b[n].rem, u, a)]

\* So is what all orders of a book owe, a sum over the book.
LEMMA OwesType ==
    ASSUME NEW b, BookOK(b), NEW u, NEW a
    PROVE  /\ Costs(b, u, a) \in [DOMAIN b -> Nat] /\ IsFiniteSet(DOMAIN b)
           /\ Owes(b, u, a) = Sum(Costs(b, u, a)) /\ Owes(b, u, a) \in Nat
<1>1. \A n \in DOMAIN b : b[n].price \in Prices /\ b[n].rem \in Nat
  BY DEF BookOK, Resting
<1>2. Costs(b, u, a) \in [DOMAIN b -> Nat]
  BY <1>1, OweType DEF Costs
<1>3. Owes(b, u, a) = Sum(Costs(b, u, a)) /\ IsFiniteSet(DOMAIN b)
  BY DEF Owes, Costs, BookOK
<1> QED  BY <1>2, <1>3, SumType

\* An order that leaves the book takes its cost along.
LEMMA OwesUnbound ==
    ASSUME NEW b, BookOK(b), NEW n \in DOMAIN b, NEW u, NEW a
    PROVE  /\ Owes(b, u, a) = Owes(Unbind(b, n), u, a) + Owe(b[n], b[n].rem, u, a)
           /\ Owes(Unbind(b, n), u, a) \in Nat /\ Owe(b[n], b[n].rem, u, a) \in Nat
<1> DEFINE f == Costs(b, u, a)
           c == Unbind(b, n)
<1>1. f \in [DOMAIN b -> Nat] /\ IsFiniteSet(DOMAIN b) /\ Owes(b, u, a) = Sum(f)
  BY OwesType
<1>2. f[n] = Owe(b[n], b[n].rem, u, a)
  BY DEF Costs
<1>3. DOMAIN c = DOMAIN b \ {n} /\ \A m \in DOMAIN b \ {n} : c[m] = b[m]
  BY DEF Unbind, Restrict
<1>4. BookOK(c)
  <2>1. IsFiniteSet(DOMAIN b \ {n})
    BY <1>1, FS_RemoveElement
  <2>2. c \in [DOMAIN c -> Resting]
    BY DEF BookOK, Unbind, Restrict
  <2> QED  BY <1>3, <2>1, <2>2 DEF BookOK
<1>5. Owes(c, u, a) \in Nat
  BY <1>4, OwesType
<1>6. Costs(c, u, a) = [m \in DOMAIN b \ {n} |-> f[m]]
  <2>1. \A m \in DOMAIN b \ {n} : f[m] = Owe(c[m], c[m].rem, u, a)
    BY <1>3 DEF Costs
  <2> QED  BY <1>3, <2>1 DEF Costs
<1>7. Owes(c, u, a) = Sum([m \in DOMAIN b \ {n} |-> f[m]])
  BY <1>4, <1>6, OwesType
<1>8. f[n] \in Nat
  BY <1>1
<1> HIDE DEF f, c
<1>9. Sum(f) = Sum([m \in DOMAIN b \ {n} |-> f[m]]) + f[n]
  BY <1>1, SumSplit
<1> QED  BY <1>1, <1>2, <1>5, <1>7, <1>8, <1>9 DEF c

-----------------------------------------------------------------------------
(* The funds locked for the orders cover what a placement makes them pay.  *)

\* What is taken of the resting orders of u costs of a, one by one, and what
\* is left of them.
Taken(t, u, a) == [m \in DOMAIN book |-> Owe(book[m], Consumed(book, t, m), u, a)]
Left(t, u, a) ==
    [m \in DOMAIN book |-> Owe(book[m], book[m].rem - Consumed(book, t, m), u, a)]

Consumption(t) == [m \in Reachable(book, t) |-> Consumed(book, t, m)]

\* What the taker's matching pays off and what it leaves is covered by what the
\* book owes.
LEMMA TakenAndLeft ==
    ASSUME BookOK(book), NEW t, TakerOK(book, t), NEW u, NEW a
    PROVE  /\ Taken(t, u, a) \in [DOMAIN book -> Nat] /\ Left(t, u, a) \in [DOMAIN book -> Nat]
           /\ Sum(Taken(t, u, a)) \in Nat /\ Sum(Left(t, u, a)) \in Nat
           /\ Sum(Left(t, u, a)) + Sum(Taken(t, u, a)) <= Owes(book, u, a)
<1>1. ASSUME NEW m \in DOMAIN book
      PROVE  /\ book[m].price \in Prices /\ book[m].rem \in Nat
             /\ Consumed(book, t, m) \in Nat /\ Consumed(book, t, m) <= book[m].rem
             /\ book[m].rem - Consumed(book, t, m) \in Nat
  <2>1. /\ book[m].price \in Prices /\ book[m].rem \in Nat
        /\ Consumed(book, t, m) \in Nat /\ Consumed(book, t, m) <= book[m].rem
    BY ConsumedOK DEF TakerOK, BookOK, Resting
  <2> QED  BY <2>1
<1> DEFINE f == Taken(t, u, a)
           g == Left(t, u, a)
<1>2. f \in [DOMAIN book -> Nat] /\ g \in [DOMAIN book -> Nat]
  BY <1>1, OweType DEF Taken, Left
<1>3. IsFiniteSet(DOMAIN book) /\ Owes(book, u, a) = Sum(Costs(book, u, a))
  BY OwesType
<1> DEFINE h == [m \in DOMAIN book |-> g[m] + f[m]]
<1>4. \A m \in DOMAIN book : h[m] <= Costs(book, u, a)[m]
  <2>1. ASSUME NEW m \in DOMAIN book
        PROVE  g[m] + f[m] <= Owe(book[m], book[m].rem, u, a)
    BY <1>1, OweSplit DEF Taken, Left
  <2> QED  BY <2>1 DEF Costs
<1> HIDE DEF f, g
<1>5. Sum(h) = Sum(g) + Sum(f) /\ h \in [DOMAIN book -> Nat]
  BY <1>2, <1>3, SumAdd
<1>6. Sum(f) \in Nat /\ Sum(g) \in Nat
  BY <1>2, <1>3, SumType
<1> HIDE DEF h
<1>7. Sum(h) <= Sum(Costs(book, u, a))
  BY <1>3, <1>4, <1>5, OwesType, SumBelow
<1> QED  BY <1>2, <1>3, <1>5, <1>6, <1>7 DEF f, g

\* After the placement of t the book costs what is left of the orders it met
\* and what is left of t.
LEMMA OwesAfter ==
    ASSUME BookOK(book), NEW t, TakerOK(book, t), NEW u, NEW a
    PROVE  /\ Owes(Outcome(book, t), u, a) <= Sum(Left(t, u, a)) + Owe(t, Leftover(book, t), u, a)
           /\ Leftover(book, t) \in Nat /\ Owes(Outcome(book, t), u, a) \in Nat
<1> DEFINE survivors == {m \in DOMAIN book : Consumed(book, t, m) < book[m].rem}
           others == [m \in survivors |-> [book[m] EXCEPT !.rem = @ - Consumed(book, t, m)]]
           left == Leftover(book, t)
           after == Outcome(book, t)
           f == Costs(after, u, a)
           kept == [m \in survivors |-> f[m]]
<1>1. left \in Nat /\ t.price \in Prices
  BY NeverOverfilled DEF Leftover, TakerOK
<1>2. BookOK(after)
  BY OutcomeOK
<1>3. f \in [DOMAIN after -> Nat] /\ IsFiniteSet(DOMAIN after)
      /\ Owes(after, u, a) = Sum(f) /\ Sum(f) \in Nat
  BY <1>2, OwesType
<1>4. /\ Left(t, u, a) \in [DOMAIN book -> Nat] /\ IsFiniteSet(DOMAIN book)
      /\ Sum(Left(t, u, a)) \in Nat
  BY TakenAndLeft DEF BookOK
<1>5. /\ survivors \subseteq DOMAIN after /\ t.id \notin survivors
      /\ DOMAIN after = IF left = 0 THEN survivors ELSE survivors \cup {t.id}
      /\ left # 0 => after[t.id] = AsResting(t, left)
  BY DEF Outcome, Bind, TakerOK
<1>6. \A m \in survivors : f[m] = Left(t, u, a)[m]
  <2> TAKE m \in survivors
  <2>1. after[m] = [book[m] EXCEPT !.rem = @ - Consumed(book, t, m)]
    BY DEF Outcome, Bind, TakerOK
  <2>2. book[m] \in Resting
    BY DEF BookOK
  <2>3. /\ after[m].rem = book[m].rem - Consumed(book, t, m)
        /\ after[m].user = book[m].user /\ after[m].side = book[m].side
        /\ after[m].price = book[m].price
    BY <2>1, <2>2 DEF Resting
  <2> HIDE DEF after
  <2>4. f[m] = Owe(after[m], after[m].rem, u, a)
    BY <1>5 DEF Costs
  <2> QED  BY <2>3, <2>4 DEF Owe, Left
<1>7. survivors \subseteq DOMAIN book
  OBVIOUS
<1> HIDE DEF survivors, others, left, after, f
<1>8. kept \in [survivors -> Nat] /\ Sum(kept) <= Sum(Left(t, u, a)) /\ Sum(kept) \in Nat
  <2>1. kept \in [survivors -> Nat] /\ \A m \in survivors : kept[m] = Left(t, u, a)[m]
    BY <1>3, <1>5, <1>6
  <2>2. \A m \in survivors : kept[m] \in Nat
    BY <2>1
  <2> DEFINE b == [m \in survivors |-> m]
  <2>3. b \in Injection(survivors, DOMAIN book) /\ \A m \in survivors : b[m] = m
    BY <1>7 DEF Injection, IsInjective
  <2>4. \A m \in survivors : kept[m] <= Left(t, u, a)[b[m]]
    BY <2>1, <2>2, <2>3
  <2> HIDE DEF kept, b
  <2>5. IsFiniteSet(survivors) /\ Sum(kept) <= Sum(Left(t, u, a))
    BY <1>4, <2>1, <2>3, <2>4, SumInjected
  <2> QED  BY <2>1, <2>5, SumType
<1>9. Owe(t, left, u, a) \in Nat
  BY <1>1, OweType
<1>10. CASE left = 0
  <2>1. f = kept
    BY <1>3, <1>5, <1>10
  <2> QED  BY <1>1, <1>3, <1>4, <1>8, <1>9, <2>1 DEF left, after
<1>11. CASE left # 0
  <2>1. t.id \in DOMAIN after /\ DOMAIN after \ {t.id} = survivors
    BY <1>5, <1>11
  <2>2. f[t.id] = Owe(t, left, u, a)
    <3>1. f[t.id] = Owe(after[t.id], after[t.id].rem, u, a)
      BY <2>1 DEF f, Costs
    <3>2. after[t.id] = AsResting(t, left)
      BY <1>5, <1>11
    <3> QED  BY <3>1, <3>2 DEF AsResting, Owe
  <2>3. Sum(f) = Sum([m \in DOMAIN after \ {t.id} |-> f[m]]) + f[t.id]
    BY <1>3, <2>1, SumSplit
  <2>4. Sum(f) = Sum(kept) + Owe(t, left, u, a)
    BY <2>1, <2>2, <2>3
  <2> QED  BY <1>1, <1>3, <1>4, <1>8, <1>9, <2>4 DEF left, after
<1> QED  BY <1>10, <1>11

\* What the payment l is, for the fill of the resting order m by the order r.
ByTaker(l, r, t, m) ==
    /\ l.asset = LockAsset(r.side) /\ l.from = r.user
    /\ l.amount = Due(r.side, book[m].price, Consumed(book, t, m))

ByMaker(l, r, t, m) ==
    /\ l.asset = LockAsset(book[m].side) /\ l.asset # LockAsset(r.side)
    /\ l.from = book[m].user
    /\ l.amount = Due(book[m].side, book[m].price, Consumed(book, t, m))

LegOf(l, r, t, m) ==
    m \in Reachable(book, t) /\ (ByTaker(l, r, t, m) \/ ByMaker(l, r, t, m))

\* Each fill is paid for on both sides, once.
LEMMA LegsAreOfFills ==
    ASSUME BookOK(book), NEW r \in Row, NEW t, TakerOK(book, t), t.side = r.side, NEW index
    PROVE  /\ \A l \in Legs(r, Fills(t, index)) : LegOf(l, r, t, l.n)
           /\ \A k, l \in Legs(r, Fills(t, index)) : k.n = l.n /\ k.asset = l.asset => k = l
<1> DEFINE F == Fills(t, index)
           c(m) == Consumed(book, t, m)
           fill(m) == [n |-> m, maker |-> node[m], user |-> book[m].user, price |-> book[m].price,
                       qty |-> c(m), status |-> IF node[m] \in DOMAIN index THEN "NEW" ELSE "FILLED"]
           buyer(f) == IF r.side = "BUY" THEN r.user ELSE f.user
           seller(f) == IF r.side = "BUY" THEN f.user ELSE r.user
           quote(f) == [n |-> f.n, asset |-> "USD", amount |-> Notional(f.price, f.qty),
                        from |-> buyer(f), to |-> seller(f)]
           base(f) == [n |-> f.n, asset |-> "BTC", amount |-> f.qty,
                       from |-> seller(f), to |-> buyer(f)]
<1>1. F = {fill(m) : m \in {m \in DOMAIN book : c(m) > 0}}
  BY DEF Fills
<1>2. \A m \in DOMAIN book : c(m) > 0 => m \in Reachable(book, t)
  BY DEF Consumed
<1>3. \A m \in Reachable(book, t) :
        /\ m \in DOMAIN book /\ book[m].side \in Sides /\ book[m].side # r.side
        /\ book[m].price \in Nat
  BY PositiveAssumption DEF Reachable, Facing, BookOK, Resting
<1>4. r.side \in Sides
  BY DEF Row
<1> HIDE DEF c
<1>5. ASSUME NEW l \in Legs(r, F)
      PROVE  \E m \in Reachable(book, t) : c(m) > 0 /\ (l = quote(fill(m)) \/ l = base(fill(m)))
  <2>1. \E f \in F : l = quote(f) \/ l = base(f)
    BY DEF Legs
  <2> QED  BY <1>1, <1>2, <2>1
<1>6. ASSUME NEW m \in Reachable(book, t)
      PROVE  /\ LegOf(quote(fill(m)), r, t, m) /\ LegOf(base(fill(m)), r, t, m)
             /\ quote(fill(m)).n = m /\ base(fill(m)).n = m
             /\ quote(fill(m)).asset = "USD" /\ base(fill(m)).asset = "BTC"
  <2>1. m \in DOMAIN book /\ book[m].side \in Sides /\ book[m].side # r.side
    BY <1>3
  <2>2. CASE r.side = "BUY"
    <3>1. book[m].side = "SELL"
      BY <2>1, <2>2 DEF Sides
    <3>2. ByTaker(quote(fill(m)), r, t, m)
      BY <2>2 DEF ByTaker, LockAsset, Due, c
    <3>3. ByMaker(base(fill(m)), r, t, m)
      BY <2>2, <3>1 DEF ByMaker, LockAsset, Due, c
    <3> QED  BY <3>2, <3>3 DEF LegOf
  <2>3. CASE r.side = "SELL"
    <3>1. book[m].side = "BUY"
      BY <2>1, <2>3 DEF Sides
    <3>2. ByTaker(base(fill(m)), r, t, m)
      BY <2>3 DEF ByTaker, LockAsset, Due, c
    <3>3. ByMaker(quote(fill(m)), r, t, m)
      BY <2>3, <3>1 DEF ByMaker, LockAsset, Due, c
    <3> QED  BY <3>2, <3>3 DEF LegOf
  <2> QED  BY <1>4, <2>2, <2>3 DEF Sides
<1> HIDE DEF F, fill, quote, base
<1>7. \A l \in Legs(r, F) : LegOf(l, r, t, l.n)
  BY <1>5, <1>6
<1>8. ASSUME NEW k \in Legs(r, F), NEW l \in Legs(r, F), k.n = l.n, k.asset = l.asset
      PROVE  k = l
  <2>1. PICK m \in Reachable(book, t) : k = quote(fill(m)) \/ k = base(fill(m))
    BY <1>5
  <2>2. PICK n \in Reachable(book, t) : l = quote(fill(n)) \/ l = base(fill(n))
    BY <1>5
  <2>3. m = n
    BY <1>6, <1>8, <2>1, <2>2
  <2> QED  BY <1>6, <1>8, <2>1, <2>2, <2>3
<1> QED  BY <1>7, <1>8 DEF F

\* A price that crosses the limit costs no more than the limit.
LEMMA DueMonotone ==
    ASSUME NEW s, NEW p \in Nat, NEW k \in Nat, Crosses(s, k, p), NEW q \in Nat
    PROVE  Due(s, p, q) <= Due(s, k, q)
<1>1. CASE s = "BUY"
  <2>1. p <= k
    BY <1>1 DEF Crosses
  <2>2. p * q \in Nat /\ k * q \in Nat /\ p * q <= k * q
    BY <2>1
  <2> QED  BY <1>1, <2>2, DivMonotone, PositiveAssumption DEF Due, Notional
<1>2. CASE s # "BUY"
  BY <1>2 DEF Due
<1> QED  BY <1>1, <1>2

\* Many fills cost no more than one of their total quantity.
LEMMA DueOfSum ==
    ASSUME NEW s, NEW k \in Nat, NEW R, IsFiniteSet(R), NEW c \in [R -> Nat]
    PROVE  /\ [m \in R |-> Due(s, k, c[m])] \in [R -> Nat]
           /\ Sum([m \in R |-> Due(s, k, c[m])]) <= Due(s, k, Sum(c))
<1>1. PICK n \in Nat : n = Sum(c)
  BY SumType
<1>2. CASE s = "BUY"
  <2> DEFINE f == [m \in R |-> k * c[m]]
             q == [m \in R |-> f[m] \div Decimals]
  <2>1. f \in [R -> Nat]
    <3>1. \A m \in R : k * c[m] \in Nat
      <4> TAKE m \in R
      <4>1. c[m] \in Nat
        OBVIOUS
      <4> QED  BY <4>1
    <3> QED  BY <3>1
  <2>2. [m \in R |-> Due(s, k, c[m])] = q
    BY <1>2 DEF Due, Notional
  <2>3. Sum(f) = k * n
    BY <1>1, SumScale
  <2> HIDE DEF f
  <2>4. Sum(q) <= (k * n) \div Decimals
    BY <2>1, <2>3, SumDiv, PositiveAssumption
  <2>5. q \in [R -> Nat]
    <3>1. \A m \in R : f[m] \div Decimals \in Nat
      BY <2>1, DivBound, PositiveAssumption
    <3> QED  BY <3>1
  <2> HIDE DEF q
  <2> QED  BY <1>1, <1>2, <2>2, <2>4, <2>5 DEF Due, Notional
<1>3. CASE s # "BUY"
  <2>1. [m \in R |-> Due(s, k, c[m])] = c /\ Due(s, k, n) = n
    BY <1>3 DEF Due
  <2> QED  BY <1>1, <2>1
<1> QED  BY <1>2, <1>3

\* A user who does not pay pays nothing.
LEMMA NoneIsZero == \A f : DOMAIN f = {} => Sum(f) = 0
<1> TAKE f
<1> HAVE DOMAIN f = {}
<1>1. Units(f) = {}
  BY DEF Units
<1> QED  BY <1>1, FS_EmptySet DEF Sum

\* What r pays for its fills is covered by its limit price; what the others
\* pay by the cost of what is taken of their orders.
LEMMA PaidCovered ==
    ASSUME BookOK(book), NEW r \in Row, NEW t, TakerOK(book, t), t.side = r.side,
           t.price = r.price, t.user = r.user, NEW index, NEW u \in Users, NEW a \in Assets
    PROVE  /\ Paid(Legs(r, Fills(t, index)), u, a)
                <= Sum(Taken(t, u, a)) + Owe(t, Sum(Consumption(t)), u, a)
           /\ Paid(Legs(r, Fills(t, index)), u, a) \in Nat
<1> DEFINE legs == Legs(r, Fills(t, index))
           S == {l \in legs : l.from = u /\ l.asset = a}
           f == [l \in S |-> l.amount]
           c == Consumption(t)
           R == Reachable(book, t)
<1>1. /\ \A l \in legs : LegOf(l, r, t, l.n)
      /\ \A k, l \in legs : k.n = l.n /\ k.asset = l.asset => k = l
  BY LegsAreOfFills
<1>2. IsFiniteSet(legs) /\ \A l \in legs : Leg(l)
  BY FillsOK, LegsOK
<1>3. Paid(legs, u, a) = Sum(f) /\ IsFiniteSet(S) /\ f \in [S -> Nat] /\ Sum(f) \in Nat
  <2>1. Paid(legs, u, a) = Sum(f)
    BY DEF Paid
  <2>2. IsFiniteSet(S)
    BY <1>2, FS_Subset
  <2>3. f \in [S -> Nat]
    BY <1>2 DEF Leg
  <2> HIDE DEF S, f
  <2> QED  BY <2>1, <2>2, <2>3, SumType
<1>4. /\ c \in [R -> Nat] /\ IsFiniteSet(R) /\ R \subseteq DOMAIN book
      /\ \A m \in R : c[m] = Consumed(book, t, m)
  BY ReachableOK, ConsumedOK DEF Consumption, TakerOK
<1>5. /\ Taken(t, u, a) \in [DOMAIN book -> Nat] /\ IsFiniteSet(DOMAIN book)
      /\ Sum(Taken(t, u, a)) \in Nat
  BY TakenAndLeft DEF BookOK
<1>6. Sum(c) \in Nat /\ r.price \in Prices /\ r.price \in Nat
  BY <1>4, SumType, PositiveAssumption DEF Row
<1>7. Owe(t, Sum(c), u, a) \in Nat
  BY <1>6, OweType
<1> HIDE DEF legs, c, R
<1>8. CASE a # LockAsset(r.side)
  <2>1. \A l \in S : /\ l.n \in R /\ ByMaker(l, r, t, l.n) /\ l.from = u /\ l.asset = a
    BY <1>1, <1>8 DEF LegOf, ByTaker, R
  <2> DEFINE b == [l \in S |-> l.n]
  <2>2. \A l \in S : f[l] = Taken(t, u, a)[l.n] /\ l.n \in DOMAIN book
    BY <1>4, <2>1 DEF ByMaker, Taken, Owe
  <2>3. b \in Injection(S, DOMAIN book)
    <3>1. \A k, l \in S : k.n = l.n => k = l
      BY <1>1
    <3> QED  BY <2>2, <3>1 DEF Injection, IsInjective
  <2>4. \A l \in S : f[l] <= Taken(t, u, a)[b[l]]
    <3>1. \A l \in S : f[l] \in Nat /\ b[l] = l.n
      BY <1>3
    <3> HIDE DEF f, b
    <3> QED  BY <2>2, <3>1
  <2> HIDE DEF S, f, b
  <2>5. Sum(f) <= Sum(Taken(t, u, a))
    BY <1>3, <1>5, <2>3, <2>4, SumInjected
  <2> QED  BY <1>3, <1>5, <1>7, <2>5 DEF legs, c
<1>9. CASE a = LockAsset(r.side) /\ u # r.user
  <2>1. S = {}
    BY <1>1, <1>9 DEF LegOf, ByTaker, ByMaker
  <2>2. Sum(f) = 0
    BY <2>1, NoneIsZero
  <2> QED  BY <1>3, <1>5, <1>7, <2>2 DEF legs, c
<1>10. CASE a = LockAsset(r.side) /\ u = r.user
  <2>1. \A l \in S : l.n \in R /\ ByTaker(l, r, t, l.n) /\ l.from = u /\ l.asset = a
    BY <1>1, <1>10 DEF LegOf, ByMaker, R
  <2> DEFINE g == [m \in R |-> Due(r.side, r.price, c[m])]
             b == [l \in S |-> l.n]
  <2>2. g \in [R -> Nat] /\ Sum(g) <= Owe(t, Sum(c), u, a)
    <3>1. g \in [R -> Nat] /\ Sum(g) <= Due(r.side, r.price, Sum(c))
      BY <1>4, <1>6, DueOfSum
    <3> QED  BY <1>10, <3>1 DEF Owe
  <2>3. \A l \in S : f[l] <= g[l.n]
    <3> TAKE l \in S
    <3>1. l.n \in R /\ f[l] = Due(r.side, book[l.n].price, c[l.n])
      BY <1>4, <2>1 DEF ByTaker
    <3>2. PICK p \in Nat : p = book[l.n].price /\ Crosses(r.side, r.price, p)
      BY <3>1, PositiveAssumption DEF R, Reachable, Facing, BookOK, Resting
    <3>3. PICK x \in Nat : x = c[l.n]
      BY <1>4, <3>1
    <3>4. Due(r.side, p, x) <= Due(r.side, r.price, x)
      BY <1>6, <3>2, DueMonotone DEF Row
    <3> QED  BY <3>1, <3>2, <3>3, <3>4
  <2>4. b \in Injection(S, R) /\ \A l \in S : b[l] = l.n
    <3>1. \A i, j \in S : i.n = j.n => i = j
      BY <1>1
    <3> QED  BY <2>1, <3>1 DEF Injection, IsInjective
  <2> HIDE DEF S, f, g, b
  <2>5. \A l \in S : f[l] <= g[b[l]]
    BY <2>3, <2>4
  <2>6. Sum(f) <= Sum(g) /\ Sum(g) \in Nat
    BY <1>3, <1>4, <2>2, <2>4, <2>5, SumInjected, SumType
  <2> QED  BY <1>3, <1>5, <1>7, <2>2, <2>6 DEF legs, c
<1> QED  BY <1>8, <1>9, <1>10

\* A placement adds to what is owed and paid no more than the order itself owes.
LEMMA PlacementCovered ==
    ASSUME BookOK(book), NEW r \in Row, NEW index, NEW u \in Users, NEW a \in Assets
    PROVE  /\ Owes(Outcome(book, Taker(r)), u, a) + Paid(Legs(r, Fills(Taker(r), index)), u, a)
                <= Owes(book, u, a) + Owe(r, r.qty, u, a)
           /\ Owes(Outcome(book, Taker(r)), u, a) \in Nat
           /\ Paid(Legs(r, Fills(Taker(r), index)), u, a) \in Nat
<1>1. PICK t : t = Taker(r)
  OBVIOUS
<1>2. /\ TakerOK(book, t) /\ t.side = r.side /\ t.price = r.price /\ t.user = r.user
      /\ t.rem = r.qty /\ r.qty \in Nat /\ r.price \in Prices
  BY <1>1, TakerType, PositiveAssumption DEF Taker, Row
<1>3. PICK c \in Nat : c = Sum(Consumption(t)) /\ c <= r.qty
  <2>1. Sum(Consumption(t)) \in 0 .. r.qty
    BY <1>2, NeverOverfilled DEF Consumption, TakerOK
  <2> QED  BY <1>2, <2>1
<1>4. Leftover(book, t) = r.qty - c
  BY <1>2, <1>3 DEF Leftover, Consumption
<1>5. /\ Owe(r, r.qty - c, u, a) + Owe(r, c, u, a) <= Owe(r, r.qty, u, a)
      /\ Owe(r, r.qty - c, u, a) \in Nat /\ Owe(r, c, u, a) \in Nat /\ Owe(r, r.qty, u, a) \in Nat
  BY <1>2, <1>3, OweSplit, OweType
<1>6. \A q : Owe(t, q, u, a) = Owe(r, q, u, a)
  BY <1>2 DEF Owe
<1>7. /\ Owes(Outcome(book, t), u, a) <= Sum(Left(t, u, a)) + Owe(r, r.qty - c, u, a)
      /\ Owes(Outcome(book, t), u, a) \in Nat
  BY <1>2, <1>4, <1>6, OwesAfter
<1>8. /\ Paid(Legs(r, Fills(t, index)), u, a) <= Sum(Taken(t, u, a)) + Owe(r, c, u, a)
      /\ Paid(Legs(r, Fills(t, index)), u, a) \in Nat
  BY <1>2, <1>3, <1>6, PaidCovered
<1>9. /\ Sum(Left(t, u, a)) \in Nat /\ Sum(Taken(t, u, a)) \in Nat
      /\ Sum(Left(t, u, a)) + Sum(Taken(t, u, a)) <= Owes(book, u, a)
      /\ Owes(book, u, a) \in Nat
  BY <1>2, TakenAndLeft, OwesType
<1>10. Owes(Outcome(book, t), u, a) + Paid(Legs(r, Fills(t, index)), u, a)
         <= Owes(book, u, a) + Owe(r, r.qty, u, a)
  BY <1>5, <1>7, <1>8, <1>9
<1> QED  BY <1>1, <1>7, <1>8, <1>10

-----------------------------------------------------------------------------
(* Every step keeps the rows numbered, and a clean one the orders on the   *)
(* topic apart.                                                            *)

\* A step that adds no row keeps the numbering.
LEMMA RowsFrame ==
    ASSUME RowsInv, DOMAIN db'.orders = DOMAIN db.orders, HandInv'
    PROVE  RowsInv'
BY DEF RowsInv

\* A message that joins the topic is not the one in hand.
LEMMA HandAppended ==
    ASSUME IInv, RowsInv, NEW c \in Messages, topic' = Append(topic, c),
           UNCHANGED <<handled, mode, pending>>
    PROVE  HandInv'
<1> SUFFICES ASSUME pending # NoTx PROVE topic'[handled + 1] = topic[handled + 1]
  BY DEF HandInv, RowsInv
<1>1. topic \in Seq(Messages) /\ handled \in 0 .. Len(topic) /\ handled < Len(topic)
  BY DEF IInv, TopicInv, PendingInv
<1> QED  BY <1>1

\* The number of a new row is the next one.
LEMMA NextRow ==
    ASSUME RowsInv, IInv
    PROVE  /\ Cardinality(DOMAIN db.orders) + 1 \notin DOMAIN db.orders
           /\ LET S == DOMAIN db.orders \cup {Cardinality(DOMAIN db.orders) + 1}
              IN  S = 1 .. Cardinality(S)
<1>1. IsFiniteSet(DOMAIN db.orders)
  BY FiniteAssumption, FS_Subset DEF IInv, DbInv, TablesOK
<1>2. PICK n \in Nat : n = Cardinality(DOMAIN db.orders)
  BY <1>1, FS_CardinalityType
<1>3. DOMAIN db.orders = 1 .. n
  BY <1>2 DEF RowsInv
<1>4. DOMAIN db.orders \cup {n + 1} = 1 .. n + 1 /\ n + 1 \notin DOMAIN db.orders
  BY <1>3
<1>5. Cardinality(1 .. n + 1) = n + 1
  <2>1. 1 \in Int /\ n + 1 \in Int /\ ~(1 > n + 1) /\ (n + 1) - 1 + 1 = n + 1
    OBVIOUS
  <2> QED  BY <2>1, FS_Interval
<1> QED  BY <1>2, <1>4, <1>5

\* A row that is created.
LEMMA CreatedRow ==
    ASSUME IInv, RowsInv, NEW o \in Offers, SubmitOrder(o)
    PROVE  \E id \in OrderIds :
             /\ id \notin DOMAIN db.orders /\ DOMAIN db'.orders = DOMAIN db.orders \cup {id}
             /\ \A x \in DOMAIN db.orders : db'.orders[x] = db.orders[x]
             /\ db'.orders[id].status = "NEW"
             /\ db'.available = db.available /\ db'.locked = db.locked /\ db'.trades = db.trades
             /\ topic' = Append(topic, PlaceCommand(id)) /\ PlaceCommand(id) \in Messages
             /\ PlaceCommand(id).type = "OrderPlaced" /\ PlaceCommand(id).id = id
             /\ DOMAIN db'.orders = 1 .. Cardinality(DOMAIN db'.orders)
<1> DEFINE id == Cardinality(DOMAIN db.orders) + 1
           row == [user |-> o.user, side |-> o.side, price |-> o.price, qty |-> o.qty,
                   status |-> "NEW"]
<1>1. id \in OrderIds /\ db' = CreateOrder(db, id, o) /\ topic' = Append(topic, PlaceCommand(id))
  BY DEF SubmitOrder, Send
<1>2. /\ id \notin DOMAIN db.orders
      /\ DOMAIN db.orders \cup {id} = 1 .. Cardinality(DOMAIN db.orders \cup {id})
  BY NextRow
<1> HIDE DEF id
<1>3. /\ db'.orders = Bind(db.orders, id, row)
      /\ db'.available = db.available /\ db'.locked = db.locked /\ db'.trades = db.trades
  BY <1>1 DEF CreateOrder, IInv, DbInv, TablesOK
<1>4. /\ DOMAIN db'.orders = DOMAIN db.orders \cup {id} /\ db'.orders[id] = row
      /\ \A x \in DOMAIN db.orders : db'.orders[x] = db.orders[x]
  BY <1>2, <1>3 DEF Bind
<1>5. PlaceCommand(id) \in Messages /\ PlaceCommand(id).type = "OrderPlaced"
      /\ PlaceCommand(id).id = id
  BY <1>1 DEF PlaceCommand, Messages
<1>6. DOMAIN db'.orders = 1 .. Cardinality(DOMAIN db'.orders) /\ db'.orders[id].status = "NEW"
  BY <1>2, <1>4
<1>7. id \in OrderIds
  BY <1>1
<1> HIDE DEF row
<1> WITNESS id \in OrderIds
<1> QED  BY <1>1, <1>2, <1>3, <1>4, <1>5, <1>6

\* Every step keeps rows numbered.
LEMMA RowsStep == ASSUME IInv, SentInv, RowsInv, Next PROVE RowsInv'
<1>1. ASSUME NEW o \in Offers, SubmitOrder(o) PROVE RowsInv'
  <2>1. PICK id \in OrderIds :
          /\ topic' = Append(topic, PlaceCommand(id)) /\ PlaceCommand(id) \in Messages
          /\ DOMAIN db'.orders = 1 .. Cardinality(DOMAIN db'.orders)
    BY <1>1, CreatedRow
  <2>2. HandInv'
    BY <1>1, <2>1, HandAppended DEF SubmitOrder
  <2> QED  BY <2>1, <2>2 DEF RowsInv
<1>2. ASSUME NEW id \in DOMAIN db.orders, RequestCancel(id) PROVE RowsInv'
  <2>1. topic' = Append(topic, CancelCommand(id)) /\ CancelCommand(id) \in Messages
    BY <1>2 DEF RequestCancel, Send, CancelCommand, Messages, IInv, DbInv, TablesOK
  <2>2. HandInv'
    BY <1>2, <2>1, HandAppended DEF RequestCancel
  <2> QED  BY <1>2, <2>2, RowsFrame DEF RequestCancel
<1>3. ASSUME NEW d \in Deposits, SubmitDeposit(d) PROVE RowsInv'
  <2>1. topic' = Append(topic, DepositCommand(d)) /\ DepositCommand(d) \in Messages
    BY <1>3, OfferAssumption DEF SubmitDeposit, Send, DepositCommand, Messages
  <2>2. db'.orders = db.orders /\ UNCHANGED <<pending, mode, handled>>
    BY <1>3 DEF SubmitDeposit, UpsertBalance, IInv, DbInv, TablesOK
  <2>3. HandInv'
    BY <2>1, <2>2, HandAppended
  <2> QED  BY <2>2, <2>3, RowsFrame
<1>4. CASE HandleDeposit
  BY <1>4, RowsFrame DEF HandleDeposit, Fetched, HandInv
<1>5. CASE RejectOrder
  BY <1>5, RejectKeeps, RowsFrame DEF RejectOrder, Fetched, HandInv, Keeps
<1>6. CASE AcceptOrder
  <2>1. UNCHANGED <<db, topic>> /\ mode = "up" /\ pending = NoTx
        /\ topic[handled + 1].type = "OrderPlaced"
        /\ (UNCHANGED <<mode, handled>> \/ UNCHANGED pending)
    BY <1>6 DEF AcceptOrder, Fetched
  <2>2. HandInv'
    BY <2>1 DEF HandInv
  <2> QED  BY <2>1, <2>2, RowsFrame
<1>7. CASE HandleCancel
  <2>1. UNCHANGED <<db, topic, mode>> /\ mode = "up" /\ pending = NoTx
        /\ topic[handled + 1].type = "OrderCancelRequested"
        /\ (UNCHANGED handled \/ UNCHANGED pending)
    BY <1>7 DEF HandleCancel, Fetched, CancelMissing, CancelResting
  <2>2. HandInv'
    BY <2>1 DEF HandInv
  <2> QED  BY <2>1, <2>2, RowsFrame
<1>8. CASE Persist
  BY <1>8, PersistKeeps, RowsFrame DEF Persist, HandInv, Keeps
<1>9. CASE CommitOffset
  <2>2. HandInv'
    <3>2. handled' + 1 = 1 /\ UNCHANGED <<pending, mode>>
      BY <1>9 DEF CommitOffset
    <3> SUFFICES ASSUME pending # NoTx PROVE topic'[1] = topic[handled + 1]
      BY <3>2 DEF HandInv, RowsInv
    <3>1. /\ topic' = SubSeq(topic, handled + 1, Len(topic)) /\ topic \in Seq(Messages)
          /\ handled \in 0 .. Len(topic) /\ handled < Len(topic)
      BY <1>9 DEF CommitOffset, IInv, TopicInv, PendingInv
    <3> QED  BY <3>1
  <2> QED  BY <1>9, <2>2, RowsFrame DEF CommitOffset
<1>10. CASE Rebuild
  BY <1>10, RowsFrame DEF Rebuild, HandInv, RowsInv, topicVars
<1>11. CASE Hydrate
  BY <1>11, RowsFrame DEF Hydrate, HandInv, RowsInv, topicVars
<1>12. CASE Crash
  BY <1>12, RowsFrame DEF Crash, Forget, HandInv
<1>13. CASE LoseTx
  BY <1>13, RowsFrame DEF LoseTx, HandInv
<1>14. CASE HydrateFails
  BY <1>14, RowsFrame DEF HydrateFails, HandInv, RowsInv, topicVars
<1>15. CASE Redeliver
  <2>1. PICK c \in sent : topic' = Append(topic, c)
    BY <1>15 DEF Redeliver
  <2>2. UNCHANGED <<db, handled, mode, pending>> /\ c \in Messages
    BY <1>15 DEF Redeliver, SentInv
  <2>3. HandInv'
    BY <2>1, <2>2, HandAppended
  <2> QED  BY <2>2, <2>3, RowsFrame
<1>16. CASE Rejoin
  BY <1>16, RowsFrame DEF Rejoin, HandInv
<1>17. CASE Overtake
  <2>1. PICK i \in 1 .. Len(topic) :
          /\ topic' = MovedLast(topic, i) /\ Unread <= i
          /\ topic \in Seq(Messages) /\ handled \in Nat
          /\ UNCHANGED <<db, handled, mode, bookVars, cacheVars, pending, deposited, clean>>
    BY <1>17, OvertakeOK
  <2>2. \A k \in 1 .. i - 1 : topic'[k] = topic[k]
    BY <2>1, MovedLastOK
  <2>3. pending # NoTx => topic'[handled + 1] = topic[handled + 1]
    <3>1. pending # NoTx => handled + 1 \in 1 .. i - 1
      BY <2>1 DEF Unread
    <3> QED  BY <2>2, <3>1
  <2>4. HandInv'
    BY <2>1, <2>3 DEF RowsInv, HandInv
  <2> QED  BY <2>1, <2>4, RowsFrame
<1> QED
  BY <1>1, <1>2, <1>3, <1>4, <1>5, <1>6, <1>7, <1>8, <1>9, <1>10, <1>11, <1>12, <1>13, <1>14,
     <1>15, <1>16, <1>17 DEF Next

\* Once a fault has struck at a bad moment it has struck.
LEMMA CleanBefore == ASSUME Next, clean' PROVE clean
BY DEF Next, SubmitOrder, RequestCancel, SubmitDeposit, HandleDeposit, RejectOrder, AcceptOrder,
       HandleCancel, Persist, CommitOffset, Rebuild, Hydrate, Crash, LoseTx, HydrateFails, Redeliver,
       Rejoin, Overtake, history

\* A clean step sends no order to the worker that is on its way already.
LEMMA OnceStep == ASSUME IInv, SentInv, RowsInv, PlacedOnce(topic), Next, clean' PROVE PlacedOnce(topic')
<1>1. topic \in Seq(Messages) /\ handled \in 0 .. Len(topic)
  BY DEF IInv, TopicInv
<1>2. ASSUME NEW c \in Messages, topic' = Append(topic, c), c.type # "OrderPlaced"
      PROVE  PlacedOnce(topic')
  BY <1>1, <1>2, PlacedOnceAppended
<1>3. ASSUME NEW o \in Offers, SubmitOrder(o) PROVE PlacedOnce(topic')
  <2>1. PICK id \in OrderIds :
          /\ id \notin DOMAIN db.orders
          /\ topic' = Append(topic, PlaceCommand(id)) /\ PlaceCommand(id) \in Messages
          /\ PlaceCommand(id).id = id
    BY <1>3, CreatedRow
  <2>2. PlacedFrom(topic, 1) \subseteq DOMAIN db.orders
    BY PlacedKnown DEF IInv
  <2> QED  BY <1>1, <2>1, <2>2, PlacedOnceAppended
<1>4. ASSUME NEW id \in DOMAIN db.orders, RequestCancel(id) PROVE PlacedOnce(topic')
  <2>1. /\ topic' = Append(topic, CancelCommand(id))
        /\ CancelCommand(id) \in Messages /\ CancelCommand(id).type # "OrderPlaced"
    BY <1>4 DEF RequestCancel, Send, CancelCommand, Messages, IInv, DbInv, TablesOK
  <2> QED  BY <1>2, <2>1
<1>5. ASSUME NEW d \in Deposits, SubmitDeposit(d) PROVE PlacedOnce(topic')
  <2>1. /\ topic' = Append(topic, DepositCommand(d))
        /\ DepositCommand(d) \in Messages /\ DepositCommand(d).type # "OrderPlaced"
    BY <1>5, OfferAssumption DEF SubmitDeposit, Send, DepositCommand, Messages
  <2> QED  BY <1>2, <2>1
<1>6. CASE CommitOffset
  BY <1>1, <1>6, PlacedShifted DEF CommitOffset
<1>7. CASE Redeliver
  <2>1. PICK c \in sent : topic' = Append(topic, c) /\ Idempotent(c)
    BY <1>7 DEF Redeliver
  <2>2. c \in Messages /\ c.type # "OrderPlaced"
    BY <2>1 DEF SentInv, Idempotent
  <2> QED  BY <1>2, <2>1, <2>2
<1>8. CASE Overtake
  <2>1. PICK i \in 1 .. Len(topic) : topic' = MovedLast(topic, i)
    BY <1>8, OvertakeOK
  <2>2. /\ Len(topic') = Len(topic)
        /\ \A k \in 1 .. Len(topic) : /\ From(Len(topic), i, k) \in 1 .. Len(topic)
                                      /\ topic'[k] = topic[From(Len(topic), i, k)]
    BY <1>1, <2>1, MovedLastOK
  <2>3. \A j, k \in 1 .. Len(topic) : j # k => From(Len(topic), i, j) # From(Len(topic), i, k)
    BY <1>1 DEF From
  <2> SUFFICES ASSUME NEW j \in 1 .. Len(topic), NEW k \in 1 .. Len(topic), j # k,
                      topic'[j].type = "OrderPlaced", topic'[k].type = "OrderPlaced"
               PROVE  topic'[j].id # topic'[k].id
    BY <2>2 DEF PlacedOnce
  <2>4. PICK x \in 1 .. Len(topic) : x = From(Len(topic), i, j) /\ topic'[j] = topic[x]
    BY <2>2
  <2>5. PICK y \in 1 .. Len(topic) : y = From(Len(topic), i, k) /\ topic'[k] = topic[y]
    BY <2>2
  <2>6. x # y
    BY <2>3, <2>4, <2>5
  <2> QED  BY <2>4, <2>5, <2>6 DEF PlacedOnce
<1>9. CASE UNCHANGED topic
  BY <1>9 DEF PlacedOnce
<1> QED
  BY <1>3, <1>4, <1>5, <1>6, <1>7, <1>8, <1>9
     DEF Next, HandleDeposit, RejectOrder, AcceptOrder, HandleCancel, Persist, Rebuild, Hydrate,
         Crash, LoseTx, HydrateFails, Rejoin, topicVars

-----------------------------------------------------------------------------
(* The steps that leave the orders alone keep the agreement.               *)

\* Messages are numbered from 1.
LEMMA UnreadOK ==
    ASSUME IInv
    PROVE  /\ topic \in Seq(Messages) /\ handled \in 0 .. Len(topic) /\ handled \in Nat
           /\ Len(topic) \in Nat /\ Unread \in Nat \ {0}
           /\ Waiting \subseteq DOMAIN db.orders
<1>1. topic \in Seq(Messages) /\ handled \in 0 .. Len(topic)
  BY DEF IInv, TopicInv
<1>2. handled \in Nat /\ Len(topic) \in Nat
  BY <1>1
<1>3. Unread \in Nat \ {0}
  BY <1>2 DEF Unread
<1>4. Waiting \subseteq DOMAIN db.orders
  BY <1>3, PlacedKnown DEF IInv, Waiting
<1> QED  BY <1>1, <1>2, <1>3, <1>4

SameTables ==
    UNCHANGED <<db.orders, db.available, db.locked, db.trades>>

\* Nothing waits that did not wait.
LEMMA WaitingShrinks ==
    ASSUME WaitingInv, Waiting' \subseteq Waiting, SameTables, UNCHANGED <<orders, pending>>
    PROVE  WaitingInv'
BY DEF WaitingInv, SameTables

\* What the orders in the table cost depends on the active rows.
LEMMA OwesInDBSame ==
    ASSUME Active' = Active, \A id \in Active : db'.orders[id] = db.orders[id]
    PROVE  \A u, a : OwesInDB(u, a)' = OwesInDB(u, a)
<1> TAKE u, a
<1>1. OwesInDB(u, a)' = Sum([id \in Active' |-> Owe(db'.orders[id], db'.orders[id].qty, u, a)])
  BY DEF OwesInDB, Owe
<1>2. [id \in Active' |-> Owe(db'.orders[id], db'.orders[id].qty, u, a)]
        = [id \in Active |-> Owe(db.orders[id], db.orders[id].qty, u, a)]
  OBVIOUS
<1> QED  BY <1>1, <1>2 DEF OwesInDB

\* While the tables stay, so do the active orders and what they owe.
LEMMA SameOrders ==
    ASSUME SameTables
    PROVE  Active' = Active /\ \A u, a : OwesInDB(u, a)' = OwesInDB(u, a)
<1>1. Active' = Active
  BY DEF Active, ListActiveOrders, SameTables
<1> QED  BY <1>1, OwesInDBSame DEF SameTables

\* The book, the rows and the transaction in hand stay as they are.
LEMMA SameBook ==
    ASSUME RestingInv, StatusInv, TxInv, SameTables, UNCHANGED <<mode, bookVars, pending>>
    PROVE  /\ RestingInv' /\ StatusInv' /\ TxInv'
           /\ \A u, a : /\ TxLocked(u, a)' = TxLocked(u, a)
                        /\ TxAvailable(u, a)' = TxAvailable(u, a)
<1>1. RestingInv'
  BY SameOrders DEF RestingInv, bookVars, SameTables
<1>2. StatusInv'
  BY DEF StatusInv, Told, bookVars, SameTables
<1>3. TxInv'
  BY DEF TxInv, PlaceReady, CancelReady, FillsReady, SameTables
<1>4. \A u, a : TxLocked(u, a)' = TxLocked(u, a) /\ TxAvailable(u, a)' = TxAvailable(u, a)
  BY DEF TxLocked, TxAvailable, Held, SameTables
<1> QED  BY <1>1, <1>2, <1>3, <1>4

\* What the transaction in hand moves are whole numbers.
LEMMA TxType ==
    ASSUME IInv, NEW u \in Users, NEW a \in Assets
    PROVE  TxLocked(u, a) \in Int /\ TxAvailable(u, a) \in Int
<1> SUFFICES ASSUME pending # NoTx
             PROVE  TxLocked(u, a) \in Int /\ TxAvailable(u, a) \in Int
  BY DEF TxLocked, TxAvailable
<1> DEFINE legs == Legs(db.orders[pending.id], pending.fills)
<1>1. /\ db.orders[pending.id] \in Row /\ IsFiniteSet(pending.fills)
      /\ \A f \in pending.fills : FillOK(f)
  BY DEF IInv, PendingInv, DbInv, TablesOK
<1>2. /\ Credits(legs) \in Balances
      /\ [v \in Users |-> [b \in Assets |-> Paid(legs, v, b)]] \in Balances
  BY <1>1, LegsOK, LegsBalance
<1>3. Received(legs, u, a) \in Nat /\ Paid(legs, u, a) \in Nat
  BY <1>2 DEF Credits, Balances
<1>4. Held(u, a) \in Int
  BY DEF IInv, PendingInv, Held
<1> QED  BY <1>3, <1>4 DEF TxLocked, TxAvailable

\* While what waits and what is under way stay, so does the agreement.
LEMMA TopicAgrees ==
    ASSUME IInv, Agreed, UNCHANGED <<db, mode, bookVars, cacheVars, pending>>,
           Waiting' \subseteq Waiting, \A u, a : Underway(u, a)' = Underway(u, a)
    PROVE  Agreed'
<1>1. RestingInv' /\ StatusInv' /\ TxInv'
      /\ \A u, a : TxLocked(u, a)' = TxLocked(u, a) /\ TxAvailable(u, a)' = TxAvailable(u, a)
  BY SameBook DEF Agreed, SameTables
<1>2. FundsInv'
  BY <1>1, SameOrders DEF Agreed, FundsInv, SameTables, bookVars, cacheVars
<1>3. WaitingInv'
  BY WaitingShrinks DEF Agreed, bookVars, SameTables
<1> QED  BY <1>1, <1>2, <1>3 DEF Agreed

\* A cancellation that joins the topic changes nothing here, ...
LEMMA CancelSentAgrees ==
    ASSUME IInv, Agreed, NEW c \in Messages, c.type = "OrderCancelRequested",
           topic' = Append(topic, c), UNCHANGED <<db, handled, mode, bookVars, cacheVars, pending>>
    PROVE  Agreed'
<1>1. Waiting' \subseteq Waiting
  <2>1. Unread' = Unread
    BY DEF Unread
  <2>2. \A x \in PlacedFrom(Append(topic, c), Unread) : x \in PlacedFrom(topic, Unread)
    BY UnreadOK, PlacedAppended
  <2> QED  BY <2>1, <2>2 DEF Waiting
<1>2. \A u, a : Underway(u, a)' = Underway(u, a)
  <2> TAKE u, a
  <2>1. Amount(c, u, a) = 0
    BY DEF Amount
  <2>2. Came(topic', handled, u, a) = Came(topic, handled, u, a) + 0
    BY <2>1, UnreadOK, CameAppended
  <2>3. Came(topic, handled, u, a) \in Nat
    BY UnreadOK, CameType
  <2>4. Underway(u, a)' = Came(topic', handled', u, a)
    BY UnderwayIsCame
  <2> QED  BY <2>2, <2>3, <2>4, UnderwayIsCame
<1> QED  BY <1>1, <1>2, TopicAgrees

\* ... the first time ...
LEMMA RequestCancelAgrees ==
    ASSUME IInv, Agreed, NEW id \in DOMAIN db.orders, RequestCancel(id) PROVE Agreed'
<1>1. /\ topic' = Append(topic, CancelCommand(id))
      /\ UNCHANGED <<db, handled, mode, bookVars, cacheVars, pending>>
  BY DEF RequestCancel, Send
<1>2. /\ CancelCommand(id) \in Messages /\ CancelCommand(id).type = "OrderCancelRequested"
  BY DEF CancelCommand, Messages, IInv, DbInv, TablesOK
<1> QED  BY <1>1, <1>2, CancelSentAgrees

\* ... and when it is published again.
LEMMA RedeliverAgrees == ASSUME IInv, SentInv, Agreed, Redeliver, clean' PROVE Agreed'
<1>1. PICK c \in sent : topic' = Append(topic, c) /\ Idempotent(c)
  BY DEF Redeliver
<1>2. UNCHANGED <<db, handled, mode, bookVars, cacheVars, pending>>
  BY DEF Redeliver
<1>3. c \in Messages /\ c.type = "OrderCancelRequested"
  BY <1>1 DEF SentInv, Idempotent
<1> QED  BY <1>1, <1>2, <1>3, CancelSentAgrees

\* Cancellations that are read again are neither orders nor deposits.
LEMMA RejoinAgrees == ASSUME IInv, Agreed, Rejoin, clean' PROVE Agreed'
<1>1. /\ pending = NoTx /\ handled' = 0 /\ UNCHANGED <<db, topic, mode, bookVars, cacheVars, pending>>
      /\ \A i \in 1 .. handled : topic[i].type = "OrderCancelRequested"
  BY DEF Rejoin, Idempotent
<1>2. topic \in Seq(Messages) /\ handled \in 0 .. Len(topic) /\ handled \in Nat /\ Len(topic) \in Nat
  BY UnreadOK
<1>3. Waiting' \subseteq Waiting
  <2>1. Waiting = PlacedFrom(topic, handled + 1) /\ Waiting' = PlacedFrom(topic, 1)
    BY <1>1 DEF Waiting, Unread
  <2>2. \A i \in 1 .. Len(topic) : topic[i].type = "OrderPlaced" => i \in handled + 1 .. Len(topic)
    BY <1>1, <1>2
  <2> QED  BY <2>1, <2>2 DEF PlacedFrom
<1>4. ASSUME NEW u, NEW a PROVE Underway(u, a)' = Underway(u, a)
  <2> DEFINE S == 0 + 1 .. Len(topic)
             T == handled + 1 .. Len(topic)
             f == Amounts(topic, 0, u, a)
  <2>1. T \subseteq S /\ \A i \in S \ T : i \in 1 .. handled
    BY <1>2
  <2>2. IsFiniteSet(S) /\ f \in [S -> Nat] /\ \A i \in S : f[i] = Amount(topic[i], u, a)
    BY <1>2, CameType
  <2>3. \A i \in S \ T : f[i] = 0
    BY <1>1, <2>1, <2>2 DEF Amount
  <2>4. [i \in T |-> f[i]] = Amounts(topic, handled, u, a)
    BY <2>1, <2>2 DEF Amounts
  <2> HIDE DEF S, T, f
  <2>5. Sum(f) = Sum([i \in T |-> f[i]])
    BY <2>1, <2>2, <2>3, SumZeros
  <2>6. Came(topic, 0, u, a) = Came(topic, handled, u, a)
    BY <2>4, <2>5 DEF Came, f
  <2>7. Underway(u, a)' = Came(topic', handled', u, a) /\ Underway(u, a) = Came(topic, handled, u, a)
    BY UnderwayIsCame
  <2> QED  BY <1>1, <2>6, <2>7
<1> QED  BY <1>1, <1>3, <1>4, TopicAgrees

\* What comes after the h-th message is the same when one of it goes last.
LEMMA CameMoved ==
    ASSUME NEW q \in Seq(Messages), NEW h \in Nat, NEW i \in 1 .. Len(q), h < i, NEW u, NEW a
    PROVE  Came(MovedLast(q, i), h, u, a) = Came(q, h, u, a)
<1>1. PICK p : p = MovedLast(q, i)
  OBVIOUS
<1>2. PICK n \in Nat : n = Len(q)
  OBVIOUS
<1>3. /\ p \in Seq(Messages) /\ Len(p) = n
      /\ \A k \in 1 .. n : /\ From(n, i, k) \in 1 .. n /\ p[k] = q[From(n, i, k)]
                           /\ To(n, i, k) \in 1 .. n /\ p[To(n, i, k)] = q[k]
  BY <1>1, <1>2, MovedLastOK
<1> DEFINE S == h + 1 .. n
           f == Amounts(q, h, u, a)
           g == Amounts(p, h, u, a)
           there == [k \in S |-> To(n, i, k)]
           back == [k \in S |-> From(n, i, k)]
<1>4. /\ IsFiniteSet(S) /\ f \in [S -> Nat] /\ \A k \in S : f[k] = Amount(q[k], u, a)
      /\ g \in [S -> Nat] /\ \A k \in S : g[k] = Amount(p[k], u, a)
  <2>1. S = h + 1 .. Len(q) /\ S = h + 1 .. Len(p)
    BY <1>2, <1>3
  <2> HIDE DEF S, f, g
  <2>2. IsFiniteSet(S) /\ f \in [S -> Nat] /\ \A k \in S : f[k] = Amount(q[k], u, a)
    BY <2>1, CameType DEF f
  <2>3. g \in [S -> Nat] /\ \A k \in S : g[k] = Amount(p[k], u, a)
    <3>1. p \in Seq(Messages)
      BY <1>3
    <3> QED  BY <2>1, <3>1, CameType DEF g
  <2> QED  BY <2>2, <2>3
<1>5. i \in 1 .. n /\ \A k \in S : k \in 1 .. n /\ To(n, i, k) \in S /\ From(n, i, k) \in S
  BY <1>2 DEF To, From
<1>6. there \in Injection(S, S)
  <2>1. \A j, k \in S : To(n, i, j) = To(n, i, k) => j = k
    BY <1>5 DEF To
  <2> QED  BY <1>5, <2>1 DEF Injection, IsInjective
<1>7. back \in Injection(S, S)
  <2>1. \A j, k \in S : From(n, i, j) = From(n, i, k) => j = k
    BY <1>5 DEF From
  <2> QED  BY <1>5, <2>1 DEF Injection, IsInjective
<1>8. \A k \in S : there[k] \in S /\ p[there[k]] = q[k] /\ back[k] \in S /\ p[k] = q[back[k]]
  BY <1>3, <1>5
<1> HIDE DEF f, g, S, there, back
<1>9. ASSUME NEW k \in S
      PROVE  f[k] = g[there[k]] /\ g[k] = f[back[k]] /\ f[k] \in Nat /\ g[k] \in Nat
  <2>1. there[k] \in S /\ back[k] \in S /\ p[there[k]] = q[k] /\ p[k] = q[back[k]]
    BY <1>8
  <2>2. g[there[k]] = Amount(q[k], u, a) /\ f[back[k]] = Amount(p[k], u, a)
    BY <1>4, <2>1
  <2> QED  BY <1>4, <2>2
<1>10. (\A k \in S : f[k] <= g[there[k]]) /\ (\A k \in S : g[k] <= f[back[k]])
  BY <1>9
<1>11. Sum(f) <= Sum(g)
  BY <1>4, <1>6, <1>10, SumInjected
<1>12. Sum(g) <= Sum(f)
  BY <1>4, <1>7, <1>10, SumInjected
<1>13. Sum(f) \in Nat /\ Sum(g) \in Nat
  BY <1>4, SumType
<1>14. Sum(f) = Sum(g)
  BY <1>11, <1>12, <1>13
<1> QED  BY <1>1, <1>14 DEF Came, f, g

\* A command that is overtaken waits as before, and what is overtaken was
\* not begun.
LEMMA OvertakeAgrees == ASSUME IInv, Agreed, Overtake PROVE Agreed'
<1>1. PICK i \in 1 .. Len(topic) :
        /\ topic' = MovedLast(topic, i) /\ Unread <= i
        /\ topic \in Seq(Messages) /\ handled \in Nat /\ handled < i /\ Unread \in Nat \ {0}
        /\ UNCHANGED <<db, handled, mode, bookVars, cacheVars, pending, deposited, clean>>
  BY OvertakeOK
<1>2. /\ Len(topic') = Len(topic)
      /\ \A k \in 1 .. Len(topic) : topic'[k] = topic[From(Len(topic), i, k)]
  BY <1>1, MovedLastOK
<1>3. Unread' = Unread
  BY <1>1 DEF Unread
<1>4. \A k \in Unread .. Len(topic) : /\ k \in 1 .. Len(topic)
                                      /\ From(Len(topic), i, k) \in Unread .. Len(topic)
  BY <1>1 DEF From
<1>5. Waiting' \subseteq Waiting
  <2>1. \A k \in Unread .. Len(topic) : \E j \in Unread .. Len(topic) : topic'[k] = topic[j]
    BY <1>2, <1>4
  <2>2. Waiting' = PlacedFrom(topic', Unread)
    BY <1>3 DEF Waiting
  <2>3. \A x \in PlacedFrom(topic', Unread) :
          \E k \in Unread .. Len(topic) : topic'[k].type = "OrderPlaced" /\ topic'[k].id = x
    BY <1>2 DEF PlacedFrom
  <2>4. \A x \in PlacedFrom(topic', Unread) :
          \E j \in Unread .. Len(topic) : topic[j].type = "OrderPlaced" /\ topic[j].id = x
    BY <2>1, <2>3
  <2>5. PlacedFrom(topic', Unread) \subseteq PlacedFrom(topic, Unread)
    BY <2>4 DEF PlacedFrom
  <2> QED  BY <2>2, <2>5 DEF Waiting
<1>6. \A u, a : Underway(u, a)' = Underway(u, a)
  BY <1>1, CameMoved, UnderwayIsCame
<1> QED  BY <1>1, <1>5, <1>6, TopicAgrees

\* A deposit under way is in the database and not yet in the BalanceCache.
LEMMA SubmitDepositAgrees ==
    ASSUME IInv, Agreed, NEW d \in Deposits, SubmitDeposit(d) PROVE Agreed'
<1>1. /\ topic' = Append(topic, DepositCommand(d)) /\ db' = UpsertBalance(db, d.user, d.asset, d.amount)
      /\ UNCHANGED <<handled, mode, bookVars, cacheVars, pending>>
  BY DEF SubmitDeposit, Send
<1>2. d.user \in Users /\ d.asset \in Assets /\ d.amount \in Nat
  BY OfferAssumption
<1>3. /\ db'.orders = db.orders /\ db'.locked = db.locked /\ db'.trades = db.trades
      /\ db'.available = Moved(db.available, d.user, d.asset, d.amount)
  BY <1>1 DEF UpsertBalance, IInv, DbInv, TablesOK
<1>4. /\ DepositCommand(d) \in Messages
      /\ \A u, a : Amount(DepositCommand(d), u, a) = IF u = d.user /\ a = d.asset THEN d.amount ELSE 0
      /\ DepositCommand(d).type = "DepositCreated"
  BY <1>2 DEF DepositCommand, Messages, Amount
<1>5. \A u \in Users, a \in Assets :
        /\ db.available[u][a] \in Nat
        /\ db'.available[u][a] = db.available[u][a] + Amount(DepositCommand(d), u, a)
  BY <1>2, <1>3, <1>4 DEF Moved, Balances, IInv, DbInv, TablesOK
<1>6. Waiting' \subseteq Waiting
  <2>1. Unread' = Unread
    BY <1>1 DEF Unread
  <2>2. \A x \in PlacedFrom(Append(topic, DepositCommand(d)), Unread) : x \in PlacedFrom(topic, Unread)
    BY <1>4, UnreadOK, PlacedAppended
  <2> QED  BY <1>1, <2>1, <2>2 DEF Waiting
<1>7. \A u, a : /\ Underway(u, a)' = Underway(u, a) + Amount(DepositCommand(d), u, a)
                /\ Underway(u, a) \in Nat /\ Amount(DepositCommand(d), u, a) \in Nat
  <2> TAKE u, a
  <2>1. Came(topic', handled, u, a) = Came(topic, handled, u, a) + Amount(DepositCommand(d), u, a)
    BY <1>1, <1>4, UnreadOK, CameAppended
  <2>2. Came(topic, handled, u, a) \in Nat /\ Amount(DepositCommand(d), u, a) \in Nat
    BY <1>4, UnreadOK, CameType, AmountType
  <2>3. Underway(u, a)' = Came(topic', handled', u, a)
    BY UnderwayIsCame
  <2> QED  BY <1>1, <2>1, <2>2, <2>3, UnderwayIsCame
<1>8. Active' = Active /\ \A u, a : OwesInDB(u, a)' = OwesInDB(u, a)
  <2>1. Active' = Active
    BY <1>3 DEF Active, ListActiveOrders
  <2> QED  BY <1>3, <2>1, OwesInDBSame
<1>9. WaitingInv'
  BY <1>1, <1>3, <1>6 DEF Agreed, WaitingInv, bookVars
<1>10. RestingInv'
  BY <1>1, <1>3, <1>8 DEF Agreed, RestingInv, bookVars
<1>11. StatusInv'
  BY <1>1, <1>3 DEF Agreed, StatusInv, Told, bookVars
<1>12. TxInv'
  <2>1. PlaceReady /\ pending # NoTx => PlaceReady'
    <3> SUFFICES ASSUME PlaceReady, pending # NoTx PROVE PlaceReady'
      OBVIOUS
    <3> DEFINE r == db.orders[pending.id]
               a == LockAsset(r.side)
    <3>1. r.user \in Users /\ a \in Assets /\ pending.amount \in Nat
      BY LockAssetType DEF IInv, PendingInv, DbInv, TablesOK, Row
    <3>2. db.available[r.user][a] >= pending.amount
      BY DEF PlaceReady
    <3>3. db'.available[r.user][a] >= pending.amount
      <4>1. Amount(DepositCommand(d), r.user, a) \in Nat
        BY <1>7
      <4> QED  BY <1>5, <3>1, <3>2, <4>1
    <3> QED  BY <1>1, <1>3, <3>3 DEF PlaceReady
  <2>2. (CancelReady => CancelReady') /\ (FillsReady => FillsReady')
    BY <1>1, <1>3 DEF CancelReady, FillsReady
  <2> QED  BY <1>1, <2>1, <2>2 DEF Agreed, TxInv
<1>13. \A u, a : TxLocked(u, a)' = TxLocked(u, a) /\ TxAvailable(u, a)' = TxAvailable(u, a)
  BY <1>1, <1>3 DEF TxLocked, TxAvailable, Held
<1>14. FundsInv'
  <2> SUFFICES ASSUME NEW u \in Users, NEW a \in Assets
               PROVE  /\ mode' # "up" => db'.locked[u][a] >= OwesInDB(u, a)'
                      /\ mode' = "up" =>
                           /\ locked'[u][a] >= Owes(book', u, a)
                           /\ locked'[u][a] = db'.locked[u][a] + TxLocked(u, a)'
                           /\ available'[u][a] + Underway(u, a)'
                                = db'.available[u][a] + TxAvailable(u, a)'
    BY DEF FundsInv
  <2>1. PICK x : x = Amount(DepositCommand(d), u, a)
    OBVIOUS
  <2>2. PICK y : y = Underway(u, a)
    OBVIOUS
  <2>3. PICK z : z = TxAvailable(u, a)
    OBVIOUS
  <2>4. x \in Nat /\ y \in Nat /\ available[u][a] \in Nat /\ db.available[u][a] \in Nat
    BY <1>5, <1>7, <2>1, <2>2 DEF IInv, MemoryInv, Balances
  <2>5. mode = "up" => available[u][a] + y = db.available[u][a] + z
    BY <2>2, <2>3 DEF Agreed, FundsInv
  <2>6. db'.available[u][a] = db.available[u][a] + x /\ Underway(u, a)' = y + x
        /\ TxAvailable(u, a)' = z /\ available' = available
    BY <1>1, <1>5, <1>7, <1>13, <2>1, <2>2, <2>3 DEF cacheVars
  <2>7. z \in Int
    BY <2>3, TxType
  <2>8. ASSUME mode = "up"
        PROVE  available'[u][a] + Underway(u, a)' = db'.available[u][a] + TxAvailable(u, a)'
    <3>1. available[u][a] + y = db.available[u][a] + z
      BY <2>5, <2>8
    <3>2. available[u][a] + (y + x) = (db.available[u][a] + x) + z
      BY <2>4, <2>7, <3>1
    <3> QED  BY <2>6, <3>2
  <2> QED  BY <1>1, <1>3, <1>8, <1>13, <2>8 DEF Agreed, FundsInv, bookVars, cacheVars
<1> QED  BY <1>1, <1>9, <1>10, <1>11, <1>12, <1>14 DEF Agreed

\* A new row is active for nobody yet; its order waits.
LEMMA SubmitOrderAgrees ==
    ASSUME IInv, RowsInv, Agreed, NEW o \in Offers, SubmitOrder(o) PROVE Agreed'
<1>1. UNCHANGED <<handled, mode, bookVars, cacheVars, pending>>
  BY DEF SubmitOrder
<1>2. PICK id \in OrderIds :
        /\ id \notin DOMAIN db.orders /\ DOMAIN db'.orders = DOMAIN db.orders \cup {id}
        /\ \A x \in DOMAIN db.orders : db'.orders[x] = db.orders[x]
        /\ db'.orders[id].status = "NEW"
        /\ db'.available = db.available /\ db'.locked = db.locked /\ db'.trades = db.trades
        /\ topic' = Append(topic, PlaceCommand(id)) /\ PlaceCommand(id) \in Messages
        /\ PlaceCommand(id).type = "OrderPlaced" /\ PlaceCommand(id).id = id
  BY CreatedRow
<1>3. Active' = Active /\ Active \subseteq DOMAIN db.orders
  BY <1>2 DEF Active, ListActiveOrders
<1>4. \A u, a : OwesInDB(u, a)' = OwesInDB(u, a)
  BY <1>2, <1>3, OwesInDBSame
<1>5. \A x \in Waiting' : x = id \/ (x # id /\ x \in Waiting /\ x \in DOMAIN db.orders)
  <2>1. Unread' = Unread
    BY <1>1 DEF Unread
  <2>2. \A x \in PlacedFrom(topic', Unread) : x = id \/ x \in PlacedFrom(topic, Unread)
    BY <1>2, UnreadOK, PlacedAppended
  <2>3. \A x \in Waiting' : x = id \/ x \in Waiting
    BY <2>1, <2>2 DEF Waiting
  <2> QED  BY <1>2, <2>3, UnreadOK
<1>6. pending # NoTx => pending.id \in DOMAIN db.orders /\ Makers(pending) \subseteq DOMAIN db.orders
  BY DEF IInv, PendingInv, Agreed, TxInv, FillsReady, Makers
<1>7. DOMAIN orders \subseteq DOMAIN db.orders
  <2>1. \A x \in DOMAIN orders : orders[x] \in DOMAIN book /\ node[orders[x]] = x
    BY DEF IInv, MemoryInv
  <2> QED  BY <2>1 DEF Agreed, RestingInv
<1>8. WaitingInv'
  <2>1. \A k \in db'.trades : k.buyer \in DOMAIN db.orders /\ k.seller \in DOMAIN db.orders
    BY <1>2 DEF Agreed, WaitingInv
  <2>2. ASSUME NEW x \in Waiting'
        PROVE  /\ db'.orders[x].status = "NEW" /\ x \notin DOMAIN orders'
               /\ \A k \in db'.trades : k.buyer # x /\ k.seller # x
               /\ pending' # NoTx => x # pending'.id /\ x \notin Makers(pending')
    <3>1. CASE x = id
      BY <1>1, <1>2, <1>6, <1>7, <2>1, <3>1 DEF bookVars
    <3>2. CASE x # id
      <4>1. x \in Waiting /\ x \in DOMAIN db.orders
        BY <1>5, <3>2
      <4> QED  BY <1>1, <1>2, <4>1 DEF bookVars, Agreed, WaitingInv
    <3> QED  BY <3>1, <3>2
  <2> QED  BY <1>2, <2>1, <2>2 DEF WaitingInv
<1>9. RestingInv'
  BY <1>1, <1>2, <1>3 DEF Agreed, RestingInv, bookVars
<1>10. StatusInv'
  <2>1. \A x \in DOMAIN db.orders : Told(x)' = Told(x)
    BY <1>1, <1>2 DEF Told
  <2>2. Told(id)' = "NEW"
    BY <1>1, <1>2, <1>6 DEF Told
  <2>3. \A x \in DOMAIN orders' : Told(x)' \notin Terminal
    BY <1>1, <1>7, <2>1 DEF bookVars, Agreed, StatusInv
  <2>4. mode' # "down" => \A x \in DOMAIN db'.orders : Told(x)' \in {"PLACED", "PARTIAL"} => x \in DOMAIN orders'
    BY <1>1, <1>2, <2>1, <2>2 DEF bookVars, Agreed, StatusInv
  <2> QED  BY <2>3, <2>4 DEF StatusInv
<1>11. TxInv'
  <2>1. pending # NoTx => db'.orders[pending.id] = db.orders[pending.id]
    BY <1>2, <1>6
  <2>2. pending # NoTx /\ PlaceReady => PlaceReady'
    BY <1>1, <1>2, <2>1 DEF PlaceReady
  <2>3. pending # NoTx /\ CancelReady => CancelReady'
    BY <1>1, <2>1 DEF CancelReady
  <2>4. pending # NoTx /\ FillsReady => FillsReady'
    BY <1>1, <1>2, <2>1 DEF FillsReady
  <2> QED  BY <1>1, <2>2, <2>3, <2>4 DEF Agreed, TxInv
<1>12. \A u, a : TxLocked(u, a)' = TxLocked(u, a) /\ TxAvailable(u, a)' = TxAvailable(u, a)
  <2>1. pending # NoTx => db'.orders[pending.id] = db.orders[pending.id]
    BY <1>2, <1>6
  <2> QED  BY <1>1, <2>1 DEF TxLocked, TxAvailable, Held
<1>13. \A u, a : Underway(u, a)' = Underway(u, a)
  <2> TAKE u, a
  <2>1. Amount(PlaceCommand(id), u, a) = 0
    BY <1>2 DEF Amount
  <2>2. Came(topic', handled, u, a) = Came(topic, handled, u, a) + 0
    BY <1>2, <2>1, UnreadOK, CameAppended
  <2>3. Came(topic, handled, u, a) \in Nat
    BY UnreadOK, CameType
  <2> QED  BY <1>1, <2>2, <2>3, UnderwayIsCame
<1>14. FundsInv'
  BY <1>1, <1>2, <1>4, <1>12, <1>13 DEF Agreed, FundsInv, bookVars, cacheVars
<1> QED  BY <1>1, <1>8, <1>9, <1>10, <1>11, <1>14 DEF Agreed

\* Between two messages a message is taken: nothing else begins to wait.
LEMMA HandledOne ==
    ASSUME IInv, NEW type, Fetched(type), UNCHANGED <<topic, pending>>, handled' = handled + 1
    PROVE  /\ Waiting' \subseteq Waiting
           /\ \A u, a : /\ Underway(u, a) = Underway(u, a)' + Amount(Command, u, a)
                        /\ Underway(u, a)' \in Nat /\ Amount(Command, u, a) \in Nat
<1>1. /\ topic \in Seq(Messages) /\ handled \in Nat /\ Len(topic) \in Nat
      /\ handled < Len(topic) /\ pending = NoTx /\ Command \in Messages
  BY UnreadOK, CommandOK
<1>2. Waiting' \subseteq Waiting
  <2>1. Unread = handled + 1 /\ Unread' = (handled + 1) + 1 /\ handled + 1 \in 1 .. Len(topic)
    BY <1>1 DEF Unread
  <2>2. PlacedFrom(topic, (handled + 1) + 1) \subseteq PlacedFrom(topic, handled + 1)
    BY <1>1, <2>1, PlacedTaken
  <2> QED  BY <2>1, <2>2 DEF Waiting
<1>3. ASSUME NEW u, NEW a
      PROVE  /\ Underway(u, a) = Underway(u, a)' + Amount(Command, u, a)
             /\ Underway(u, a)' \in Nat /\ Amount(Command, u, a) \in Nat
  <2>1. Came(topic, handled, u, a) = Came(topic, handled + 1, u, a) + Amount(Command, u, a)
    BY <1>1, CameHandled DEF Command
  <2>2. Came(topic, handled + 1, u, a) \in Nat /\ Amount(Command, u, a) \in Nat
    BY <1>1, CameType, AmountType
  <2> QED  BY <2>1, <2>2, UnderwayIsCame
<1> QED  BY <1>2, <1>3

\* A message that changes nothing, neither here nor in the database.
LEMMA SkipAgrees ==
    ASSUME IInv, Agreed, NEW type, Fetched(type), type # "DepositCreated",
           handled' = handled + 1, SameTables, UNCHANGED <<topic, mode, bookVars, cacheVars, pending>>
    PROVE  Agreed'
<1>1. /\ Waiting' \subseteq Waiting
      /\ \A u, a : /\ Underway(u, a) = Underway(u, a)' + Amount(Command, u, a)
                   /\ Underway(u, a)' \in Nat
  BY HandledOne
<1>2. \A u, a : Amount(Command, u, a) = 0
  BY CommandOK DEF Amount
<1>3. \A u, a : Underway(u, a)' = Underway(u, a)
  BY <1>1, <1>2
<1>4. RestingInv' /\ StatusInv' /\ TxInv'
      /\ \A u, a : TxLocked(u, a)' = TxLocked(u, a) /\ TxAvailable(u, a)' = TxAvailable(u, a)
  BY SameBook DEF Agreed, SameTables
<1>5. FundsInv'
  BY <1>3, <1>4, SameOrders DEF Agreed, FundsInv, SameTables, bookVars, cacheVars
<1>6. WaitingInv'
  BY <1>1, WaitingShrinks DEF Agreed, bookVars, SameTables
<1> QED  BY <1>4, <1>5, <1>6 DEF Agreed

\* A deposit arrives in the BalanceCache.
LEMMA HandleDepositAgrees == ASSUME IInv, Agreed, HandleDeposit PROVE Agreed'
<1>1. /\ Fetched("DepositCreated") /\ handled' = handled + 1
      /\ available' = Moved(available, Command.user, Command.asset, Command.amount)
      /\ UNCHANGED <<db, topic, mode, bookVars, locked, pending>>
  BY DEF HandleDeposit
<1>2. Command \in Messages /\ Command.type = "DepositCreated" /\ pending = NoTx
  BY <1>1, CommandOK
<1>3. Command.user \in Users /\ Command.asset \in Assets /\ Command.amount \in Nat
  BY <1>2 DEF Messages
<1>4. /\ Waiting' \subseteq Waiting
      /\ \A u, a : /\ Underway(u, a) = Underway(u, a)' + Amount(Command, u, a)
                   /\ Underway(u, a)' \in Nat /\ Amount(Command, u, a) \in Nat
  BY <1>1, HandledOne
<1>5. \A u \in Users, a \in Assets :
        available[u][a] \in Nat /\ available'[u][a] = available[u][a] + Amount(Command, u, a)
  BY <1>1, <1>2, <1>3 DEF Moved, Balances, Amount, IInv, MemoryInv
<1>6. RestingInv' /\ StatusInv' /\ TxInv'
      /\ \A u, a : TxLocked(u, a)' = TxLocked(u, a) /\ TxAvailable(u, a)' = TxAvailable(u, a)
  BY <1>1, SameBook DEF Agreed, SameTables
<1>7. \A u \in Users, a \in Assets : available'[u][a] + Underway(u, a)' = available[u][a] + Underway(u, a)
  <2> TAKE u \in Users, a \in Assets
  <2>1. PICK x \in Nat : x = Amount(Command, u, a)
    BY <1>4
  <2>2. PICK y \in Nat : y = Underway(u, a)'
    BY <1>4
  <2>3. available'[u][a] = available[u][a] + x /\ Underway(u, a) = y + x /\ available[u][a] \in Nat
    BY <1>4, <1>5, <2>1, <2>2
  <2>4. (available[u][a] + x) + y = available[u][a] + (y + x)
    BY <2>3
  <2> QED  BY <2>2, <2>3, <2>4
<1>8. FundsInv'
  BY <1>1, <1>6, <1>7, SameOrders DEF Agreed, FundsInv, SameTables, bookVars
<1>9. WaitingInv'
  BY <1>1, <1>4, WaitingShrinks DEF Agreed, bookVars, SameTables
<1> QED  BY <1>1, <1>6, <1>8, <1>9 DEF Agreed

\* The order that waits is NEW and stays NEW.
LEMMA RejectOrderAgrees == ASSUME IInv, RowsInv, Agreed, RejectOrder PROVE Agreed'
<1> DEFINE id == Command.id
<1>1. /\ Fetched("OrderPlaced") /\ db' = UpdateOrderStatus(db, id, "REJECTED")
      /\ handled' = handled + 1 /\ UNCHANGED <<topic, mode, bookVars, cacheVars, pending>>
  BY DEF RejectOrder
<1>2. /\ id \in DOMAIN db.orders /\ Command.type = "OrderPlaced" /\ pending = NoTx
      /\ handled < Len(topic)
  BY <1>1, CommandOK
<1>3. id \in Waiting
  <2>1. Unread = handled + 1 /\ handled + 1 \in 1 .. Len(topic) /\ topic \in Seq(Messages)
    BY <1>2, UnreadOK DEF Unread
  <2> QED  BY <1>2, <2>1, PlacedTaken DEF Waiting, Command
<1>4. db.orders[id].status = "NEW"
  BY <1>3 DEF Agreed, WaitingInv
<1>5. SameTables
  <2>1. TablesOK(db) /\ db.orders[id] \in Row
    BY <1>2 DEF IInv, DbInv, TablesOK
  <2>2. [db.orders[id] EXCEPT !.status = "NEW"] = db.orders[id]
    BY <1>4, <2>1 DEF Row
  <2>3. [db.orders EXCEPT ![id].status = "NEW"] = db.orders
    <3>1. db.orders \in [DOMAIN db.orders -> Row]
      BY <2>1 DEF TablesOK
    <3> QED  BY <1>2, <2>2, <3>1
  <2>4. db' = [db EXCEPT !.orders[id].status = "NEW"]
    BY <1>1 DEF UpdateOrderStatus, StatusInDB
  <2> QED  BY <2>1, <2>3, <2>4 DEF TablesOK, SameTables
<1> QED  BY <1>1, <1>5, SkipAgrees

\* What is committed has been handled.
LEMMA CommitOffsetAgrees == ASSUME IInv, Agreed, CommitOffset PROVE Agreed'
<1>1. /\ topic' = SubSeq(topic, handled + 1, Len(topic)) /\ handled' = 0
      /\ UNCHANGED <<db, mode, bookVars, cacheVars, pending>>
  BY DEF CommitOffset
<1>2. topic \in Seq(Messages) /\ handled \in 0 .. Len(topic)
  BY UnreadOK
<1>3. Waiting' \subseteq Waiting
  <2>1. PICK k \in {1, 2} : k = IF pending = NoTx THEN 1 ELSE 2
    OBVIOUS
  <2>2. Unread = handled + k /\ Unread' = k
    BY <1>1, <2>1 DEF Unread
  <2>3. PlacedFrom(topic', k) \subseteq PlacedFrom(topic, handled + k)
    BY <1>1, <1>2, <2>1, PlacedShifted
  <2> QED  BY <2>2, <2>3 DEF Waiting
<1>4. \A u, a : Underway(u, a)' = Underway(u, a)
  BY <1>1, <1>2, CameShifted, UnderwayIsCame
<1>5. RestingInv' /\ StatusInv' /\ TxInv'
      /\ \A u, a : TxLocked(u, a)' = TxLocked(u, a) /\ TxAvailable(u, a)' = TxAvailable(u, a)
  BY <1>1, SameBook DEF Agreed, SameTables
<1>6. FundsInv'
  BY <1>1, <1>4, <1>5, SameOrders DEF Agreed, FundsInv, SameTables, bookVars, cacheVars
<1>7. WaitingInv'
  BY <1>1, <1>3, WaitingShrinks DEF Agreed, bookVars, SameTables
<1> QED  BY <1>1, <1>5, <1>6, <1>7 DEF Agreed

-----------------------------------------------------------------------------
(* Start and stop keep the agreement.                                      *)

CostsInDB(u, a) == [id \in Active |-> Owe(db.orders[id], db.orders[id].qty, u, a)]

\* What the active rows owe is a natural number, a sum over them.
LEMMA OwesInDBType ==
    ASSUME IInv, NEW u, NEW a
    PROVE  /\ CostsInDB(u, a) \in [Active -> Nat] /\ IsFiniteSet(Active)
           /\ OwesInDB(u, a) = Sum(CostsInDB(u, a)) /\ OwesInDB(u, a) \in Nat
<1>1. IsFiniteSet(Active) /\ \A id \in Active : db.orders[id] \in Row
  BY ActiveOK DEF IInv, DbInv
<1>2. \A id \in Active : db.orders[id].price \in Prices /\ db.orders[id].qty \in Nat
  BY <1>1, PositiveAssumption DEF Row
<1>3. CostsInDB(u, a) \in [Active -> Nat]
  BY <1>2, OweType DEF CostsInDB
<1>4. OwesInDB(u, a) = Sum(CostsInDB(u, a))
  BY DEF OwesInDB, CostsInDB
<1> QED  BY <1>1, <1>3, <1>4, SumType

\* A book without partial fills whose orders are all active costs no more than
\* the table.
LEMMA BookWithinTable ==
    ASSUME IInv, RestingInv, \A n \in DOMAIN book : book[n].rem = book[n].qty /\ node[n] \in Active,
           NEW u, NEW a
    PROVE  Owes(book, u, a) <= OwesInDB(u, a)
<1> DEFINE b == [n \in DOMAIN book |-> node[n]]
           f == Costs(book, u, a)
           g == CostsInDB(u, a)
<1>1. /\ f \in [DOMAIN book -> Nat] /\ Owes(book, u, a) = Sum(f)
      /\ g \in [Active -> Nat] /\ IsFiniteSet(Active) /\ OwesInDB(u, a) = Sum(g)
  BY OwesType, OwesInDBType DEF IInv, MemoryInv
<1>2. b \in Injection(DOMAIN book, Active) /\ \A n \in DOMAIN book : b[n] = node[n]
  <2>1. \A m, n \in DOMAIN book : node[m] = node[n] => m = n
    BY DEF RestingInv
  <2> QED  BY <2>1 DEF Injection, IsInjective
<1>3. \A n \in DOMAIN book : f[n] = g[node[n]] /\ node[n] \in Active
  BY DEF RestingInv, Costs, CostsInDB, Owe
<1> HIDE DEF b, f, g
<1>4. \A n \in DOMAIN book : f[n] <= g[b[n]]
  <2>1. \A n \in DOMAIN book : f[n] \in Nat
    BY <1>1
  <2> QED  BY <1>2, <1>3, <2>1
<1> QED  BY <1>1, <1>2, <1>4, SumInjected

\* A table whose active orders all rest with their whole quantity costs no
\* more than the book.
LEMMA TableWithinBook ==
    ASSUME IInv, RestingInv, \A n \in DOMAIN book : book[n].rem = book[n].qty,
           Active \subseteq DOMAIN orders, NEW u, NEW a
    PROVE  OwesInDB(u, a) <= Owes(book, u, a)
<1> DEFINE b == [id \in Active |-> orders[id]]
           f == CostsInDB(u, a)
           g == Costs(book, u, a)
<1>1. /\ g \in [DOMAIN book -> Nat] /\ Owes(book, u, a) = Sum(g) /\ IsFiniteSet(DOMAIN book)
      /\ f \in [Active -> Nat] /\ OwesInDB(u, a) = Sum(f)
  BY OwesType, OwesInDBType DEF IInv, MemoryInv
<1>2. \A id \in Active : orders[id] \in DOMAIN book /\ node[orders[id]] = id
  BY DEF IInv, MemoryInv
<1>3. b \in Injection(Active, DOMAIN book) /\ \A id \in Active : b[id] = orders[id]
  <2>1. \A i, j \in Active : orders[i] = orders[j] => i = j
    BY <1>2
  <2> QED  BY <1>2, <2>1 DEF Injection, IsInjective
<1>4. \A id \in Active : f[id] = g[orders[id]]
  BY <1>2 DEF RestingInv, Costs, CostsInDB, Owe
<1> HIDE DEF b, f, g
<1>5. \A id \in Active : f[id] <= g[b[id]]
  <2>1. \A id \in Active : f[id] \in Nat
    BY <1>1
  <2> QED  BY <1>3, <1>4, <2>1
<1> QED  BY <1>1, <1>3, <1>5, SumInjected

\* What is rebuilt are the active orders.
LEMMA RebuildAgrees == ASSUME IInv, RowsInv, Agreed, Rebuild PROVE Agreed'
<1>1. PICK created \in Created(Active) :
        /\ node' = created
        /\ book' = [n \in DOMAIN created |-> Restored(db.orders[created[n]], n)]
        /\ orders' = [id \in Active |-> CHOOSE n \in DOMAIN created : created[n] = id]
  BY DEF Rebuild
<1>2. /\ mode = "down" /\ mode' = "rebuilt" /\ pending = NoTx
      /\ UNCHANGED <<db, topic, handled, available, locked, pending>>
  BY DEF Rebuild, HandInv, RowsInv, topicVars, cacheVars
<1>3. /\ IsFiniteSet(Active) /\ Active \subseteq Nat /\ Active \subseteq DOMAIN db.orders
      /\ \A id \in Active : db.orders[id] \in Row
  BY ActiveOK DEF IInv, DbInv
<1> DEFINE D == 1 .. Cardinality(Active)
<1>4. created \in [D -> Active] /\ Cardinality(Active) \in Nat
  BY <1>3, CreatedOK
<1>5. \A i, j \in D : created[i] = created[j] => i = j
  <2>1. \A i, j \in D : i < j => created[i] < created[j]
    BY <1>4 DEF Created
  <2> SUFFICES ASSUME NEW i \in D, NEW j \in D, i < j PROVE created[i] # created[j]
    BY <1>4
  <2>2. created[i] \in Nat /\ created[j] \in Nat /\ created[i] < created[j]
    BY <1>3, <1>4, <2>1
  <2> QED  BY <2>2
<1>6. /\ DOMAIN book' = D /\ DOMAIN orders' = Active
      /\ \A n \in D : node'[n] = created[n] /\ book'[n] = Restored(db.orders[created[n]], n)
  BY <1>1, <1>4
<1> HIDE DEF D
<1>7. \A n \in D : orders'[created[n]] = n
  <2> TAKE n \in D
  <2>1. orders'[created[n]] = CHOOSE m \in D : created[m] = created[n]
    BY <1>1, <1>4
  <2> QED  BY <1>5, <2>1
<1>8. Active' = Active /\ \A u, a : OwesInDB(u, a)' = OwesInDB(u, a)
  BY <1>2, SameOrders DEF SameTables
<1>9. RestingInv'
  <2> SUFFICES ASSUME NEW n \in D
               PROVE  /\ node'[n] \in DOMAIN db.orders
                      /\ node'[n] \in DOMAIN orders' /\ orders'[node'[n]] = n
                      /\ book'[n].user = db.orders[node'[n]].user
                      /\ book'[n].side = db.orders[node'[n]].side
                      /\ book'[n].price = db.orders[node'[n]].price
                      /\ book'[n].qty = db.orders[node'[n]].qty
                      /\ book'[n].rem > 0
                      /\ book'[n].rem = book'[n].qty /\ node'[n] \in Active
    BY <1>2, <1>6, <1>8 DEF RestingInv
  <2>1. created[n] \in Active /\ db.orders[created[n]] \in Row
    BY <1>3, <1>4
  <2>2. db.orders[created[n]].qty > 0
    <3>1. \A q \in Quantities : q \in Nat /\ q > 0
      BY PositiveAssumption
    <3> QED  BY <2>1, <3>1 DEF Row
  <2>3. node'[n] = created[n] /\ created[n] \in DOMAIN db.orders /\ orders'[created[n]] = n
    BY <1>3, <1>6, <1>7, <2>1
  <2>4. LET r == db.orders[created[n]]
        IN  /\ book'[n].user = r.user /\ book'[n].side = r.side /\ book'[n].price = r.price
            /\ book'[n].qty = r.qty /\ book'[n].rem = r.qty
    BY <1>6 DEF Restored
  <2> QED  BY <1>6, <2>1, <2>2, <2>3, <2>4
<1>10. \A id : Told(id)' = db.orders[id].status
  BY <1>2 DEF Told
<1>11. StatusInv'
  BY <1>2, <1>6, <1>10 DEF StatusInv, Active, ListActiveOrders, Terminal
<1>12. WaitingInv'
  <2>1. Waiting' = Waiting
    BY <1>2 DEF Waiting, Unread
  <2> QED  BY <1>2, <1>6, <2>1 DEF Agreed, WaitingInv, Active, ListActiveOrders
<1>13. TxInv'
  BY <1>2 DEF TxInv
<1>14. FundsInv'
  BY <1>2, <1>8 DEF Agreed, FundsInv
<1> QED  BY <1>2, <1>9, <1>11, <1>12, <1>13, <1>14 DEF Agreed

\* What waits and what is under way do not depend on the mode.
LEMMA SameTopic ==
    ASSUME UNCHANGED <<topic, handled, pending>>
    PROVE  Waiting' = Waiting /\ \A u, a : Underway(u, a)' = Underway(u, a)
BY DEF Waiting, Unread, Underway

\* A failed hydration takes nothing that agreed apart.
LEMMA HydrateFailsAgrees == ASSUME IInv, RowsInv, Agreed, HydrateFails PROVE Agreed'
<1>1. /\ mode = "rebuilt" /\ mode' = "dead" /\ pending = NoTx
      /\ UNCHANGED <<db, topic, handled, book, node, orders, available, locked, pending>>
  BY DEF HydrateFails, HandInv, RowsInv, topicVars, bookVars, cacheVars
<1>2. Active' = Active /\ \A u, a : OwesInDB(u, a)' = OwesInDB(u, a)
  BY <1>1, SameOrders DEF SameTables
<1>3. RestingInv'
  BY <1>1, <1>2 DEF Agreed, RestingInv
<1>4. StatusInv'
  BY <1>1 DEF Agreed, StatusInv, Told
<1>5. WaitingInv'
  BY <1>1, SameTopic DEF Agreed, WaitingInv
<1>6. TxInv' /\ FundsInv'
  BY <1>1, <1>2 DEF TxInv, Agreed, FundsInv
<1> QED  BY <1>1, <1>3, <1>4, <1>5, <1>6 DEF Agreed

\* When the locked funds cover the active orders, none of them is larger: the
\* largest due does not count.
LEMMA HydratedIsLocked ==
    ASSUME IInv, NEW u \in Users, NEW a \in Assets, db.locked[u][a] >= OwesInDB(u, a)
    PROVE  Hydrated(u, a) = db.locked[u][a]
<1> DEFINE mine == {id \in Active : db.orders[id].user = u /\ LockAsset(db.orders[id].side) = a}
           dues == [id \in mine |-> Due(db.orders[id].side, db.orders[id].price, db.orders[id].qty)]
           S == Range(dues) \cup {db.locked[u][a]}
           f == CostsInDB(u, a)
<1>1. f \in [Active -> Nat] /\ IsFiniteSet(Active) /\ OwesInDB(u, a) = Sum(f) /\ OwesInDB(u, a) \in Nat
  BY OwesInDBType
<1>2. db.locked[u][a] \in Nat
  BY DEF IInv, DbInv, TablesOK, Balances
<1>3. \A id \in mine : dues[id] = f[id] /\ id \in Active
  BY DEF CostsInDB, Owe
<1>4. \A id \in mine : dues[id] \in Nat /\ dues[id] <= db.locked[u][a]
  <2> TAKE id \in mine
  <2>1. dues[id] = f[id] /\ id \in Active
    BY <1>3
  <2> HIDE DEF f, dues, mine
  <2>2. f[id] \in Nat /\ f[id] <= Sum(f)
    BY <1>1, <2>1, SumMember
  <2> QED  BY <1>1, <1>2, <2>1, <2>2
<1>5. IsFiniteSet(mine)
  BY <1>1, FS_Subset
<1>6. DOMAIN dues = mine
  OBVIOUS
<1>7. Hydrated(u, a) = Max(S)
  BY DEF Hydrated, Dues
<1> HIDE DEF dues, mine, f
<1>8. Range(dues) = {dues[id] : id \in mine}
  BY <1>6 DEF Range
<1>9. IsFiniteSet(Range(dues)) /\ Range(dues) \subseteq Nat /\ \A n \in Range(dues) : n <= db.locked[u][a]
  <2> DEFINE g == [id \in mine |-> dues[id]]
  <2>1. g \in Surjection(mine, Range(dues))
    BY <1>8 DEF Surjection
  <2>2. IsFiniteSet(Range(dues))
    BY <1>5, <2>1, FS_Surjection
  <2> QED  BY <1>4, <1>8, <2>2
<1>10. S \in SUBSET Nat /\ IsFiniteSet(S) /\ S # {} /\ db.locked[u][a] \in S
       /\ \A n \in S : n <= db.locked[u][a]
  <2>1. PICK D : D = Range(dues)
    OBVIOUS
  <2>2. PICK n : n = db.locked[u][a]
    OBVIOUS
  <2>3. IsFiniteSet(D) /\ D \subseteq Nat /\ (\A m \in D : m <= n) /\ n \in Nat
    BY <1>2, <1>9, <2>1, <2>2
  <2>4. S = D \cup {n}
    BY <2>1, <2>2
  <2> HIDE DEF S
  <2>5. IsFiniteSet(S)
    BY <2>3, <2>4, FS_AddElement, Zenon
  <2>6. S \in SUBSET Nat /\ n \in S
    BY <2>3, <2>4
  <2>7. \A m \in S : m <= n
    BY <2>3, <2>4
  <2> QED  BY <2>2, <2>5, <2>6, <2>7
<1> HIDE DEF S
<1>11. Max(S) \in S /\ \A n \in S : n <= Max(S)
  BY <1>10, MaxOfFinite
<1>12. Max(S) <= db.locked[u][a] /\ db.locked[u][a] <= Max(S) /\ Max(S) \in Nat
  BY <1>10, <1>11
<1> QED  BY <1>2, <1>7, <1>12

\* Without a deposit on the topic nothing is under way.
LEMMA NothingUnderway ==
    ASSUME IInv, \A i \in handled + 1 .. Len(topic) : topic[i].type # "DepositCreated"
    PROVE  \A u, a : Underway(u, a) = 0
<1> TAKE u, a
<1>1. handled \in Nat
  BY UnreadOK
<1>2. \A i \in handled + 1 .. Len(topic) : Amounts(topic, handled, u, a)[i] = 0
  BY DEF Amounts, Amount
<1>3. Amounts(topic, handled, u, a) \in [handled + 1 .. Len(topic) -> {0}]
  BY <1>2 DEF Amounts
<1> QED  BY <1>3, SumZero, UnderwayIsCame DEF Came

\* The BalanceCache is the table.
LEMMA HydrateAgrees ==
    ASSUME IInv, RowsInv, Agreed, Hydrate,
           \A i \in handled + 1 .. Len(topic) : topic[i].type # "DepositCreated"
    PROVE  Agreed'
<1>1. /\ mode = "rebuilt" /\ mode' = "up" /\ pending = NoTx
      /\ available' = db.available
      /\ locked' = [u \in Users |-> [a \in Assets |-> Hydrated(u, a)]]
      /\ UNCHANGED <<db, topic, handled, book, node, orders, pending>>
  BY DEF Hydrate, HandInv, RowsInv, topicVars, bookVars
<1>2. Waiting' = Waiting /\ \A u, a : Underway(u, a)' = 0
  BY <1>1, SameTopic, NothingUnderway
<1>3. RestingInv'
  BY <1>1 DEF Agreed, RestingInv
<1>4. StatusInv'
  BY <1>1 DEF Agreed, StatusInv, Told
<1>5. WaitingInv'
  BY <1>1, <1>2 DEF Agreed, WaitingInv
<1>6. TxInv'
  BY <1>1 DEF TxInv
<1>7. ASSUME NEW u \in Users, NEW a \in Assets
      PROVE  /\ locked'[u][a] >= Owes(book, u, a)
             /\ locked'[u][a] = db.locked[u][a] + TxLocked(u, a)'
             /\ available'[u][a] + Underway(u, a)' = db.available[u][a] + TxAvailable(u, a)'
  <2>1. db.locked[u][a] \in Nat /\ db.available[u][a] \in Nat
    BY DEF IInv, DbInv, TablesOK, Balances
  <2>2. db.locked[u][a] >= OwesInDB(u, a)
    BY <1>1 DEF Agreed, FundsInv
  <2>3. locked'[u][a] = db.locked[u][a]
    BY <1>1, <2>2, HydratedIsLocked
  <2>4. Owes(book, u, a) <= OwesInDB(u, a)
    <3>1. RestingInv /\ \A n \in DOMAIN book : book[n].rem = book[n].qty /\ node[n] \in Active
      BY <1>1 DEF Agreed, RestingInv
    <3> QED  BY <3>1, BookWithinTable
  <2>5. Owes(book, u, a) \in Nat /\ OwesInDB(u, a) \in Nat
    BY OwesType, OwesInDBType DEF IInv, MemoryInv
  <2>6. TxLocked(u, a)' = 0 /\ TxAvailable(u, a)' = 0
    BY <1>1 DEF TxLocked, TxAvailable
  <2> QED  BY <1>1, <1>2, <2>1, <2>2, <2>3, <2>4, <2>5, <2>6
<1>8. FundsInv'
  BY <1>1, <1>7 DEF FundsInv
<1> QED  BY <1>1, <1>3, <1>4, <1>5, <1>6, <1>8 DEF Agreed

\* A crash between two messages, with nothing filled in part, loses nothing.
LEMMA CrashAgrees ==
    ASSUME IInv, RowsInv, Agreed, Crash, ~Settling, \A n \in DOMAIN book : book[n].rem = book[n].qty
    PROVE  Agreed'
<1>1. /\ mode # "down" /\ mode' = "down" /\ pending = NoTx /\ pending' = NoTx
      /\ DOMAIN book' = {} /\ DOMAIN orders' = {} /\ UNCHANGED <<db, topic>>
  BY DEF Crash, Forget, Settling
<1>2. handled = 0 /\ handled' = 0
  BY UnreadOK DEF Crash, Settling
<1>3. Waiting' = Waiting
  BY <1>1, <1>2, SameTopic
<1>4. Active' = Active /\ \A u, a : OwesInDB(u, a)' = OwesInDB(u, a)
  BY <1>1, SameOrders DEF SameTables
<1>5. WaitingInv' /\ RestingInv' /\ StatusInv' /\ TxInv'
  BY <1>1, <1>3 DEF Agreed, WaitingInv, RestingInv, StatusInv, TxInv
<1>6. ASSUME NEW u \in Users, NEW a \in Assets
      PROVE  db.locked[u][a] >= OwesInDB(u, a)
  <2>1. CASE mode # "up"
    BY <2>1 DEF Agreed, FundsInv
  <2>2. CASE mode = "up"
    <3>1. db.locked[u][a] \in Nat /\ OwesInDB(u, a) \in Nat /\ Owes(book, u, a) \in Nat
      BY OwesType, OwesInDBType DEF IInv, DbInv, TablesOK, Balances, MemoryInv
    <3>2. locked[u][a] = db.locked[u][a] /\ locked[u][a] >= Owes(book, u, a)
      <4>1. /\ locked[u][a] = db.locked[u][a] + TxLocked(u, a)
            /\ locked[u][a] >= Owes(book, u, a) /\ TxLocked(u, a) = 0
        BY <1>1, <2>2 DEF Agreed, FundsInv, TxLocked
      <4> QED  BY <3>1, <4>1
    <3>3. Active \subseteq DOMAIN orders
      BY <1>1 DEF Active, ListActiveOrders, Agreed, StatusInv, Told
    <3>4. OwesInDB(u, a) <= Owes(book, u, a)
      BY <3>3, TableWithinBook DEF Agreed
    <3> QED  BY <3>1, <3>2, <3>4
  <2> QED  BY <2>1, <2>2
<1>7. FundsInv'
  BY <1>1, <1>4, <1>6 DEF FundsInv
<1> QED  BY <1>1, <1>5, <1>7 DEF Agreed

-----------------------------------------------------------------------------
(* Cancelling keeps the agreement.                                         *)

\* A message becomes a transaction: its handler has begun.
LEMMA TakenOne ==
    ASSUME IInv, NEW type, Fetched(type), UNCHANGED <<topic, handled>>, pending' # NoTx
    PROVE  /\ Waiting' \subseteq Waiting /\ \A u, a : Underway(u, a)' = Underway(u, a)
           /\ type = "OrderPlaced" /\ PlacedOnce(topic) =>
                Command.id \in Waiting /\ Command.id \notin Waiting'
<1>1. /\ topic \in Seq(Messages) /\ handled \in Nat /\ Len(topic) \in Nat
      /\ handled < Len(topic) /\ pending = NoTx /\ Command.type = type
  BY UnreadOK, CommandOK
<1>2. Unread = handled + 1 /\ Unread' = (handled + 1) + 1 /\ handled + 1 \in 1 .. Len(topic)
  BY <1>1 DEF Unread
<1>3. /\ PlacedFrom(topic, (handled + 1) + 1) \subseteq PlacedFrom(topic, handled + 1)
      /\ type = "OrderPlaced" /\ PlacedOnce(topic) =>
           /\ Command.id \in PlacedFrom(topic, handled + 1)
           /\ Command.id \notin PlacedFrom(topic, (handled + 1) + 1)
  BY <1>1, <1>2, PlacedTaken DEF Command
<1>4. \A u, a : Underway(u, a)' = Underway(u, a)
  BY UnderwayIsCame
<1> QED  BY <1>2, <1>3, <1>4 DEF Waiting

\* An order that rests can be paid back what is locked for it.
LEMMA CancelRestingAgrees ==
    ASSUME IInv, RowsInv, Agreed, HandleCancel, CancelResting(Command.id)
    PROVE  Agreed'
<1>1. PICK id : id = Command.id
  OBVIOUS
<1>2. PICK n : n = orders[id]
  OBVIOUS
<1>3. PICK o : o = book[n]
  OBVIOUS
<1>4. PICK r : r = db.orders[id]
  OBVIOUS
<1>5. PICK a : a = LockAsset(o.side)
  OBVIOUS
<1>6. PICK amount : amount = Due(o.side, o.price, o.rem)
  OBVIOUS
<1>7. PICK tx : tx = [kind |-> "cancel", id |-> id, amount |-> amount,
                      fills |-> {}, status |-> "CANCELLED"]
  OBVIOUS
<1>8. /\ Fetched("OrderCancelRequested") /\ UNCHANGED <<db, topic, mode>> /\ mode = "up"
      /\ id \in DOMAIN orders
      /\ book' = Unbind(book, n) /\ node' = Unbind(node, n) /\ orders' = Unbind(orders, id)
      /\ \/ /\ locked[o.user][a] >= amount
            /\ locked' = Moved(locked, o.user, a, -amount)
            /\ available' = Moved(available, o.user, a, amount)
            /\ pending' = tx /\ UNCHANGED handled
         \/ ~(locked[o.user][a] >= amount)
  BY <1>1, <1>2, <1>3, <1>5, <1>6, <1>7 DEF HandleCancel, CancelResting, Fetched
<1>9. /\ pending = NoTx /\ BookOK(book) /\ available \in Balances /\ locked \in Balances
      /\ \A i \in DOMAIN orders : orders[i] \in DOMAIN book /\ node[orders[i]] = i
      /\ node \in [DOMAIN book -> OrderIds]
  BY <1>8, CommandOK DEF IInv, MemoryInv
<1>10. /\ n \in DOMAIN book /\ node[n] = id /\ id \in DOMAIN db.orders
       /\ o.user = r.user /\ o.side = r.side
  BY <1>2, <1>3, <1>4, <1>8, <1>9 DEF Agreed, RestingInv
<1>11. o.user \in Users /\ o.price \in Prices /\ o.rem \in Nat /\ a \in Assets /\ amount \in Nat
  <2>1. o \in Resting
    BY <1>3, <1>9, <1>10 DEF BookOK
  <2> QED  BY <1>5, <1>6, <2>1, DueType, LockAssetType DEF Resting
<1>12. ASSUME NEW u \in Users, NEW b \in Assets
       PROVE  /\ Owes(book, u, b) = Owes(book', u, b) + (IF u = o.user /\ b = a THEN amount ELSE 0)
              /\ Owes(book', u, b) \in Nat
              /\ locked[u][b] >= Owes(book, u, b)
              /\ locked[u][b] \in Nat /\ available[u][b] \in Nat
              /\ locked[u][b] = db.locked[u][b]
              /\ available[u][b] + Underway(u, b) = db.available[u][b]
  <2>1. Owe(o, o.rem, u, b) = IF u = o.user /\ b = a THEN amount ELSE 0
    BY <1>5, <1>6 DEF Owe
  <2>2. /\ Owes(book, u, b) = Owes(Unbind(book, n), u, b) + Owe(o, o.rem, u, b)
        /\ Owes(Unbind(book, n), u, b) \in Nat
    BY <1>3, <1>9, <1>10, OwesUnbound
  <2>3. /\ locked[u][b] >= Owes(book, u, b)
        /\ locked[u][b] = db.locked[u][b] + TxLocked(u, b)
        /\ available[u][b] + Underway(u, b) = db.available[u][b] + TxAvailable(u, b)
        /\ TxLocked(u, b) = 0 /\ TxAvailable(u, b) = 0
    BY <1>8, <1>9 DEF Agreed, FundsInv, TxLocked, TxAvailable
  <2>4. db.locked[u][b] \in Nat /\ db.available[u][b] \in Nat
        /\ locked[u][b] \in Nat /\ available[u][b] \in Nat
    BY <1>9 DEF IInv, DbInv, TablesOK, Balances
  <2> QED  BY <1>8, <2>1, <2>2, <2>3, <2>4
<1>13. locked[o.user][a] >= amount
  <2>1. Owes(book, o.user, a) = Owes(book', o.user, a) + amount
        /\ Owes(book', o.user, a) \in Nat /\ locked[o.user][a] \in Nat
        /\ locked[o.user][a] >= Owes(book, o.user, a)
    BY <1>11, <1>12
  <2> QED  BY <1>11, <2>1
<1>14. /\ locked' = Moved(locked, o.user, a, -amount)
       /\ available' = Moved(available, o.user, a, amount)
       /\ pending' = tx /\ UNCHANGED handled
  BY <1>8, <1>13
<1>15. tx # NoTx /\ tx.kind = "cancel" /\ tx.id = id /\ tx.amount = amount /\ tx.fills = {}
       /\ tx.status = "CANCELLED"
  BY <1>7 DEF NoTx
<1>16. Waiting' \subseteq Waiting /\ \A u, b : Underway(u, b)' = Underway(u, b)
  BY <1>8, <1>14, <1>15, TakenOne
<1>17. /\ DOMAIN book' = DOMAIN book \ {n} /\ \A m \in DOMAIN book \ {n} : book'[m] = book[m]
       /\ \A m \in DOMAIN book \ {n} : node'[m] = node[m]
       /\ DOMAIN orders' = DOMAIN orders \ {id} /\ \A i \in DOMAIN orders \ {id} : orders'[i] = orders[i]
  BY <1>8, <1>9 DEF Unbind, Restrict
<1>18. Makers(tx) = {}
  BY <1>15 DEF Makers
<1>19. WaitingInv'
  BY <1>8, <1>14, <1>15, <1>16, <1>17, <1>18 DEF Agreed, WaitingInv
<1>20. RestingInv'
  <2>1. \A m \in DOMAIN book \ {n} : node[m] # id
    BY <1>2 DEF Agreed, RestingInv
  <2> QED  BY <1>8, <1>17, <2>1 DEF Agreed, RestingInv
<1>21. \A x : Told(x)' = IF x = id THEN "CANCELLED" ELSE Told(x)
  BY <1>8, <1>9, <1>14, <1>15, <1>18 DEF Told, StatusInDB
<1>22. StatusInv'
  BY <1>8, <1>17, <1>21 DEF Agreed, StatusInv
<1>23. TxInv'
  <2>1. Told(id) = db.orders[id].status
    BY <1>9 DEF Told
  <2>2. db.orders[id].status \notin Terminal
    BY <1>8, <2>1 DEF Agreed, StatusInv
  <2>3. CancelReady'
    BY <1>8, <1>14, <1>15, <2>2 DEF CancelReady
  <2>4. FillsReady'
    BY <1>14, <1>15 DEF FillsReady
  <2> QED  BY <1>14, <1>15, <2>3, <2>4 DEF TxInv
<1>24. ASSUME NEW u \in Users, NEW b \in Assets
       PROVE  /\ locked'[u][b] >= Owes(book', u, b)
              /\ locked'[u][b] = db.locked[u][b] + TxLocked(u, b)'
              /\ available'[u][b] + Underway(u, b)' = db.available[u][b] + TxAvailable(u, b)'
  <2>1. PICK x \in Nat : x = IF u = o.user /\ b = a THEN amount ELSE 0
    BY <1>11
  <2>2. locked'[u][b] = locked[u][b] + (IF u = o.user /\ b = a THEN -amount ELSE 0)
        /\ available'[u][b] = available[u][b] + x
    BY <1>9, <1>11, <1>14, <2>1 DEF Moved, Balances
  <2>3. locked'[u][b] = locked[u][b] - x
    BY <1>11, <1>12, <2>1, <2>2
  <2>4. Held(u, b)' = x
    BY <1>4, <1>5, <1>8, <1>10, <1>14, <1>15, <2>1 DEF Held
  <2>5. TxLocked(u, b)' = -x /\ TxAvailable(u, b)' = x
    BY <1>14, <1>15, <2>4 DEF TxLocked, TxAvailable
  <2>6. PICK y \in Nat : y = Underway(u, b)
    BY UnreadOK, CameType, UnderwayIsCame
  <2>7. /\ Owes(book, u, b) = Owes(book', u, b) + x /\ Owes(book', u, b) \in Nat
        /\ locked[u][b] >= Owes(book, u, b)
        /\ locked[u][b] \in Nat /\ available[u][b] \in Nat
        /\ locked[u][b] = db.locked[u][b] /\ available[u][b] + y = db.available[u][b]
    BY <1>12, <2>1, <2>6
  <2>8. locked[u][b] - x >= Owes(book', u, b) /\ locked[u][b] - x = db.locked[u][b] + -x
        /\ (available[u][b] + x) + y = db.available[u][b] + x
    BY <2>7
  <2> QED  BY <1>16, <2>2, <2>3, <2>5, <2>6, <2>8
<1>25. FundsInv'
  BY <1>8, <1>24 DEF FundsInv
<1> QED  BY <1>8, <1>19, <1>20, <1>22, <1>23, <1>25 DEF Agreed

\* Handling a cancellation keeps memory and database in agreement.
LEMMA HandleCancelAgrees == ASSUME IInv, RowsInv, Agreed, HandleCancel PROVE Agreed'
<1>1. CASE CancelMissing(Command.id)
  <2>1. /\ Fetched("OrderCancelRequested") /\ handled' = handled + 1
        /\ UNCHANGED <<db, topic, mode, bookVars, cacheVars, pending>>
    BY <1>1 DEF HandleCancel, CancelMissing
  <2> QED  BY <2>1, SkipAgrees DEF SameTables
<1>2. CASE CancelResting(Command.id)
  BY <1>2, CancelRestingAgrees
<1> QED  BY <1>1, <1>2 DEF HandleCancel

-----------------------------------------------------------------------------
(* Accepting an order keeps the agreement.                                 *)

\* What is on the book after t: those not consumed whole, and t if it rests.
LEMMA OutcomeIs ==
    ASSUME BookOK(book), NEW t, TakerOK(book, t), NEW after, after = Outcome(book, t)
    PROVE  /\ DOMAIN after \subseteq DOMAIN book \cup {t.id}
           /\ \A m \in DOMAIN book :
                /\ m \in DOMAIN after <=> Consumed(book, t, m) < book[m].rem
                /\ m \in DOMAIN after =>
                     /\ after[m].user = book[m].user /\ after[m].side = book[m].side
                     /\ after[m].price = book[m].price /\ after[m].qty = book[m].qty
                     /\ after[m].rem > 0
           /\ t.id \in DOMAIN after =>
                /\ after[t.id].user = t.user /\ after[t.id].side = t.side
                /\ after[t.id].price = t.price /\ after[t.id].qty = t.qty
                /\ after[t.id].rem > 0
<1> DEFINE survivors == {m \in DOMAIN book : Consumed(book, t, m) < book[m].rem}
           others == [m \in survivors |-> [book[m] EXCEPT !.rem = @ - Consumed(book, t, m)]]
<1>1. PICK left \in Nat : left = Leftover(book, t)
  BY NeverOverfilled DEF Leftover, TakerOK
<1>2. ASSUME NEW m \in survivors
      PROVE  /\ others[m].user = book[m].user /\ others[m].side = book[m].side
             /\ others[m].price = book[m].price /\ others[m].qty = book[m].qty
             /\ others[m].rem > 0
  <2>1. book[m] \in Resting
    BY DEF BookOK
  <2>2. PICK c \in Nat : c = Consumed(book, t, m) /\ c < book[m].rem
    BY ConsumedOK DEF TakerOK
  <2>3. book[m].rem - c > 0
    BY <2>1, <2>2 DEF Resting
  <2> QED  BY <2>1, <2>2, <2>3 DEF Resting
<1>3. after = IF left = 0 THEN others ELSE Bind(others, t.id, AsResting(t, left))
  BY <1>1 DEF Outcome
<1>4. t.id \notin DOMAIN book /\ DOMAIN others = survivors /\ survivors \subseteq DOMAIN book
  BY DEF TakerOK
<1>5. \A m \in DOMAIN book : m \in survivors <=> Consumed(book, t, m) < book[m].rem
  OBVIOUS
<1> HIDE DEF survivors, others
<1>6. /\ DOMAIN after = survivors \cup (IF left = 0 THEN {} ELSE {t.id})
      /\ \A m \in survivors : after[m] = others[m]
      /\ left # 0 => after[t.id] = AsResting(t, left)
  <2>1. CASE left = 0
    BY <1>3, <1>4, <2>1
  <2>2. CASE left # 0
    BY <1>3, <1>4, <2>2 DEF Bind
  <2> QED  BY <2>1, <2>2
<1>7. \A m \in DOMAIN book : m \in DOMAIN after <=> m \in survivors
  BY <1>4, <1>6
<1>8. t.id \in DOMAIN after => left # 0 /\ left > 0 /\ after[t.id] = AsResting(t, left)
  BY <1>1, <1>4, <1>6
<1> QED  BY <1>2, <1>4, <1>5, <1>6, <1>7, <1>8 DEF AsResting

\* The id map leads to what is on the book after t, and to nothing else.
LEMMA IndexIs ==
    ASSUME IInv, RestingInv, NEW t, TakerOK(book, t), NEW after,
           DOMAIN after \subseteq DOMAIN book \cup {t.id},
           NEW id \in OrderIds, id \notin DOMAIN orders,
           NEW index, index = Index(id, t, after),
           NEW nodes, nodes = Restrict(Bind(node, t.id, id), DOMAIN after)
    PROVE  /\ DOMAIN index \subseteq DOMAIN orders \cup {id}
           /\ \A m \in DOMAIN book : /\ node[m] \in DOMAIN index <=> m \in DOMAIN after
                                     /\ m \in DOMAIN after => index[node[m]] = m /\ nodes[m] = node[m]
           /\ id \in DOMAIN index <=> t.id \in DOMAIN after
           /\ t.id \in DOMAIN after => index[id] = t.id /\ nodes[t.id] = id
<1> DEFINE gone == {node[m] : m \in DOMAIN book \ DOMAIN after}
           kept == Restrict(orders, DOMAIN orders \ gone)
<1>1. /\ t.id \notin DOMAIN book /\ node \in [DOMAIN book -> OrderIds]
      /\ \A m \in DOMAIN book : node[m] \in DOMAIN orders /\ orders[node[m]] = m /\ node[m] # id
  BY DEF TakerOK, RestingInv, IInv, MemoryInv
<1>2. \A m \in DOMAIN book : node[m] \in gone <=> m \notin DOMAIN after
  BY <1>1
<1>3. /\ DOMAIN kept = DOMAIN orders \ gone /\ \A x \in DOMAIN kept : kept[x] = orders[x]
  BY DEF Restrict
<1>4. index = IF t.id \in DOMAIN after THEN Bind(kept, id, t.id) ELSE kept
  BY DEF Index
<1>5. \A m \in DOMAIN after : nodes[m] = IF m = t.id THEN id ELSE node[m]
  BY <1>1 DEF Restrict, Bind
<1> HIDE DEF gone, kept
<1>6. /\ DOMAIN index = DOMAIN kept \cup (IF t.id \in DOMAIN after THEN {id} ELSE {})
      /\ \A x \in DOMAIN kept : x # id => index[x] = kept[x]
      /\ t.id \in DOMAIN after => index[id] = t.id
  <2>1. CASE t.id \in DOMAIN after
    BY <1>4, <2>1 DEF Bind
  <2>2. CASE t.id \notin DOMAIN after
    BY <1>4, <2>2
  <2> QED  BY <2>1, <2>2
<1>7. ASSUME NEW m \in DOMAIN book
      PROVE  /\ node[m] \in DOMAIN index <=> m \in DOMAIN after
             /\ m \in DOMAIN after => index[node[m]] = m /\ nodes[m] = node[m]
  BY <1>1, <1>2, <1>3, <1>5, <1>6
<1> QED  BY <1>1, <1>3, <1>5, <1>6, <1>7

\* Each order is the maker of one fill, and its status tells whether it rests.
LEMMA FillsAre ==
    ASSUME IInv, RestingInv, NEW t, TakerOK(book, t), NEW index, NEW f \in Fills(t, index)
    PROVE  /\ \E m \in DOMAIN book : f.maker = node[m] /\ Consumed(book, t, m) > 0
           /\ f.maker \in DOMAIN orders /\ f.maker \in DOMAIN db.orders
           /\ f.status = IF f.maker \in DOMAIN index THEN "NEW" ELSE "FILLED"
           /\ \A g \in Fills(t, index) : f.maker = g.maker => f = g
<1> DEFINE M == {m \in DOMAIN book : Consumed(book, t, m) > 0}
           fill(m) == [n |-> m, maker |-> node[m], user |-> book[m].user,
                       price |-> book[m].price, qty |-> Consumed(book, t, m),
                       status |-> IF node[m] \in DOMAIN index THEN "NEW" ELSE "FILLED"]
<1>1. Fills(t, index) = {fill(m) : m \in M}
  BY DEF Fills
<1>2. \A m \in M : fill(m).maker = node[m]
                   /\ fill(m).status = IF node[m] \in DOMAIN index THEN "NEW" ELSE "FILLED"
  OBVIOUS
<1>3. \A m \in DOMAIN book : node[m] \in DOMAIN orders /\ orders[node[m]] = m /\ node[m] \in DOMAIN db.orders
  BY DEF RestingInv
<1>4. \A m \in M : m \in DOMAIN book /\ Consumed(book, t, m) > 0
  OBVIOUS
<1> HIDE DEF fill, M
<1>5. PICK m \in M : f = fill(m)
  BY <1>1
<1>6. ASSUME NEW g \in Fills(t, index), f.maker = g.maker PROVE f = g
  <2>1. PICK n \in M : g = fill(n)
    BY <1>1
  <2>2. node[m] = node[n] /\ m \in DOMAIN book /\ n \in DOMAIN book
    BY <1>2, <1>4, <1>5, <1>6, <2>1
  <2>3. m = n
    BY <1>3, <2>2
  <2> QED  BY <1>5, <2>1, <2>3
<1>7. m \in DOMAIN book /\ Consumed(book, t, m) > 0 /\ f.maker = node[m]
  BY <1>2, <1>4, <1>5
<1> QED  BY <1>2, <1>3, <1>5, <1>6, <1>7

\* The funds of every party cover what it pays for the order of the row r, and
\* afterwards still what its orders on the book may cost.
LEMMA PaymentsCovered ==
    ASSUME IInv, FundsInv, mode = "up", pending = NoTx, NEW r \in Row, NEW index,
           NEW a, a = LockAsset(r.side), NEW amount, amount = Due(r.side, r.price, r.qty),
           NEW legs, legs = Legs(r, Fills(Taker(r), index)),
           NEW paid, paid = Changed(Moved(locked, r.user, a, amount), Debits(legs)),
           NEW left, left = Changed(Moved(available, r.user, a, -amount), Credits(legs)),
           NEW u \in Users, NEW b \in Assets
    PROVE  LET h == IF u = r.user /\ b = a THEN amount ELSE 0
           IN  /\ paid[u][b] >= Owes(Outcome(book, Taker(r)), u, b) /\ paid[u][b] >= 0
               /\ paid[u][b] = db.locked[u][b] + (h - Paid(legs, u, b))
               /\ left[u][b] + Underway(u, b) = db.available[u][b] + (Received(legs, u, b) - h)
<1> DEFINE t == Taker(r)
<1>1. /\ BookOK(book) /\ available \in Balances /\ locked \in Balances
      /\ db.available[u][b] \in Nat /\ db.locked[u][b] \in Nat
  BY DEF IInv, MemoryInv, DbInv, TablesOK, Balances
<1>2. r.user \in Users /\ r.price \in Prices /\ r.qty \in Nat /\ a \in Assets
  BY PositiveAssumption, LockAssetType DEF Row
<1>3. amount \in Nat
  BY <1>2, DueType
<1>4. PICK h \in Nat : h = IF u = r.user /\ b = a THEN amount ELSE 0
  BY <1>3
<1>5. Owe(r, r.qty, u, b) = h
  BY <1>4 DEF Owe
<1>6. Credits(legs) \in Balances /\ Received(legs, u, b) \in Nat
  <2>1. TakerOK(book, t)
    BY <1>1, TakerType
  <2>2. IsFiniteSet(Fills(t, index)) /\ \A f \in Fills(t, index) : FillOK(f)
    BY <1>1, <2>1, FillsOK
  <2>3. Credits(legs) \in Balances
    BY <2>2, LegsOK, LegsBalance
  <2>4. Credits(legs)[u][b] = Received(legs, u, b)
    BY DEF Credits
  <2> QED  BY <2>3, <2>4 DEF Balances
<1>7. PICK o \in Nat : o = Owes(Outcome(book, t), u, b)
  BY <1>1, PlacementCovered
<1>8. PICK p \in Nat : p = Paid(legs, u, b)
  BY <1>1, PlacementCovered
<1>9. o + p <= Owes(book, u, b) + h
  BY <1>1, <1>5, <1>7, <1>8, PlacementCovered
<1>10. /\ locked[u][b] >= Owes(book, u, b) /\ locked[u][b] = db.locked[u][b]
       /\ available[u][b] + Underway(u, b) = db.available[u][b]
  <2>1. /\ locked[u][b] >= Owes(book, u, b)
        /\ locked[u][b] = db.locked[u][b] + TxLocked(u, b)
        /\ available[u][b] + Underway(u, b) = db.available[u][b] + TxAvailable(u, b)
        /\ TxLocked(u, b) = 0 /\ TxAvailable(u, b) = 0
    BY DEF FundsInv, TxLocked, TxAvailable
  <2> QED  BY <1>1, <2>1
<1>11. Owes(book, u, b) \in Nat
  BY <1>1, OwesType
<1>12. paid[u][b] = locked[u][b] + h - p
  <2>1. Moved(locked, r.user, a, amount)[u][b] = locked[u][b] + h
    BY <1>1, <1>2, <1>3, <1>4 DEF Moved, Balances
  <2>2. Debits(legs)[u][b] = -p
    BY <1>8 DEF Debits
  <2>3. paid[u][b] = Moved(locked, r.user, a, amount)[u][b] + Debits(legs)[u][b]
    BY DEF Changed
  <2>4. locked[u][b] \in Nat
    BY <1>1 DEF Balances
  <2> QED  BY <2>1, <2>2, <2>3, <2>4
<1>13. PICK c \in Nat : c = Received(legs, u, b)
  BY <1>6
<1>14. left[u][b] = available[u][b] - h + c
  <2>1. Moved(available, r.user, a, -amount)[u][b]
          = available[u][b] + (IF u = r.user /\ b = a THEN -amount ELSE 0)
    BY <1>1, <1>2, <1>3 DEF Moved, Balances
  <2>2. Credits(legs)[u][b] = c
    BY <1>13 DEF Credits
  <2>3. left[u][b] = Moved(available, r.user, a, -amount)[u][b] + Credits(legs)[u][b]
    BY DEF Changed
  <2>4. available[u][b] \in Nat
    BY <1>1 DEF Balances
  <2> QED  BY <1>3, <1>4, <2>1, <2>2, <2>3, <2>4
<1>15. PICK y \in Nat : y = Underway(u, b)
  BY UnreadOK, CameType, UnderwayIsCame
<1>16. locked[u][b] \in Nat /\ available[u][b] \in Nat
  BY <1>1 DEF Balances
<1> HIDE DEF t
<1>17. paid[u][b] >= o /\ paid[u][b] >= 0 /\ paid[u][b] = db.locked[u][b] + (h - p)
  BY <1>1, <1>9, <1>10, <1>11, <1>12, <1>16
<1>18. left[u][b] + y = db.available[u][b] + (c - h)
  BY <1>1, <1>10, <1>14, <1>15, <1>16
<1> QED  BY <1>4, <1>7, <1>8, <1>13, <1>15, <1>17, <1>18 DEF t

\* The order of the first message waits no more: it rests, or it was filled.
LEMMA AcceptOrderAgrees ==
    ASSUME IInv, RowsInv, PlacedOnce(topic), Agreed, AcceptOrder PROVE Agreed'
<1>1. PICK id : id = Command.id
  OBVIOUS
<1>2. PICK r : r = db.orders[id]
  OBVIOUS
<1>3. PICK a : a = LockAsset(r.side)
  OBVIOUS
<1>4. PICK amount : amount = Due(r.side, r.price, r.qty)
  OBVIOUS
<1>5. PICK t : t = Taker(r)
  OBVIOUS
<1>6. PICK after : after = Outcome(book, t)
  OBVIOUS
<1>7. PICK index : index = Index(id, t, after)
  OBVIOUS
<1>8. PICK made : made = Fills(t, index)
  OBVIOUS
<1>9. PICK legs : legs = Legs(r, made)
  OBVIOUS
<1>10. PICK paid : paid = Changed(Moved(locked, r.user, a, amount), Debits(legs))
  OBVIOUS
<1>11. PICK left : left = Changed(Moved(available, r.user, a, -amount), Credits(legs))
  OBVIOUS
<1>12. PICK tx : tx = [kind |-> "place", id |-> id, amount |-> amount,
                       fills |-> made, status |-> TakerStatus(t, after)]
  OBVIOUS
<1>13. PICK nodes : nodes = Restrict(Bind(node, t.id, id), DOMAIN after)
  OBVIOUS
<1>14. /\ Fetched("OrderPlaced") /\ mode = "up" /\ UNCHANGED <<db, topic>>
       /\ available[r.user][a] >= amount
       /\ \/ /\ book' = after /\ node' = nodes /\ orders' = index
             /\ locked' = paid /\ available' = left /\ pending' = tx
             /\ UNCHANGED <<mode, handled>>
          \/ ~Solvent(paid)
  BY <1>1, <1>2, <1>3, <1>4, <1>5, <1>6, <1>7, <1>8, <1>9, <1>10, <1>11, <1>12, <1>13
     DEF AcceptOrder, Fetched
<1>15. /\ id \in DOMAIN db.orders /\ pending = NoTx /\ handled < Len(topic)
       /\ BookOK(book) /\ available \in Balances
       /\ \A x \in DOMAIN orders : orders[x] \in DOMAIN book /\ node[orders[x]] = x
  BY <1>1, <1>14, CommandOK DEF IInv, MemoryInv
<1>16. r \in Row /\ id \in OrderIds /\ db.available \in Balances
  BY <1>2, <1>15 DEF IInv, DbInv, TablesOK
<1>17. r.user \in Users /\ a \in Assets /\ amount \in Nat
  <2>1. r.price \in Prices /\ r.qty \in Nat
    BY <1>16, PositiveAssumption DEF Row
  <2> QED  BY <1>3, <1>4, <1>16, <2>1, DueType, LockAssetType DEF Row
<1>18. TakerOK(book, t) /\ t.qty = r.qty /\ t.user = r.user /\ t.side = r.side /\ t.price = r.price
  BY <1>5, <1>15, <1>16, TakerType DEF Taker
<1>19. ASSUME NEW u \in Users, NEW b \in Assets
       PROVE  LET h == IF u = r.user /\ b = a THEN amount ELSE 0
              IN  /\ paid[u][b] >= Owes(after, u, b) /\ paid[u][b] >= 0
                  /\ paid[u][b] = db.locked[u][b] + (h - Paid(legs, u, b))
                  /\ left[u][b] + Underway(u, b) = db.available[u][b] + (Received(legs, u, b) - h)
  BY <1>3, <1>4, <1>5, <1>6, <1>8, <1>9, <1>10, <1>11, <1>14, <1>15, <1>16, PaymentsCovered
     DEF Agreed
<1>20. /\ book' = after /\ node' = nodes /\ orders' = index
       /\ locked' = paid /\ available' = left /\ pending' = tx
       /\ UNCHANGED <<mode, handled>>
  BY <1>14, <1>19 DEF Solvent
<1>21. tx # NoTx /\ tx.kind = "place" /\ tx.id = id /\ tx.amount = amount /\ tx.fills = made
       /\ tx.status = TakerStatus(t, after)
  BY <1>12 DEF NoTx
<1>22. /\ Waiting' \subseteq Waiting /\ id \in Waiting /\ id \notin Waiting'
       /\ \A u, b : Underway(u, b)' = Underway(u, b)
  BY <1>1, <1>14, <1>20, <1>21, TakenOne
<1>23. r.status = "NEW" /\ id \notin DOMAIN orders
       /\ \A k \in db.trades : k.buyer # id /\ k.seller # id
  BY <1>2, <1>22 DEF Agreed, WaitingInv
<1>24. /\ DOMAIN after \subseteq DOMAIN book \cup {t.id}
       /\ \A m \in DOMAIN book :
            /\ m \in DOMAIN after <=> Consumed(book, t, m) < book[m].rem
            /\ m \in DOMAIN after =>
                 /\ after[m].user = book[m].user /\ after[m].side = book[m].side
                 /\ after[m].price = book[m].price /\ after[m].qty = book[m].qty
                 /\ after[m].rem > 0
       /\ t.id \in DOMAIN after =>
            /\ after[t.id].user = t.user /\ after[t.id].side = t.side
            /\ after[t.id].price = t.price /\ after[t.id].qty = t.qty
            /\ after[t.id].rem > 0
  BY <1>6, <1>15, <1>18, OutcomeIs
<1>25. /\ DOMAIN index \subseteq DOMAIN orders \cup {id}
       /\ \A m \in DOMAIN book : /\ node[m] \in DOMAIN index <=> m \in DOMAIN after
                                 /\ m \in DOMAIN after => index[node[m]] = m /\ nodes[m] = node[m]
       /\ id \in DOMAIN index <=> t.id \in DOMAIN after
       /\ t.id \in DOMAIN after => index[id] = t.id /\ nodes[t.id] = id
  BY <1>7, <1>13, <1>16, <1>18, <1>23, <1>24, IndexIs DEF Agreed
<1>26. \A f \in made :
         /\ \E m \in DOMAIN book : f.maker = node[m] /\ Consumed(book, t, m) > 0
         /\ f.maker \in DOMAIN orders /\ f.maker \in DOMAIN db.orders
         /\ f.status = IF f.maker \in DOMAIN index THEN "NEW" ELSE "FILLED"
         /\ \A g \in made : f.maker = g.maker => f = g
  BY <1>8, <1>18, FillsAre DEF Agreed
<1>27. \A x : x \in Makers(tx) <=> \E f \in made : f.maker = x
  BY <1>21 DEF Makers
<1>28. WaitingInv'
  <2> SUFFICES ASSUME NEW x \in Waiting'
               PROVE  /\ db.orders[x].status = "NEW" /\ x \notin DOMAIN index
                      /\ \A k \in db.trades : k.buyer # x /\ k.seller # x
                      /\ x # tx.id /\ x \notin Makers(tx)
    BY <1>14, <1>20 DEF Agreed, WaitingInv
  <2>1. x \in Waiting /\ x # id
    BY <1>22
  <2>2. db.orders[x].status = "NEW" /\ x \notin DOMAIN orders
        /\ \A k \in db.trades : k.buyer # x /\ k.seller # x
    BY <2>1 DEF Agreed, WaitingInv
  <2> QED  BY <1>21, <1>25, <1>26, <1>27, <2>1, <2>2
<1>29. RestingInv'
  <2> SUFFICES ASSUME NEW n \in DOMAIN after
               PROVE  /\ nodes[n] \in DOMAIN db.orders
                      /\ nodes[n] \in DOMAIN index /\ index[nodes[n]] = n
                      /\ after[n].user = db.orders[nodes[n]].user
                      /\ after[n].side = db.orders[nodes[n]].side
                      /\ after[n].price = db.orders[nodes[n]].price
                      /\ after[n].qty = db.orders[nodes[n]].qty
                      /\ after[n].rem > 0
    BY <1>14, <1>20 DEF RestingInv
  <2>1. CASE n = t.id
    BY <1>2, <1>15, <1>18, <1>24, <1>25, <2>1
  <2>2. CASE n # t.id
    <3>1. n \in DOMAIN book
      BY <1>24, <2>2
    <3>2. /\ node[n] \in DOMAIN db.orders
          /\ book[n].user = db.orders[node[n]].user /\ book[n].side = db.orders[node[n]].side
          /\ book[n].price = db.orders[node[n]].price /\ book[n].qty = db.orders[node[n]].qty
      BY <3>1 DEF Agreed, RestingInv
    <3> QED  BY <1>24, <1>25, <3>1, <3>2
  <2> QED  BY <2>1, <2>2
<1>30. /\ TakerStatus(t, after) \in {"PLACED", "PARTIAL", "FILLED"}
       /\ TakerStatus(t, after) = "FILLED" <=> t.id \notin DOMAIN after
  BY DEF TakerStatus
<1>31. ASSUME NEW x
       PROVE  Told(x)' = IF x = id THEN TakerStatus(t, after)
                         ELSE IF x \in Makers(tx) THEN (IF x \in DOMAIN index THEN "NEW" ELSE "FILLED")
                         ELSE Told(x)
  <2>1. Told(x)' = IF x = id THEN StatusInDB(TakerStatus(t, after))
                   ELSE IF x \in Makers(tx) THEN StatusInDB(MakerStatus(tx, x))
                   ELSE db.orders[x].status
    BY <1>14, <1>20, <1>21 DEF Told
  <2>2. StatusInDB(TakerStatus(t, after)) = TakerStatus(t, after)
    BY <1>30 DEF StatusInDB
  <2>3. Told(x) = db.orders[x].status
    BY <1>15 DEF Told
  <2>4. ASSUME x \in Makers(tx)
        PROVE  StatusInDB(MakerStatus(tx, x)) = IF x \in DOMAIN index THEN "NEW" ELSE "FILLED"
    <3>1. PICK f \in made : f.maker = x
      BY <1>27, <2>4
    <3>2. (CHOOSE g \in made : g.maker = x) \in made /\ (CHOOSE g \in made : g.maker = x).maker = x
      BY <3>1
    <3>3. MakerStatus(tx, x) = IF x \in DOMAIN index THEN "NEW" ELSE "FILLED"
      BY <1>21, <1>26, <3>2 DEF MakerStatus
    <3> QED  BY <3>3 DEF StatusInDB
  <2> QED  BY <2>1, <2>2, <2>3, <2>4
<1>32. StatusInv'
  <2>1. ASSUME NEW x \in DOMAIN index PROVE Told(x)' \notin Terminal
    <3>1. CASE x = id
      BY <1>25, <1>30, <1>31, <2>1, <3>1 DEF Terminal
    <3>2. CASE x # id
      <4>1. Told(x) \notin Terminal
        BY <1>25, <2>1, <3>2 DEF Agreed, StatusInv
      <4> QED  BY <1>31, <2>1, <3>2, <4>1 DEF Terminal
    <3> QED  BY <3>1, <3>2
  <2>2. ASSUME NEW x \in DOMAIN db.orders, Told(x)' \in {"PLACED", "PARTIAL"} PROVE x \in DOMAIN index
    <3>1. CASE x = id
      BY <1>25, <1>30, <1>31, <2>2, <3>1
    <3>2. CASE x # id
      <4>1. x \notin Makers(tx) /\ Told(x) \in {"PLACED", "PARTIAL"}
        BY <1>31, <2>2, <3>2
      <4>2. x \in DOMAIN orders
        BY <1>14, <4>1 DEF Agreed, StatusInv
      <4>3. PICK m \in DOMAIN book : m = orders[x] /\ node[m] = x
        BY <1>15, <4>2
      <4>4. ~(Consumed(book, t, m) > 0)
        <5> SUFFICES ASSUME Consumed(book, t, m) > 0 PROVE FALSE
          OBVIOUS
        <5>1. \E f \in made : f.maker = node[m]
          <6> DEFINE f == [n |-> m, maker |-> node[m], user |-> book[m].user,
                           price |-> book[m].price, qty |-> Consumed(book, t, m),
                           status |-> IF node[m] \in DOMAIN index THEN "NEW" ELSE "FILLED"]
          <6>1. f \in made /\ f.maker = node[m]
            BY <1>8 DEF Fills
          <6> QED  BY <6>1
        <5> QED  BY <1>27, <4>1, <4>3, <5>1
      <4>5. Consumed(book, t, m) \in Nat /\ book[m].rem > 0 /\ book[m].rem \in Nat
        BY <1>15, <1>18, ConsumedOK DEF Agreed, RestingInv, TakerOK, BookOK, Resting
      <4>6. Consumed(book, t, m) < book[m].rem
        BY <4>4, <4>5
      <4> QED  BY <1>24, <1>25, <4>3, <4>6
    <3> QED  BY <3>1, <3>2
  <2> QED  BY <1>14, <1>20, <2>1, <2>2 DEF StatusInv
<1>33. TxInv'
  <2>1. db.available[r.user][a] >= amount
    <3>1. PICK y \in Nat : y = Underway(r.user, a)
      BY UnreadOK, CameType, UnderwayIsCame
    <3>2. available[r.user][a] + y = db.available[r.user][a] + TxAvailable(r.user, a)
      BY <1>14, <1>17, <3>1 DEF Agreed, FundsInv
    <3>3. TxAvailable(r.user, a) = 0 /\ available[r.user][a] \in Nat /\ db.available[r.user][a] \in Nat
      BY <1>15, <1>16, <1>17 DEF TxAvailable, Balances
    <3> QED  BY <1>14, <1>17, <3>1, <3>2, <3>3
  <2>2. PlaceReady'
    BY <1>2, <1>3, <1>14, <1>20, <1>21, <1>23, <1>30, <2>1 DEF PlaceReady
  <2>3. ASSUME NEW f \in made
        PROVE  /\ f.maker \in DOMAIN db.orders /\ f.maker # id
               /\ db.orders[f.maker].status \notin Terminal
               /\ FillKey(id, r.side, f) \notin db.trades
    <3>1. f.maker \in DOMAIN db.orders /\ f.maker \in DOMAIN orders /\ f.maker # id
      BY <1>23, <1>26
    <3>2. Told(f.maker) \notin Terminal /\ Told(f.maker) = db.orders[f.maker].status
      BY <1>15, <3>1 DEF Agreed, StatusInv, Told
    <3>3. FillKey(id, r.side, f).buyer = id \/ FillKey(id, r.side, f).seller = id
      BY DEF FillKey
    <3> QED  BY <1>23, <3>1, <3>2, <3>3
  <2>4. FillsReady'
    BY <1>2, <1>14, <1>20, <1>21, <1>26, <2>3 DEF FillsReady
  <2> QED  BY <1>20, <1>21, <2>2, <2>4 DEF TxInv
<1>34. FundsInv'
  <2> SUFFICES ASSUME NEW u \in Users, NEW b \in Assets
               PROVE  /\ paid[u][b] >= Owes(after, u, b)
                      /\ paid[u][b] = db.locked[u][b] + TxLocked(u, b)'
                      /\ left[u][b] + Underway(u, b)' = db.available[u][b] + TxAvailable(u, b)'
    BY <1>14, <1>20 DEF FundsInv
  <2>1. PICK h : h = IF u = r.user /\ b = a THEN amount ELSE 0
    OBVIOUS
  <2>2. /\ paid[u][b] >= Owes(after, u, b)
        /\ paid[u][b] = db.locked[u][b] + (h - Paid(legs, u, b))
        /\ left[u][b] + Underway(u, b) = db.available[u][b] + (Received(legs, u, b) - h)
    BY <1>19, <2>1
  <2>3. Held(u, b)' = h
    BY <1>2, <1>3, <1>14, <1>20, <1>21, <2>1 DEF Held
  <2>4. /\ TxLocked(u, b)' = h - Paid(legs, u, b)
        /\ TxAvailable(u, b)' = Received(legs, u, b) - h
    BY <1>2, <1>9, <1>14, <1>20, <1>21, <2>3 DEF TxLocked, TxAvailable
  <2> QED  BY <1>22, <2>2, <2>4
<1> QED  BY <1>14, <1>20, <1>28, <1>29, <1>32, <1>33, <1>34 DEF Agreed

-----------------------------------------------------------------------------
(* What the worker has done in memory is written to the database.          *)

\* Tables are not an error.
LEMMA TablesAreNoError == ASSUME NEW d, "orders" \in DOMAIN d PROVE d # Refused
<1>1. "orders" \notin DOMAIN Refused
  BY DEF Refused
<1> QED  BY <1>1

\* The column of one user and asset after n moved in: no balance is negative
\* if this one is not.
LEMMA MovedSolvent ==
    ASSUME NEW held \in Balances, NEW u \in Users, NEW a \in Assets, NEW n \in Int,
           held[u][a] + n >= 0
    PROVE  /\ Solvent(Moved(held, u, a, n)) /\ Moved(held, u, a, n) \in Balances
           /\ \A v \in Users, b \in Assets :
                Moved(held, u, a, n)[v][b] = held[v][b] + (IF v = u /\ b = a THEN n ELSE 0)
<1>1. /\ Moved(held, u, a, n) \in [Users -> [Assets -> Int]]
      /\ \A v \in Users, b \in Assets :
           Moved(held, u, a, n)[v][b] = held[v][b] + (IF v = u /\ b = a THEN n ELSE 0)
  BY MovedType
<1>2. \A v \in Users, b \in Assets : Moved(held, u, a, n)[v][b] >= 0
  BY <1>1 DEF Balances
<1>3. Solvent(Moved(held, u, a, n))
  BY <1>2 DEF Solvent
<1> QED  BY <1>1, <1>3, SolventIsNat

\* What UpdateBalanceLock leaves when the available funds suffice.
LEMMA LockEffect ==
    ASSUME NEW d, TablesOK(d), NEW u \in Users, NEW a \in Assets, NEW n \in Nat,
           d.available[u][a] >= n
    PROVE  LET e == UpdateBalanceLock(d, u, a, n)
           IN  /\ TablesOK(e) /\ e.orders = d.orders /\ e.trades = d.trades
               /\ e.available = Moved(d.available, u, a, -n)
               /\ e.locked = Moved(d.locked, u, a, n)
<1> DEFINE e == [d EXCEPT !.available = Moved(@, u, a, -n), !.locked = Moved(@, u, a, n)]
<1>1. /\ DOMAIN e = DOMAIN d /\ e.orders = d.orders /\ e.trades = d.trades
      /\ e.available = Moved(d.available, u, a, -n) /\ e.locked = Moved(d.locked, u, a, n)
  BY DEF TablesOK
<1>2. d.available \in Balances /\ d.locked \in Balances
      /\ d.available[u][a] \in Nat /\ d.locked[u][a] \in Nat
  BY DEF TablesOK, Balances
<1>3. -n \in Int /\ d.available[u][a] + -n >= 0 /\ d.locked[u][a] + n >= 0
  BY <1>2
<1>4. UpdateBalanceLock(d, u, a, n) = Checked(e)
  BY DEF UpdateBalanceLock
<1> HIDE DEF e
<1>5. /\ Solvent(e.available) /\ Solvent(e.locked)
      /\ e.available \in Balances /\ e.locked \in Balances
  BY <1>1, <1>2, <1>3, MovedSolvent
<1>6. UpdateBalanceLock(d, u, a, n) = e
  BY <1>4, <1>5 DEF Checked
<1> QED  BY <1>1, <1>5, <1>6 DEF TablesOK

\* What UpdateBalanceUnlock leaves when the locked funds suffice.
LEMMA UnlockEffect ==
    ASSUME NEW d, TablesOK(d), NEW u \in Users, NEW a \in Assets, NEW n \in Nat,
           d.locked[u][a] >= n
    PROVE  LET e == UpdateBalanceUnlock(d, u, a, n)
           IN  /\ TablesOK(e) /\ e.orders = d.orders /\ e.trades = d.trades
               /\ e.available = Moved(d.available, u, a, n)
               /\ e.locked = Moved(d.locked, u, a, -n)
<1> DEFINE e == [d EXCEPT !.available = Moved(@, u, a, n), !.locked = Moved(@, u, a, -n)]
<1>1. /\ DOMAIN e = DOMAIN d /\ e.orders = d.orders /\ e.trades = d.trades
      /\ e.available = Moved(d.available, u, a, n) /\ e.locked = Moved(d.locked, u, a, -n)
  BY DEF TablesOK
<1>2. d.available \in Balances /\ d.locked \in Balances
      /\ d.available[u][a] \in Nat /\ d.locked[u][a] \in Nat
  BY DEF TablesOK, Balances
<1>3. -n \in Int /\ d.available[u][a] + n >= 0 /\ d.locked[u][a] + -n >= 0
  BY <1>2
<1>4. UpdateBalanceUnlock(d, u, a, n) = Checked(e)
  BY DEF UpdateBalanceUnlock
<1> HIDE DEF e
<1>5. /\ Solvent(e.available) /\ Solvent(e.locked)
      /\ e.available \in Balances /\ e.locked \in Balances
  BY <1>1, <1>2, <1>3, MovedSolvent
<1>6. UpdateBalanceUnlock(d, u, a, n) = e
  BY <1>4, <1>5 DEF Checked
<1> QED  BY <1>1, <1>5, <1>6 DEF TablesOK

\* What UpdateOrderStatus leaves.
LEMMA StatusEffect ==
    ASSUME NEW d, TablesOK(d), NEW id \in DOMAIN d.orders, NEW s,
           NEW e, e = UpdateOrderStatus(d, id, s)
    PROVE  /\ TablesOK(e) /\ DOMAIN e.orders = DOMAIN d.orders /\ e.trades = d.trades
           /\ e.available = d.available /\ e.locked = d.locked
           /\ \A x \in DOMAIN d.orders :
                e.orders[x] = IF x = id THEN [d.orders[x] EXCEPT !.status = StatusInDB(s)]
                              ELSE d.orders[x]
<1>1. /\ e.trades = d.trades /\ e.available = d.available /\ e.locked = d.locked
      /\ e.orders = [d.orders EXCEPT ![id].status = StatusInDB(s)]
  BY DEF UpdateOrderStatus, TablesOK
<1>2. Keeps(d, e)
  BY StatusKeeps
<1>3. \A x \in DOMAIN d.orders :
        e.orders[x] = IF x = id THEN [d.orders[x] EXCEPT !.status = StatusInDB(s)] ELSE d.orders[x]
  BY <1>1 DEF TablesOK
<1> QED  BY <1>1, <1>2, <1>3 DEF Keeps

\* What UpdateOrderStatusesBatch leaves.
LEMMA StatusesEffect ==
    ASSUME NEW d, TablesOK(d), NEW status
    PROVE  LET e == UpdateOrderStatusesBatch(d, status)
           IN  /\ TablesOK(e) /\ DOMAIN e.orders = DOMAIN d.orders /\ e.trades = d.trades
               /\ e.available = d.available /\ e.locked = d.locked
               /\ \A x \in DOMAIN d.orders :
                    e.orders[x] = IF x \in DOMAIN status
                                  THEN [d.orders[x] EXCEPT !.status = StatusInDB(status[x])]
                                  ELSE d.orders[x]
<1> DEFINE e == UpdateOrderStatusesBatch(d, status)
<1>1. /\ e.trades = d.trades /\ e.available = d.available /\ e.locked = d.locked
      /\ e.orders = [id \in DOMAIN d.orders |->
           IF id \in DOMAIN status THEN [d.orders[id] EXCEPT !.status = StatusInDB(status[id])]
           ELSE d.orders[id]]
  BY DEF UpdateOrderStatusesBatch, TablesOK
<1>2. Keeps(d, e)
  BY StatusesKeep
<1> HIDE DEF e
<1> QED  BY <1>1, <1>2 DEF Keeps, e

\* What CreateTradesBatch leaves when no key is taken or given twice.
LEMMA TradesEffect ==
    ASSUME NEW d, TablesOK(d), NEW keys, Range(keys) \cap d.trades = {}, IsInjective(keys)
    PROVE  LET e == CreateTradesBatch(d, keys)
           IN  /\ TablesOK(e) /\ e.orders = d.orders /\ e.trades = d.trades \cup Range(keys)
               /\ e.available = d.available /\ e.locked = d.locked
<1> DEFINE e == [d EXCEPT !.trades = @ \cup Range(keys)]
<1>1. CreateTradesBatch(d, keys) = e
  BY DEF CreateTradesBatch
<1>2. /\ DOMAIN e = DOMAIN d /\ e.available = d.available /\ e.locked = d.locked
      /\ e.orders = d.orders /\ e.trades = d.trades \cup Range(keys)
  BY DEF TablesOK
<1> QED  BY <1>1, <1>2 DEF TablesOK

\* What BatchUpdateBalances leaves when no balance becomes negative.
LEMMA BatchEffect ==
    ASSUME NEW d, TablesOK(d), NEW avail, NEW lock,
           \A u \in Users, a \in Assets :
             /\ avail[u][a] \in Int /\ d.available[u][a] + avail[u][a] >= 0
             /\ lock[u][a] \in Int /\ d.locked[u][a] + lock[u][a] >= 0
    PROVE  LET e == BatchUpdateBalances(d, avail, lock)
           IN  /\ TablesOK(e) /\ e.orders = d.orders /\ e.trades = d.trades
               /\ \A u \in Users, a \in Assets :
                    /\ e.available[u][a] = d.available[u][a] + avail[u][a]
                    /\ e.locked[u][a] = d.locked[u][a] + lock[u][a]
<1> DEFINE e == [d EXCEPT !.available = Changed(@, avail), !.locked = Changed(@, lock)]
<1>1. /\ DOMAIN e = DOMAIN d /\ e.orders = d.orders /\ e.trades = d.trades
      /\ e.available = Changed(d.available, avail) /\ e.locked = Changed(d.locked, lock)
  BY DEF TablesOK
<1>2. BatchUpdateBalances(d, avail, lock) = Checked(e)
  BY DEF BatchUpdateBalances
<1> HIDE DEF e
<1>3. \A u \in Users, a \in Assets :
        /\ e.available[u][a] = d.available[u][a] + avail[u][a]
        /\ e.locked[u][a] = d.locked[u][a] + lock[u][a]
        /\ d.available[u][a] \in Nat /\ d.locked[u][a] \in Nat
  BY <1>1 DEF Changed, TablesOK, Balances
<1>4. Solvent(e.available) /\ Solvent(e.locked)
  BY <1>3 DEF Solvent
<1>5. e.available \in [Users -> [Assets -> Int]] /\ e.locked \in [Users -> [Assets -> Int]]
  BY <1>1, <1>3 DEF Changed
<1>6. e.available \in Balances /\ e.locked \in Balances
  BY <1>4, <1>5, SolventIsNat
<1>7. BatchUpdateBalances(d, avail, lock) = e
  BY <1>2, <1>4 DEF Checked
<1> QED  BY <1>1, <1>3, <1>6, <1>7 DEF TablesOK

\* The tables e are those of the database with the transaction in hand written.
Written(e) ==
    /\ TablesOK(e) /\ DOMAIN e.orders = DOMAIN db.orders
    /\ \A x \in DOMAIN db.orders : e.orders[x] = [db.orders[x] EXCEPT !.status = Told(x)]
    /\ \A u \in Users, a \in Assets :
         /\ e.available[u][a] = db.available[u][a] + TxAvailable(u, a)
         /\ e.locked[u][a] = db.locked[u][a] + TxLocked(u, a)
    /\ e.trades = db.trades
         \cup {FillKey(pending.id, db.orders[pending.id].side, f) : f \in pending.fills}

\* A row with the status it has is that row; with another, it is another only
\* in its status.
LEMMA SameStatus == \A o \in Row : [o EXCEPT !.status = o.status] = o
BY DEF Row

\* Setting the status of a row leaves its other columns.
LEMMA OnlyStatus ==
    ASSUME NEW o \in Row, NEW s, NEW q, q = [o EXCEPT !.status = s]
    PROVE  /\ q.status = s /\ q.user = o.user /\ q.side = o.side
           /\ q.price = o.price /\ q.qty = o.qty
BY DEF Row

\* Memory never has less than nothing, and memory is what the database will be.
LEMMA NothingNegative ==
    ASSUME IInv, FundsInv, mode = "up", NEW u \in Users, NEW a \in Assets
    PROVE  /\ db.available[u][a] + TxAvailable(u, a) >= 0
           /\ db.locked[u][a] + TxLocked(u, a) >= 0
<1>1. available[u][a] \in Nat /\ locked[u][a] \in Nat
  BY DEF IInv, MemoryInv, Balances
<1>2. PICK y \in Nat : y = Underway(u, a)
  BY UnreadOK, CameType, UnderwayIsCame
<1>3. /\ available[u][a] + y = db.available[u][a] + TxAvailable(u, a)
      /\ locked[u][a] = db.locked[u][a] + TxLocked(u, a)
  BY <1>2 DEF FundsInv
<1>4. available[u][a] + y >= 0 /\ locked[u][a] >= 0
  BY <1>1, <1>2
<1> QED  BY <1>3, <1>4

\* The transaction of handleCancelOrder is accepted.
LEMMA CancelWritten ==
    ASSUME IInv, Agreed, mode = "up", pending # NoTx, pending.kind = "cancel"
    PROVE  CancelTx(pending) # Refused /\ Written(CancelTx(pending))
<1>1. PICK id : id = pending.id
  OBVIOUS
<1>2. PICK r : r = db.orders[id]
  OBVIOUS
<1>3. PICK a : a = LockAsset(r.side)
  OBVIOUS
<1>4. PICK n : n = pending.amount
  OBVIOUS
<1>5. /\ TablesOK(db) /\ id \in DOMAIN db.orders /\ n \in Nat /\ -n \in Int
      /\ r.user \in Users /\ a \in Assets
      /\ pending.fills = {} /\ pending.status = "CANCELLED"
  BY <1>1, <1>2, <1>3, <1>4, LockAssetType
     DEF IInv, DbInv, PendingInv, TablesOK, Row, Agreed, TxInv, CancelReady
<1>6. /\ \A u, b : Held(u, b) = IF u = r.user /\ b = a THEN n ELSE 0
      /\ \A u, b : TxLocked(u, b) = -Held(u, b) /\ TxAvailable(u, b) = Held(u, b)
  BY <1>1, <1>2, <1>3, <1>4 DEF Held, TxLocked, TxAvailable
<1>7. db.locked[r.user][a] >= n /\ db.available \in Balances /\ db.locked \in Balances
  <2>1. db.locked[r.user][a] + TxLocked(r.user, a) >= 0
    BY <1>5, NothingNegative DEF Agreed
  <2>2. TxLocked(r.user, a) = -n
    BY <1>6
  <2>3. db.locked[r.user][a] \in Nat
    BY <1>5 DEF TablesOK, Balances
  <2> QED  BY <1>5, <2>1, <2>2, <2>3 DEF TablesOK
<1>8. PICK d : d = UpdateBalanceUnlock(db, r.user, a, n)
  OBVIOUS
<1>9. /\ TablesOK(d) /\ d.orders = db.orders /\ d.trades = db.trades
      /\ d.available = Moved(db.available, r.user, a, n)
      /\ d.locked = Moved(db.locked, r.user, a, -n)
  BY <1>5, <1>7, <1>8, UnlockEffect
<1>10. d # Refused
  BY <1>9, TablesAreNoError DEF TablesOK
<1>11. PICK e : e = UpdateOrderStatus(d, id, "CANCELLED")
  OBVIOUS
<1>12. CancelTx(pending) = e
  BY <1>1, <1>2, <1>3, <1>4, <1>5, <1>8, <1>10, <1>11 DEF CancelTx, Then
<1>13. /\ TablesOK(e) /\ DOMAIN e.orders = DOMAIN db.orders /\ e.trades = db.trades
       /\ e.available = d.available /\ e.locked = d.locked
       /\ \A x \in DOMAIN db.orders :
            e.orders[x] = IF x = id THEN [db.orders[x] EXCEPT !.status = StatusInDB("CANCELLED")]
                          ELSE db.orders[x]
  <2>1. id \in DOMAIN d.orders
    BY <1>5, <1>9
  <2>2. /\ TablesOK(e) /\ DOMAIN e.orders = DOMAIN d.orders /\ e.trades = d.trades
        /\ e.available = d.available /\ e.locked = d.locked
        /\ \A x \in DOMAIN d.orders :
             e.orders[x] = IF x = id THEN [d.orders[x] EXCEPT !.status = StatusInDB("CANCELLED")]
                           ELSE d.orders[x]
    <3>1. TablesOK(d)
      BY <1>9
    <3> QED  BY <1>11, <2>1, <3>1, StatusEffect
  <2> QED  BY <1>9, <2>2
<1>14. e # Refused
  BY <1>13, TablesAreNoError DEF TablesOK
<1>15. ASSUME NEW x \in DOMAIN db.orders
       PROVE  e.orders[x] = [db.orders[x] EXCEPT !.status = Told(x)]
  <2>1. Told(x) = IF x = id THEN StatusInDB("CANCELLED") ELSE db.orders[x].status
    BY <1>1, <1>5 DEF Told, Makers
  <2>2. [db.orders[x] EXCEPT !.status = db.orders[x].status] = db.orders[x]
    BY <1>5, SameStatus DEF TablesOK
  <2> QED  BY <1>13, <2>1, <2>2
<1>16. ASSUME NEW u \in Users, NEW b \in Assets
       PROVE  /\ e.available[u][b] = db.available[u][b] + TxAvailable(u, b)
              /\ e.locked[u][b] = db.locked[u][b] + TxLocked(u, b)
  <2>1. /\ e.available[u][b] = db.available[u][b] + (IF u = r.user /\ b = a THEN n ELSE 0)
        /\ e.locked[u][b] = db.locked[u][b] + (IF u = r.user /\ b = a THEN -n ELSE 0)
    BY <1>5, <1>7, <1>9, <1>13 DEF Moved, Balances
  <2>2. TxLocked(u, b) = IF u = r.user /\ b = a THEN -n ELSE 0
    BY <1>5, <1>6
  <2> QED  BY <1>6, <2>1, <2>2
<1>17. e.trades = db.trades
         \cup {FillKey(pending.id, db.orders[pending.id].side, f) : f \in pending.fills}
  BY <1>5, <1>13
<1> QED  BY <1>12, <1>13, <1>14, <1>15, <1>16, <1>17 DEF Written

\* Two fills of one order have different keys, and new ones.
LEMMA KeysAreNew ==
    ASSUME FillsReady, NEW keys,
           keys = [f \in pending.fills |-> FillKey(pending.id, db.orders[pending.id].side, f)]
    PROVE  /\ Range(keys) \cap db.trades = {} /\ IsInjective(keys)
           /\ Range(keys) = {FillKey(pending.id, db.orders[pending.id].side, f) : f \in pending.fills}
<1>1. Range(keys) = {FillKey(pending.id, db.orders[pending.id].side, f) : f \in pending.fills}
  BY DEF Range
<1>2. Range(keys) \cap db.trades = {}
  BY <1>1 DEF FillsReady
<1>3. ASSUME NEW f \in pending.fills, NEW g \in pending.fills, keys[f] = keys[g] PROVE f = g
  <2>1. f.maker = g.maker
    BY <1>3 DEF FillKey
  <2> QED  BY <2>1 DEF FillsReady
<1> QED  BY <1>1, <1>2, <1>3 DEF IsInjective

\* The transaction of handlePlaceOrder is accepted.
LEMMA PlaceWritten ==
    ASSUME IInv, Agreed, mode = "up", pending # NoTx, pending.kind = "place"
    PROVE  PlaceTx(pending) # Refused /\ Written(PlaceTx(pending))
<1>1. PICK id : id = pending.id
  OBVIOUS
<1>2. PICK r : r = db.orders[id]
  OBVIOUS
<1>3. PICK a : a = LockAsset(r.side)
  OBVIOUS
<1>4. PICK n : n = pending.amount
  OBVIOUS
<1>5. PICK F : F = pending.fills
  OBVIOUS
<1>6. PICK legs : legs = Legs(r, F)
  OBVIOUS
<1>7. PICK keys : keys = [f \in F |-> FillKey(id, r.side, f)]
  OBVIOUS
<1>8. PICK status : status = [x \in {f.maker : f \in F} |-> (CHOOSE f \in F : f.maker = x).status]
  OBVIOUS
<1>9. /\ TablesOK(db) /\ id \in DOMAIN db.orders /\ n \in Nat /\ -n \in Int /\ r \in Row
      /\ r.user \in Users /\ a \in Assets /\ IsFiniteSet(F) /\ \A f \in F : FillOK(f)
      /\ db.available[r.user][a] >= n /\ FillsReady
  BY <1>1, <1>2, <1>3, <1>4, <1>5, LockAssetType
     DEF IInv, DbInv, PendingInv, TablesOK, Row, Agreed, TxInv, PlaceReady
<1>10. /\ \A u, b : Held(u, b) = IF u = r.user /\ b = a THEN n ELSE 0
       /\ \A u, b : /\ TxLocked(u, b) = Held(u, b) - Paid(legs, u, b)
                    /\ TxAvailable(u, b) = Received(legs, u, b) - Held(u, b)
  BY <1>1, <1>2, <1>3, <1>4, <1>5, <1>6 DEF Held, TxLocked, TxAvailable
<1>11. PICK d1 : d1 = UpdateBalanceLock(db, r.user, a, n)
  OBVIOUS
<1>12. PICK d2 : d2 = UpdateOrderStatus(d1, id, pending.status)
  OBVIOUS
<1>13. PICK d3 : d3 = CreateTradesBatch(d2, keys)
  OBVIOUS
<1>14. PICK d4 : d4 = UpdateOrderStatusesBatch(d3, status)
  OBVIOUS
<1>15. PICK e : e = BatchUpdateBalances(d4, Credits(legs), Debits(legs))
  OBVIOUS
<1>16. /\ TablesOK(d1) /\ d1.orders = db.orders /\ d1.trades = db.trades
       /\ d1.available = Moved(db.available, r.user, a, -n)
       /\ d1.locked = Moved(db.locked, r.user, a, n)
  BY <1>9, <1>11, LockEffect
<1>17. /\ TablesOK(d2) /\ DOMAIN d2.orders = DOMAIN db.orders /\ d2.trades = db.trades
       /\ d2.available = d1.available /\ d2.locked = d1.locked
       /\ \A x \in DOMAIN db.orders :
            d2.orders[x] = IF x = id THEN [db.orders[x] EXCEPT !.status = StatusInDB(pending.status)]
                           ELSE db.orders[x]
  <2>1. id \in DOMAIN d1.orders
    BY <1>9, <1>16
  <2>2. /\ TablesOK(d2) /\ DOMAIN d2.orders = DOMAIN d1.orders /\ d2.trades = d1.trades
        /\ d2.available = d1.available /\ d2.locked = d1.locked
        /\ \A x \in DOMAIN d1.orders :
             d2.orders[x] = IF x = id THEN [d1.orders[x] EXCEPT !.status = StatusInDB(pending.status)]
                            ELSE d1.orders[x]
    <3>1. TablesOK(d1)
      BY <1>16
    <3>2. PICK s : s = pending.status
      OBVIOUS
    <3>3. d2 = UpdateOrderStatus(d1, id, s)
      BY <1>12, <3>2
    <3>4. /\ TablesOK(d2) /\ DOMAIN d2.orders = DOMAIN d1.orders /\ d2.trades = d1.trades
          /\ d2.available = d1.available /\ d2.locked = d1.locked
          /\ \A x \in DOMAIN d1.orders :
               d2.orders[x] = IF x = id THEN [d1.orders[x] EXCEPT !.status = StatusInDB(s)]
                              ELSE d1.orders[x]
      BY <2>1, <3>1, <3>3, StatusEffect
    <3> QED  BY <3>2, <3>4
  <2> QED  BY <1>16, <2>2
<1>18. /\ Range(keys) \cap db.trades = {} /\ IsInjective(keys)
       /\ Range(keys) = {FillKey(id, r.side, f) : f \in F}
  BY <1>1, <1>2, <1>5, <1>7, <1>9, KeysAreNew
<1>19. /\ TablesOK(d3) /\ d3.orders = d2.orders /\ d3.trades = db.trades \cup Range(keys)
       /\ d3.available = d1.available /\ d3.locked = d1.locked
  BY <1>13, <1>17, <1>18, TradesEffect
<1>20. /\ TablesOK(d4) /\ DOMAIN d4.orders = DOMAIN db.orders /\ d4.trades = d3.trades
       /\ d4.available = d1.available /\ d4.locked = d1.locked
       /\ \A x \in DOMAIN db.orders :
            d4.orders[x] = IF x \in DOMAIN status
                           THEN [d2.orders[x] EXCEPT !.status = StatusInDB(status[x])]
                           ELSE d2.orders[x]
  BY <1>14, <1>17, <1>19, StatusesEffect
<1>21. ASSUME NEW u \in Users, NEW b \in Assets
       PROVE  /\ Credits(legs)[u][b] \in Int /\ Debits(legs)[u][b] \in Int
              /\ d4.available[u][b] + Credits(legs)[u][b] = db.available[u][b] + TxAvailable(u, b)
              /\ d4.locked[u][b] + Debits(legs)[u][b] = db.locked[u][b] + TxLocked(u, b)
  <2>1. /\ Credits(legs) \in Balances
        /\ [v \in Users |-> [c \in Assets |-> Paid(legs, v, c)]] \in Balances
    BY <1>6, <1>9, LegsOK, LegsBalance
  <2>2. PICK p \in Nat : p = Paid(legs, u, b)
    BY <2>1 DEF Balances
  <2>3. PICK c \in Nat : c = Received(legs, u, b)
    BY <2>1 DEF Balances, Credits
  <2>4. Credits(legs)[u][b] = c /\ Debits(legs)[u][b] = -p
    BY <2>2, <2>3 DEF Credits, Debits
  <2>5. PICK h \in Nat : h = Held(u, b)
    BY <1>9, <1>10
  <2>6. db.available \in Balances /\ db.locked \in Balances
        /\ db.available[u][b] \in Nat /\ db.locked[u][b] \in Nat
    BY <1>9 DEF TablesOK, Balances
  <2>7. /\ d4.available[u][b] = db.available[u][b] + (IF u = r.user /\ b = a THEN -n ELSE 0)
        /\ d4.locked[u][b] = db.locked[u][b] + (IF u = r.user /\ b = a THEN n ELSE 0)
    BY <1>9, <1>16, <1>20, <2>6 DEF Moved, Balances
  <2>8. d4.available[u][b] = db.available[u][b] - h /\ d4.locked[u][b] = db.locked[u][b] + h
    BY <1>9, <1>10, <2>5, <2>6, <2>7
  <2>9. TxLocked(u, b) = h - p /\ TxAvailable(u, b) = c - h
    BY <1>10, <2>2, <2>3, <2>5
  <2>10. /\ (db.available[u][b] - h) + c = db.available[u][b] + (c - h)
         /\ (db.locked[u][b] + h) + -p = db.locked[u][b] + (h - p)
    BY <2>2, <2>3, <2>5, <2>6
  <2> QED  BY <2>2, <2>3, <2>4, <2>8, <2>9, <2>10
<1>22. ASSUME NEW u \in Users, NEW b \in Assets
       PROVE  /\ d4.available[u][b] + Credits(legs)[u][b] >= 0
              /\ d4.locked[u][b] + Debits(legs)[u][b] >= 0
  BY <1>21, NothingNegative DEF Agreed
<1>23. /\ TablesOK(e) /\ e.orders = d4.orders /\ e.trades = d4.trades
       /\ \A u \in Users, b \in Assets :
            /\ e.available[u][b] = d4.available[u][b] + Credits(legs)[u][b]
            /\ e.locked[u][b] = d4.locked[u][b] + Debits(legs)[u][b]
  BY <1>15, <1>20, <1>21, <1>22, BatchEffect
<1>24. d1 # Refused /\ d2 # Refused /\ d3 # Refused /\ d4 # Refused /\ e # Refused
  BY <1>16, <1>17, <1>19, <1>20, <1>23, TablesAreNoError DEF TablesOK
<1>25. PlaceTx(pending) = e
  BY <1>1, <1>2, <1>3, <1>4, <1>5, <1>6, <1>7, <1>8, <1>11, <1>12, <1>13, <1>14, <1>15, <1>24
     DEF PlaceTx, Then
<1>26. ASSUME NEW x \in DOMAIN db.orders
       PROVE  e.orders[x] = [db.orders[x] EXCEPT !.status = Told(x)]
  <2>1. DOMAIN status = Makers(pending) /\ \A y \in DOMAIN status : status[y] = MakerStatus(pending, y)
    BY <1>5, <1>8 DEF Makers, MakerStatus
  <2>2. id \notin Makers(pending)
    BY <1>1, <1>9 DEF FillsReady, Makers
  <2>3. Told(x) = IF x = id THEN StatusInDB(pending.status)
                  ELSE IF x \in DOMAIN status THEN StatusInDB(status[x])
                  ELSE db.orders[x].status
    BY <1>1, <2>1 DEF Told
  <2>4. [db.orders[x] EXCEPT !.status = db.orders[x].status] = db.orders[x]
    BY <1>9, SameStatus DEF TablesOK
  <2>5. e.orders[x] = d4.orders[x]
    BY <1>23
  <2> QED  BY <1>17, <1>20, <2>1, <2>2, <2>3, <2>4, <2>5
<1>27. e.trades = db.trades
         \cup {FillKey(pending.id, db.orders[pending.id].side, f) : f \in pending.fills}
  BY <1>1, <1>2, <1>5, <1>18, <1>19, <1>20, <1>23
<1> QED  BY <1>20, <1>21, <1>23, <1>24, <1>25, <1>26, <1>27 DEF Written

\* The constraints of the schema let through what the engine has done.
LEMMA TransactionWritten ==
    ASSUME IInv, Agreed, mode = "up", pending # NoTx
    PROVE  Outgoing(pending) # Refused /\ Written(Outgoing(pending))
<1>1. pending.kind \in {"place", "cancel"}
  BY DEF IInv, PendingInv
<1>2. CASE pending.kind = "cancel"
  <2>1. Outgoing(pending) = CancelTx(pending)
    BY <1>2 DEF Outgoing
  <2> QED  BY <1>2, <2>1, CancelWritten
<1>3. CASE pending.kind = "place"
  <2>1. Outgoing(pending) = PlaceTx(pending)
    BY <1>3 DEF Outgoing
  <2> QED  BY <1>3, <2>1, PlaceWritten
<1> QED  BY <1>1, <1>2, <1>3

\* Persist writes the transaction; nothing else changes.
LEMMA PersistWrites ==
    ASSUME IInv, RowsInv, Agreed, Persist
    PROVE  /\ Written(db') /\ mode = "up" /\ pending # NoTx /\ pending' = NoTx
           /\ handled' = handled + 1 /\ UNCHANGED <<topic, mode, bookVars, cacheVars>>
BY TransactionWritten DEF Persist

\* Writing the transaction in hand keeps memory and database in agreement.
LEMMA PersistAgrees == ASSUME IInv, RowsInv, Agreed, Persist PROVE Agreed'
<1>1. /\ mode = "up" /\ pending # NoTx /\ pending' = NoTx /\ handled' = handled + 1
      /\ UNCHANGED <<topic, mode, bookVars, cacheVars>>
  BY PersistWrites
<1>2. /\ TablesOK(db') /\ DOMAIN db'.orders = DOMAIN db.orders
      /\ \A x \in DOMAIN db.orders : db'.orders[x] = [db.orders[x] EXCEPT !.status = Told(x)]
      /\ \A u \in Users, a \in Assets :
           /\ db'.available[u][a] = db.available[u][a] + TxAvailable(u, a)
           /\ db'.locked[u][a] = db.locked[u][a] + TxLocked(u, a)
      /\ db'.trades = db.trades
           \cup {FillKey(pending.id, db.orders[pending.id].side, f) : f \in pending.fills}
  BY PersistWrites DEF Written
<1>3. \A x \in DOMAIN db.orders :
        /\ db'.orders[x].status = Told(x)
        /\ db'.orders[x].user = db.orders[x].user /\ db'.orders[x].side = db.orders[x].side
        /\ db'.orders[x].price = db.orders[x].price /\ db'.orders[x].qty = db.orders[x].qty
  <2> TAKE x \in DOMAIN db.orders
  <2>1. db.orders[x] \in Row /\ db'.orders[x] = [db.orders[x] EXCEPT !.status = Told(x)]
    BY <1>2 DEF IInv, DbInv, TablesOK
  <2> QED  BY <2>1, OnlyStatus
<1>4. Waiting' = Waiting
  <2>1. Unread' = Unread
    BY <1>1, UnreadOK DEF Unread
  <2> QED  BY <1>1, <2>1 DEF Waiting
<1>5. \A u, a : Underway(u, a)' = Underway(u, a)
  <2> TAKE u, a
  <2>1. /\ topic \in Seq(Messages) /\ handled \in Nat /\ handled < Len(topic)
        /\ topic[handled + 1].type # "DepositCreated"
    BY <1>1, UnreadOK DEF IInv, PendingInv, RowsInv, HandInv
  <2>2. Came(topic, handled, u, a) = Came(topic, handled + 1, u, a) + Amount(topic[handled + 1], u, a)
    BY <2>1, CameHandled
  <2>3. Amount(topic[handled + 1], u, a) = 0 /\ Came(topic, handled + 1, u, a) \in Nat
    BY <2>1, CameType DEF Amount
  <2> QED  BY <1>1, <2>2, <2>3, UnderwayIsCame
<1>6. pending.id \in DOMAIN db.orders /\ \A f \in pending.fills : f.maker \in DOMAIN db.orders
  BY <1>1 DEF IInv, PendingInv, Agreed, TxInv, FillsReady
<1>7. WaitingInv'
  <2>1. ASSUME NEW f \in pending.fills, NEW k,
               k = FillKey(pending.id, db.orders[pending.id].side, f)
        PROVE  /\ k.buyer \in DOMAIN db.orders /\ k.seller \in DOMAIN db.orders
               /\ k.buyer \in {pending.id, f.maker} /\ k.seller \in {pending.id, f.maker}
    BY <1>6, <2>1 DEF FillKey
  <2>2. \A k \in db'.trades : k.buyer \in DOMAIN db'.orders /\ k.seller \in DOMAIN db'.orders
    BY <1>2, <2>1 DEF Agreed, WaitingInv
  <2>3. ASSUME NEW x \in Waiting
        PROVE  /\ db'.orders[x].status = "NEW" /\ x \notin DOMAIN orders
               /\ \A k \in db'.trades : k.buyer # x /\ k.seller # x
    <3>1. /\ db.orders[x].status = "NEW" /\ x \notin DOMAIN orders
          /\ \A k \in db.trades : k.buyer # x /\ k.seller # x
          /\ x # pending.id /\ x \notin Makers(pending)
      BY <1>1 DEF Agreed, WaitingInv
    <3>2. \A f \in pending.fills : f.maker # x
      BY <3>1 DEF Makers
    <3>3. \A k \in db'.trades : k.buyer # x /\ k.seller # x
      BY <1>2, <2>1, <3>1, <3>2
    <3>4. Told(x) = "NEW" /\ x \in DOMAIN db.orders
      BY <3>1, UnreadOK DEF Told
    <3> QED  BY <1>3, <3>1, <3>3, <3>4
  <2> QED  BY <1>1, <1>4, <2>2, <2>3 DEF WaitingInv, bookVars
<1>8. RestingInv'
  BY <1>1, <1>2, <1>3 DEF Agreed, RestingInv, bookVars
<1>9. StatusInv'
  <2>1. \A x \in DOMAIN db.orders : Told(x)' = Told(x)
    BY <1>1, <1>3 DEF Told
  <2>2. DOMAIN orders \subseteq DOMAIN db.orders
    BY DEF IInv, MemoryInv, Agreed, RestingInv
  <2> QED  BY <1>1, <1>2, <2>1, <2>2 DEF Agreed, StatusInv, bookVars
<1>10. TxInv'
  BY <1>1 DEF TxInv
<1>11. FundsInv'
  <2>1. \A u, a : TxLocked(u, a)' = 0 /\ TxAvailable(u, a)' = 0
    BY <1>1 DEF TxLocked, TxAvailable
  <2>2. ASSUME NEW u \in Users, NEW a \in Assets
        PROVE  /\ locked[u][a] >= Owes(book, u, a) /\ locked[u][a] = db'.locked[u][a] + 0
               /\ available[u][a] + Underway(u, a) = db'.available[u][a] + 0
    <3>1. /\ locked[u][a] >= Owes(book, u, a)
          /\ locked[u][a] = db'.locked[u][a]
          /\ available[u][a] + Underway(u, a) = db'.available[u][a]
      BY <1>1, <1>2 DEF Agreed, FundsInv
    <3>2. db'.available[u][a] \in Nat /\ db'.locked[u][a] \in Nat
      BY <1>2 DEF TablesOK, Balances
    <3> QED  BY <3>1, <3>2
  <2> QED  BY <1>1, <1>5, <2>1, <2>2 DEF FundsInv, bookVars, cacheVars
<1> QED  BY <1>1, <1>7, <1>8, <1>9, <1>10, <1>11 DEF Agreed

-----------------------------------------------------------------------------
(* Memory and database agree as long as no fault strikes at a bad moment.  *)

\* Nothing is known of a process that has not started yet but its money.
LEMMA AgreeInit == Init => AgreeInv
<1> SUFFICES ASSUME Init PROVE AgreeInv
  OBVIOUS
<1> USE DEF Init
<1>1. /\ DOMAIN db.orders = {} /\ db.trades = {} /\ topic = <<>> /\ pending = NoTx
      /\ mode = "down" /\ DOMAIN book = {} /\ DOMAIN orders = {} /\ Len(topic) = 0
      /\ db.locked = Zeros
  OBVIOUS
<1>2. RowsInv
  <2>1. Cardinality(DOMAIN db.orders) = 0
    BY <1>1, FS_EmptySet
  <2>2. 1 .. 0 = {}
    OBVIOUS
  <2> QED  BY <1>1, <2>1, <2>2 DEF RowsInv, HandInv
<1>3. Waiting = {}
  BY <1>1, ExchangeInit, UnreadOK
<1>4. Active = {}
  BY <1>1 DEF Active, ListActiveOrders
<1>5. ASSUME NEW u \in Users, NEW a \in Assets PROVE db.locked[u][a] >= OwesInDB(u, a)
  <2>1. OwesInDB(u, a) = 0
    BY <1>4, NoneIsZero DEF OwesInDB
  <2>2. db.locked[u][a] = 0
    BY <1>1 DEF Zeros
  <2> QED  BY <2>1, <2>2
<1>6. WaitingInv
  BY <1>1, <1>3 DEF WaitingInv
<1>7. RestingInv /\ StatusInv /\ TxInv
  BY <1>1 DEF RestingInv, StatusInv, TxInv
<1>8. FundsInv
  BY <1>1, <1>5 DEF FundsInv
<1> QED  BY <1>1, <1>2, <1>6, <1>7, <1>8 DEF AgreeInv, Agreed, PlacedOnce

\* Once a fault has struck at a bad moment nothing is claimed any more.
LEMMA AgreeStep == ASSUME IInv, SentInv, AgreeInv, [Next]_vars PROVE AgreeInv'
<1>1. CASE Next
  <2>1. RowsInv'
    BY <1>1, RowsStep DEF AgreeInv
  <2> SUFFICES ASSUME clean' PROVE PlacedOnce(topic') /\ Agreed'
    BY <2>1 DEF AgreeInv
  <2>2. clean /\ RowsInv
    BY <1>1, CleanBefore DEF AgreeInv
  <2>3. Agreed /\ PlacedOnce(topic)
    BY <2>2 DEF AgreeInv
  <2>7. PlacedOnce(topic')
    BY <1>1, <2>2, <2>3, OnceStep
  <2>4. CASE Hydrate
    <3>1. \A i \in handled + 1 .. Len(topic) : topic[i].type # "DepositCreated"
      BY <2>4 DEF Hydrate
    <3> QED  BY <2>2, <2>3, <2>4, <2>7, <3>1, HydrateAgrees
  <2>5. CASE Crash
    <3>1. ~Settling /\ \A n \in DOMAIN book : book[n].rem = book[n].qty
      BY <2>5 DEF Crash
    <3> QED  BY <2>2, <2>3, <2>5, <2>7, <3>1, CrashAgrees
  <2>6. ~LoseTx
    BY DEF LoseTx
  <2> QED
    BY <1>1, <2>2, <2>3, <2>4, <2>5, <2>6, <2>7, RedeliverAgrees, RejoinAgrees, OvertakeAgrees,
       SubmitOrderAgrees, RequestCancelAgrees,
       SubmitDepositAgrees, HandleDepositAgrees, RejectOrderAgrees, AcceptOrderAgrees,
       HandleCancelAgrees, PersistAgrees, CommitOffsetAgrees, RebuildAgrees, HydrateFailsAgrees
       DEF Next
<1>2. CASE UNCHANGED vars
  <2>1. UNCHANGED <<db, topic, handled, mode, book, node, orders, available, locked, pending, clean>>
    BY <1>2 DEF vars, topicVars, bookVars, cacheVars, history
  <2>2. SameTables /\ UNCHANGED <<mode, bookVars, pending>>
    BY <2>1 DEF SameTables, bookVars
  <2>3. RowsInv => RowsInv'
    BY <2>1 DEF RowsInv, HandInv
  <2>4. ASSUME Agreed PROVE Agreed'
    <3>1. RestingInv' /\ StatusInv' /\ TxInv'
          /\ \A u, a : TxLocked(u, a)' = TxLocked(u, a) /\ TxAvailable(u, a)' = TxAvailable(u, a)
      BY <2>2, <2>4, SameBook DEF Agreed
    <3>2. WaitingInv'
      <4>1. Waiting' \subseteq Waiting
        BY <2>1 DEF Waiting, Unread
      <4> QED  BY <2>1, <2>2, <2>4, <4>1, WaitingShrinks DEF Agreed
    <3>3. \A u, a : Underway(u, a)' = Underway(u, a)
      BY <2>1, UnderwayIsCame
    <3>4. FundsInv'
      BY <2>1, <2>2, <2>4, <3>1, <3>3, SameOrders DEF Agreed, FundsInv
    <3> QED  BY <2>1, <2>4, <3>1, <3>2, <3>4 DEF Agreed
  <2> QED  BY <2>1, <2>3, <2>4 DEF AgreeInv
<1> QED  BY <1>1, <1>2

\* In every reachable state the rows are numbered, and while no fault has
\* struck at a bad moment and no order or deposit has been sent twice, what
\* rests, waits and is locked in memory is what
\* the database has, or will have once the transaction in hand is written.
THEOREM MemoryAndDatabaseAgree == Spec => []AgreeInv
<1>1. IInv /\ SentInv /\ AgreeInv /\ [Next]_vars => AgreeInv'
  BY AgreeStep
<1> QED  BY AgreeInit, ExchangeInvariant, <1>1, PTL DEF Spec

\* Between two messages the BalanceCache is the balances table less the
\* deposits under way (worker.go and the repositories move the same amounts),
\* also after a restart that came at a quiet moment.
THEOREM CacheAlwaysMatchesDatabase == Spec => []CacheMatchesDatabase
<1>1. IInv /\ AgreeInv => CacheMatchesDatabase
  <2> SUFFICES ASSUME IInv, AgreeInv, Quiet, clean, NEW u \in Users, NEW a \in Assets
               PROVE  /\ locked[u][a] = db.locked[u][a]
                      /\ available[u][a] + Underway(u, a) = db.available[u][a]
    BY DEF CacheMatchesDatabase
  <2>1. /\ locked[u][a] = db.locked[u][a] + TxLocked(u, a)
        /\ available[u][a] + Underway(u, a) = db.available[u][a] + TxAvailable(u, a)
        /\ TxLocked(u, a) = 0 /\ TxAvailable(u, a) = 0
    BY DEF AgreeInv, Agreed, FundsInv, Quiet, TxLocked, TxAvailable
  <2>2. db.locked[u][a] \in Nat /\ db.available[u][a] \in Nat
    BY DEF IInv, DbInv, TablesOK, Balances
  <2> QED  BY <2>1, <2>2
<1> QED  BY <1>1, ExchangeInvariant, MemoryAndDatabaseAgree, PTL

\* What the engine did in memory the database accepts: no constraint of the
\* schema refuses a transaction of handlePlaceOrder or handleCancelOrder, and
\* SettleTrade never finds too little locked.
THEOREM MemoryIsAlwaysAccepted == Spec => []MemoryIsAccepted
<1>1. IInv /\ AgreeInv => MemoryIsAccepted
  <2> SUFFICES ASSUME IInv, AgreeInv, clean
               PROVE  (pending # NoTx => Outgoing(pending) # Refused) /\ mode # "stuck"
    BY DEF MemoryIsAccepted
  <2>1. Agreed /\ (pending # NoTx => mode = "up")
    BY DEF AgreeInv, RowsInv, HandInv
  <2> QED  BY <2>1, TransactionWritten DEF Agreed
<1> QED  BY <1>1, ExchangeInvariant, MemoryAndDatabaseAgree, PTL

\* Between two messages the rows tell the book: an order shown as open rests
\* there, once; one shown as filled or cancelled does not.
THEOREM StatusesAlwaysTellTheBook == Spec => []StatusesTellTheBook
<1>1. IInv /\ AgreeInv => StatusesTellTheBook
  <2> SUFFICES ASSUME IInv, AgreeInv, Quiet, clean
               PROVE  /\ \A id \in Active : id \in DOMAIN orders
                      /\ \A id \in DOMAIN orders : db.orders[id].status \notin {"FILLED", "CANCELLED"}
                      /\ Range(orders) = DOMAIN book
                      /\ \A id \in DOMAIN orders : node[orders[id]] = id
    BY DEF StatusesTellTheBook
  <2>1. Agreed /\ pending = NoTx /\ mode = "up"
    BY DEF AgreeInv, Quiet
  <2>2. \A id : Told(id) = db.orders[id].status
    BY <2>1 DEF Told
  <2>3. /\ \A id \in Active : id \in DOMAIN orders
        /\ \A id \in DOMAIN orders : db.orders[id].status \notin {"FILLED", "CANCELLED"}
    BY <2>1, <2>2 DEF Agreed, StatusInv, Terminal, Active, ListActiveOrders
  <2>4. \A id \in DOMAIN orders : orders[id] \in DOMAIN book /\ node[orders[id]] = id
    BY DEF IInv, MemoryInv
  <2>5. \A n \in DOMAIN book : node[n] \in DOMAIN orders /\ orders[node[n]] = n
    BY <2>1 DEF Agreed, RestingInv
  <2>6. Range(orders) = DOMAIN book
    BY <2>4, <2>5 DEF Range
  <2> QED  BY <2>3, <2>4, <2>6
<1> QED  BY <1>1, ExchangeInvariant, MemoryAndDatabaseAgree, PTL

\* A row that is filled or cancelled is not written by any step.
LEMMA TerminalStays ==
    ASSUME IInv, AgreeInv, [Next]_vars, NEW id \in DOMAIN db.orders,
           clean, db.orders[id].status \in {"FILLED", "CANCELLED"}
    PROVE  db'.orders[id].status = db.orders[id].status
<1>1. Agreed /\ RowsInv
  BY DEF AgreeInv
<1>2. ASSUME NEW o \in Offers, SubmitOrder(o) PROVE db'.orders[id] = db.orders[id]
  BY <1>1, <1>2, CreatedRow
<1>3. ASSUME NEW d \in Deposits, SubmitDeposit(d) PROVE db'.orders = db.orders
  BY <1>3 DEF SubmitDeposit, UpsertBalance, IInv, DbInv, TablesOK
<1>4. CASE RejectOrder
  <2>1. PICK x : x = Command.id
    OBVIOUS
  <2>2. db' = UpdateOrderStatus(db, x, "REJECTED") /\ x \in Waiting /\ x \in DOMAIN db.orders
    <3>1. Fetched("OrderPlaced") /\ db' = UpdateOrderStatus(db, x, "REJECTED")
      BY <1>4, <2>1 DEF RejectOrder
    <3>2. /\ Command.type = "OrderPlaced" /\ pending = NoTx /\ x \in DOMAIN db.orders
          /\ Unread = handled + 1 /\ handled + 1 \in 1 .. Len(topic) /\ topic \in Seq(Messages)
      BY <2>1, <3>1, CommandOK, UnreadOK DEF Unread
    <3> QED  BY <2>1, <3>1, <3>2, PlacedTaken DEF Waiting, Command
  <2>3. x # id
    BY <1>1, <2>2 DEF Agreed, WaitingInv
  <2>4. db'.orders[id] = db.orders[id]
    <3>1. PICK d : d = db
      OBVIOUS
    <3>2. PICK e : e = db'
      OBVIOUS
    <3>3. PICK s : s = "REJECTED"
      OBVIOUS
    <3>4. TablesOK(d)
      BY <3>1 DEF IInv, DbInv
    <3>5. x \in DOMAIN d.orders
      BY <2>2, <3>1
    <3>6. e = UpdateOrderStatus(d, x, s)
      BY <2>2, <3>1, <3>2, <3>3
    <3>7. e.orders = [d.orders EXCEPT ![x].status = StatusInDB(s)]
      BY <3>4, <3>6 DEF UpdateOrderStatus, TablesOK
    <3>8. id \in DOMAIN d.orders /\ d.orders \in [DOMAIN d.orders -> Row]
      BY <3>1, <3>4 DEF TablesOK
    <3>9. e.orders[id] = d.orders[id]
      BY <2>3, <3>7, <3>8
    <3> QED  BY <3>1, <3>2, <3>9
  <2> QED  BY <2>4
<1>5. CASE Persist
  <2>1. Written(db') /\ pending # NoTx
    BY <1>1, <1>5, PersistWrites
  <2>2. id # pending.id /\ id \notin Makers(pending)
    <3>1. pending.kind \in {"place", "cancel"}
      BY <2>1 DEF IInv, PendingInv
    <3>2. db.orders[pending.id].status \notin {"FILLED", "CANCELLED"}
      BY <1>1, <2>1, <3>1 DEF Agreed, TxInv, PlaceReady, CancelReady, Terminal
    <3> QED  BY <1>1, <2>1, <3>2 DEF Agreed, TxInv, FillsReady, Makers, Terminal
  <2>3. Told(id) = db.orders[id].status
    BY <2>2 DEF Told
  <2>4. db.orders[id] \in Row /\ db'.orders[id] = [db.orders[id] EXCEPT !.status = Told(id)]
    BY <2>1 DEF Written, IInv, DbInv, TablesOK
  <2> QED  BY <2>3, <2>4, OnlyStatus
<1>6. CASE UNCHANGED db
  BY <1>6
<1>7. CASE Next
  BY <1>2, <1>3, <1>4, <1>5, <1>6, <1>7
     DEF Next, RequestCancel, HandleDeposit, AcceptOrder, HandleCancel, CancelMissing, CancelResting,
         CommitOffset, Rebuild, Hydrate, Crash, LoseTx, HydrateFails, Redeliver, Rejoin, Overtake
<1>8. CASE UNCHANGED vars
  BY <1>6, <1>8 DEF vars
<1> QED  BY <1>7, <1>8

\* While clean a filled or cancelled order stays so: no late placement or
\* rejection and no late or repeated cancellation writes over its status.
THEOREM TerminalIsAlwaysFinal == Spec => TerminalIsFinal
<1>1. IInv /\ AgreeInv /\ [Next]_vars =>
        [\A id \in DOMAIN db.orders :
            clean /\ db.orders[id].status \in {"FILLED", "CANCELLED"}
              => db'.orders[id].status = db.orders[id].status]_vars
  BY TerminalStays
<1> QED  BY <1>1, ExchangeInvariant, MemoryAndDatabaseAgree, PTL DEF Spec, TerminalIsFinal
=============================================================================
