--------------------------- MODULE LimitBookProofs ---------------------------
(***************************************************************************)
(* What TLAPS proves about LimitBook, for any traders, orders, prices and  *)
(* quantities: its types, and that the loop of matchInternal implements    *)
(* the closed form of PriceTime.                                           *)
(***************************************************************************)
EXTENDS LimitBook, SumTheorems, SequenceTheorems, WellFoundedInduction

-----------------------------------------------------------------------------
(* The closed form under one trade.  b is a book, t an order being placed. *)

BookOK(b) ==
    /\ IsFiniteSet(DOMAIN b)
    /\ b \in [DOMAIN b -> RestingOrder]
    /\ \A m, n \in DOMAIN b : b[m].seq = b[n].seq => m = n

\* What stands before m in the queue of t.
Queue(b, t, m) == {n \in Reachable(b, t) : Before(b, n, m)}

Remaining(b, S) == [n \in S |-> b[n].rem]

\* m is the first that t reaches.
IsFirst(b, t, m) ==
    /\ m \in Reachable(b, t)
    /\ \A n \in Reachable(b, t) \ {m} : Before(b, m, n)

\* The orders of a book in terms the solver can use.
LEMMA OrderTypes ==
    ASSUME NEW b, BookOK(b), NEW m \in DOMAIN b
    PROVE  /\ b[m] \in RestingOrder
           /\ b[m].rem \in Nat /\ b[m].rem > 0 /\ b[m].seq \in Nat
           /\ b[m].price \in Int /\ b[m].price > 0
           /\ b[m].side \in {"BUY", "SELL"}
<1>1. b[m] \in RestingOrder
  BY DEF BookOK
<1>2. PICK r \in RestingOrder : r = b[m]
  BY <1>1
<1>3. /\ r.rem \in Nat /\ r.rem > 0 /\ r.seq \in Nat
      /\ r.price \in Prices /\ r.side \in {"BUY", "SELL"}
  BY DEF RestingOrder, Sides
<1>4. \A p \in Prices : p \in Int /\ p > 0
  BY PositiveAssumption
<1> QED
  BY <1>1, <1>2, <1>3, <1>4

\* What t can reach is on the other side of the book.
LEMMA ReachableTypes ==
    ASSUME NEW b, BookOK(b), NEW t \in Taker
    PROVE  /\ Reachable(b, t) \in SUBSET DOMAIN b /\ IsFiniteSet(Reachable(b, t))
           /\ \A m, n \in Reachable(b, t) : b[m].side = b[n].side
<1>1. Reachable(b, t) \in SUBSET DOMAIN b
  BY DEF Reachable, Facing
<1>2. IsFiniteSet(Reachable(b, t))
  BY <1>1, FS_Subset DEF BookOK
<1>3. \A m \in Reachable(b, t) : b[m].side # t.side /\ b[m].side \in {"BUY", "SELL"}
  BY <1>1, OrderTypes DEF Reachable, Facing
<1>4. t.side \in {"BUY", "SELL"}
  BY DEF Taker, Sides
<1>5. \A m, n \in Reachable(b, t) : b[m].side = b[n].side
  BY <1>3, <1>4
<1> QED
  BY <1>1, <1>2, <1>5

\* The quantities of some orders of the book can be added up.
LEMMA RemainingType ==
    ASSUME NEW b, BookOK(b), NEW S, S \subseteq DOMAIN b
    PROVE  IsFiniteSet(S) /\ Remaining(b, S) \in [S -> Nat] /\ Sum(Remaining(b, S)) \in Nat
<1>1. IsFiniteSet(S)
  BY FS_Subset DEF BookOK
<1>2. \A n \in S : b[n].rem \in Nat
  BY OrderTypes
<1>3. Remaining(b, S) \in [S -> Nat]
  BY <1>2 DEF Remaining
<1> QED
  BY <1>1, <1>3, SumType

\* What is served before m, and what is consumed of it.
LEMMA ConsumedType ==
    ASSUME NEW b, BookOK(b), NEW t \in Taker, NEW m
    PROVE  /\ Queue(b, t, m) \subseteq DOMAIN b
           /\ ServedBefore(b, t, m) = Sum(Remaining(b, Queue(b, t, m)))
           /\ ServedBefore(b, t, m) \in Nat
           /\ Consumed(b, t, m) \in Nat
           /\ m \notin Reachable(b, t) => Consumed(b, t, m) = 0
           /\ t.rem = 0 => Consumed(b, t, m) = 0
           /\ m \in Reachable(b, t) => Consumed(b, t, m) <= b[m].rem
<1>1. Queue(b, t, m) \subseteq DOMAIN b
  BY ReachableTypes DEF Queue
<1>2. ServedBefore(b, t, m) = Sum(Remaining(b, Queue(b, t, m)))
  BY DEF ServedBefore, Queue, Remaining
<1>3. ServedBefore(b, t, m) \in Nat
  BY <1>1, <1>2, RemainingType
<1>4. t.rem \in Nat
  BY DEF Taker
<1>5. CASE m \in Reachable(b, t)
  <2>1. b[m].rem \in Nat
    BY <1>5, ReachableTypes, OrderTypes
  <2> QED
    BY <1>1, <1>2, <1>3, <1>4, <1>5, <2>1 DEF Consumed, Lesser
<1>6. CASE m \notin Reachable(b, t)
  BY <1>1, <1>2, <1>3, <1>6 DEF Consumed
<1> QED
  BY <1>5, <1>6

\* An order that is filled, or can reach nobody, consumes nothing: it rests
\* with what it has, unless that is nothing.
LEMMA NothingConsumed ==
    ASSUME NEW b, BookOK(b), NEW t \in Taker, t.rem = 0 \/ Reachable(b, t) = {}
    PROVE  Outcome(b, t) = IF t.rem = 0 THEN b ELSE Bind(b, t.id, AsResting(t, t.rem))
<1>1. \A m : Consumed(b, t, m) = 0
  BY ConsumedType
<1>2. \A m \in DOMAIN b : b[m] \in RestingOrder /\ b[m].rem \in Nat /\ b[m].rem > 0
  BY OrderTypes
<1>3. {m \in DOMAIN b : Consumed(b, t, m) < b[m].rem} = DOMAIN b
  BY <1>1, <1>2
<1>4. \A m \in DOMAIN b : [b[m] EXCEPT !.rem = @ - Consumed(b, t, m)] = b[m]
  <2> TAKE m \in DOMAIN b
  <2>1. PICK r \in RestingOrder : r = b[m]
    BY <1>2
  <2>2. r.rem - 0 = r.rem
    BY <1>2, <2>1
  <2>3. [r EXCEPT !.rem = r.rem] = r
    BY DEF RestingOrder
  <2> QED
    BY <1>1, <2>1, <2>2, <2>3
<1>5. [m \in DOMAIN b |-> [b[m] EXCEPT !.rem = @ - Consumed(b, t, m)]] = b
  BY <1>4 DEF BookOK
<1>6. Sum([m \in Reachable(b, t) |-> Consumed(b, t, m)]) = 0
  <2>1. [m \in Reachable(b, t) |-> Consumed(b, t, m)] \in [Reachable(b, t) -> {0}]
    BY <1>1
  <2> QED
    BY <2>1, SumZero
<1>7. Leftover(b, t) = t.rem
  BY <1>6 DEF Leftover, Taker
<1> QED
  BY <1>3, <1>5, <1>7 DEF Outcome

-----------------------------------------------------------------------------
(* One trade with the first order that t reaches *)

\* The book b after a trade of quantity q with m.
Traded(b, m, q) ==
    IF b[m].rem = q THEN Unbind(b, m) ELSE [b EXCEPT ![m].rem = @ - q]

\* Before orders what t can reach.
LEMMA BeforeOrders ==
    ASSUME NEW b, BookOK(b), NEW m \in DOMAIN b, NEW n \in DOMAIN b, b[m].side = b[n].side
    PROVE  ~(Before(b, m, n) /\ Before(b, n, m))
<1>1. PICK x \in RestingOrder : x = b[m]
  BY OrderTypes
<1>2. PICK y \in RestingOrder : y = b[n]
  BY OrderTypes
<1>3. /\ x.price \in Int /\ y.price \in Int /\ x.seq \in Nat /\ y.seq \in Nat
      /\ x.side = y.side
  BY <1>1, <1>2, OrderTypes
<1> QED
  BY <1>1, <1>2, <1>3 DEF Before, Better

\* c is the book b, but for q units of m.
OnlyLess(c, b, m, q) ==
    /\ DOMAIN c = IF b[m].rem = q THEN DOMAIN b \ {m} ELSE DOMAIN b
    /\ \A n \in DOMAIN c : n # m => c[n] = b[n]
    /\ m \in DOMAIN c => c[m] = [b[m] EXCEPT !.rem = @ - q]

\* A trade changes one order only.
LEMMA TradedBook ==
    ASSUME NEW b, BookOK(b), NEW m \in DOMAIN b, NEW q \in Nat \ {0}, q <= b[m].rem,
           NEW c, c = Traded(b, m, q)
    PROVE  BookOK(c) /\ OnlyLess(c, b, m, q)
<1>1. PICK r \in RestingOrder : r = b[m]
  BY OrderTypes
<1>2. r.rem \in Nat
  BY DEF RestingOrder
<1>3. CASE r.rem = q
  <2>1. c = [n \in DOMAIN b \ {m} |-> b[n]]
    BY <1>1, <1>3 DEF Traded, Unbind, Restrict
  <2>2. IsFiniteSet(DOMAIN b \ {m})
    BY FS_RemoveElement DEF BookOK
  <2> QED
    BY <1>1, <1>3, <2>1, <2>2 DEF BookOK, OnlyLess
<1>4. CASE r.rem # q
  <2>1. PICK s : s = [r EXCEPT !.rem = @ - q]
    OBVIOUS
  <2>2. r.rem - q \in Nat \ {0}
    BY <1>1, <1>2, <1>4
  <2>3. s \in RestingOrder /\ s.seq = r.seq
    BY <2>1, <2>2 DEF RestingOrder
  <2>4. c = [b EXCEPT ![m] = s]
    BY <1>1, <1>4, <2>1 DEF Traded, BookOK
  <2>5. c \in [DOMAIN b -> RestingOrder] /\ c[m] = s /\ \A n \in DOMAIN b : n # m => c[n] = b[n]
    BY <2>3, <2>4 DEF BookOK
  <2>6. \A k, n \in DOMAIN b : c[k].seq = c[n].seq => k = n
    BY <1>1, <2>3, <2>5 DEF BookOK
  <2>7. DOMAIN c = DOMAIN b
    BY <2>5
  <2> QED
    BY <1>1, <1>4, <2>1, <2>5, <2>6, <2>7 DEF BookOK, OnlyLess
<1> QED
  BY <1>3, <1>4

\* Who is reached, and in which order, stays as it was but for m itself.
LEMMA TradedReach ==
    ASSUME NEW b, BookOK(b), NEW t \in Taker, NEW m \in Reachable(b, t),
           NEW q \in Nat \ {0}, q <= b[m].rem,
           NEW c, c = Traded(b, m, q),
           NEW u \in Taker, u = [t EXCEPT !.rem = @ - q]
    PROVE  /\ Reachable(c, u) = Reachable(b, t) \cap DOMAIN c
           /\ \A k \in DOMAIN c : Queue(c, u, k) = Queue(b, t, k) \cap DOMAIN c
<1>1. m \in DOMAIN b /\ b[m].user # t.user
  BY DEF Reachable, Facing
<1>2. /\ DOMAIN c \subseteq DOMAIN b
      /\ \A n \in DOMAIN b : n # m => n \in DOMAIN c
      /\ \A n \in DOMAIN c : n # m => c[n] = b[n]
      /\ m \in DOMAIN c => c[m] = [b[m] EXCEPT !.rem = @ - q]
  <2>1. OnlyLess(c, b, m, q)
    BY <1>1, TradedBook
  <2> QED
    BY <1>1, <2>1 DEF OnlyLess
<1>3. PICK r \in RestingOrder : r = b[m]
  BY <1>1, OrderTypes
<1>4. \A n \in DOMAIN c : /\ c[n].user = b[n].user /\ c[n].side = b[n].side
                          /\ c[n].price = b[n].price /\ c[n].seq = b[n].seq
  <2> TAKE n \in DOMAIN c
  <2>1. CASE n = m
    BY <1>2, <1>3, <2>1 DEF RestingOrder
  <2>2. CASE n # m
    BY <1>2, <2>2
  <2> QED
    BY <2>1, <2>2
<1>5. u.user = t.user /\ u.side = t.side /\ u.price = t.price
  BY DEF Taker
<1>6. \A k \in DOMAIN c : Shielded(c, u, k) <=> Shielded(b, t, k)
  BY <1>1, <1>2, <1>4, <1>5 DEF Shielded, Facing
<1>7. \A k \in DOMAIN c : k \in Reachable(c, u) <=> k \in Reachable(b, t)
  BY <1>2, <1>4, <1>5, <1>6 DEF Reachable, Facing
<1>8. Reachable(c, u) = Reachable(b, t) \cap DOMAIN c
  BY <1>7 DEF Reachable, Facing
<1>9. \A k, n \in DOMAIN c : Before(c, n, k) <=> Before(b, n, k)
  BY <1>4 DEF Before
<1>10. \A k \in DOMAIN c : Queue(c, u, k) = Queue(b, t, k) \cap DOMAIN c
  BY <1>8, <1>9 DEF Queue
<1> QED
  BY <1>8, <1>10

\* A trade with the first leaves to the others what they would have got.
LEMMA TradedConsumed ==
    ASSUME NEW b, BookOK(b), NEW t \in Taker, NEW m, IsFirst(b, t, m),
           NEW q \in Nat \ {0}, q = Lesser(t.rem, b[m].rem),
           NEW c, c = Traded(b, m, q),
           NEW u \in Taker, u = [t EXCEPT !.rem = @ - q]
    PROVE  /\ Consumed(b, t, m) = q
           /\ m \in DOMAIN c => Consumed(c, u, m) = 0
           /\ \A k \in DOMAIN b : k # m => Consumed(c, u, k) = Consumed(b, t, k)
<1>1. m \in Reachable(b, t) /\ m \in DOMAIN b
  BY DEF IsFirst, Reachable, Facing
<1>2. b[m].rem \in Nat /\ t.rem \in Nat /\ u.rem = t.rem - q
  BY <1>1, OrderTypes DEF Taker
<1>3. q <= b[m].rem /\ q <= t.rem /\ (q = t.rem \/ q = b[m].rem)
  BY <1>2 DEF Lesser
<1>4. /\ BookOK(c)
      /\ DOMAIN c = IF b[m].rem = q THEN DOMAIN b \ {m} ELSE DOMAIN b
      /\ \A n \in DOMAIN c : n # m => c[n] = b[n]
      /\ m \in DOMAIN c => c[m] = [b[m] EXCEPT !.rem = @ - q]
  <2>1. BookOK(c) /\ OnlyLess(c, b, m, q)
    BY <1>1, <1>3, TradedBook
  <2> QED
    BY <2>1 DEF OnlyLess
<1>5. /\ Reachable(c, u) = Reachable(b, t) \cap DOMAIN c
      /\ \A k \in DOMAIN c : Queue(c, u, k) = Queue(b, t, k) \cap DOMAIN c
  BY <1>1, <1>3, TradedReach
<1>6. Consumed(b, t, m) = q
  <2>1. Queue(b, t, m) = {}
    <3>1. ASSUME NEW n \in Queue(b, t, m) PROVE FALSE
      <4>1. n \in Reachable(b, t) /\ n \in DOMAIN b /\ Before(b, n, m)
        BY <3>1, ReachableTypes DEF Queue
      <4>2. b[n].side = b[m].side
        BY <1>1, <4>1, ReachableTypes
      <4>3. Before(b, m, n)
        BY <4>1 DEF IsFirst
      <4> QED
        BY <1>1, <4>1, <4>2, <4>3, BeforeOrders
    <3> QED
      BY <3>1
  <2>2. Remaining(b, {}) \in [{} -> {0}]
    BY DEF Remaining
  <2>3. ServedBefore(b, t, m) = 0
    <3>1. ServedBefore(b, t, m) = Sum(Remaining(b, {}))
      BY <2>1, ConsumedType
    <3>2. Sum(Remaining(b, {})) = 0
      BY <2>2, SumZero
    <3> QED
      BY <3>1, <3>2
  <2>4. 0 < t.rem /\ t.rem - 0 = t.rem
    BY <1>2, <1>3
  <2>5. Consumed(b, t, m) = Lesser(b[m].rem, t.rem)
    BY <1>1, <2>3, <2>4 DEF Consumed
  <2> QED
    BY <1>2, <2>5 DEF Lesser
<1>7. m \in DOMAIN c => Consumed(c, u, m) = 0
  <2>1. SUFFICES ASSUME m \in DOMAIN c PROVE Consumed(c, u, m) = 0
    OBVIOUS
  <2>2. u.rem = 0
    BY <1>2, <1>3, <1>4, <2>1
  <2>3. BookOK(c)
    BY <1>4
  <2> QED
    BY <2>2, <2>3, ConsumedType
<1>8. ASSUME NEW k \in DOMAIN b, k # m PROVE Consumed(c, u, k) = Consumed(b, t, k)
  <2>1. k \in DOMAIN c /\ c[k] = b[k]
    BY <1>4, <1>8
  <2>2. CASE k \notin Reachable(b, t)
    <3>1. k \notin Reachable(c, u)
      BY <1>5, <2>2
    <3>2. Consumed(c, u, k) = 0
      BY <1>4, <3>1, ConsumedType
    <3> QED
      BY <2>2, <3>2, ConsumedType
  <2>3. CASE k \in Reachable(b, t)
    <3> DEFINE A == Queue(b, t, k)
               B == Queue(c, u, k)
               f == Remaining(b, A)
               g == Remaining(c, B)
    <3>1. m \in A
      BY <1>1, <1>8, <2>3 DEF Queue, IsFirst
    <3>2. /\ A \subseteq DOMAIN b /\ ServedBefore(b, t, k) = Sum(f)
          /\ ServedBefore(b, t, k) \in Nat
      BY ConsumedType
    <3>3. /\ B \subseteq DOMAIN c /\ ServedBefore(c, u, k) = Sum(g)
          /\ ServedBefore(c, u, k) \in Nat
      BY <1>4, ConsumedType
    <3>4. IsFiniteSet(A) /\ f \in [A -> Nat]
      BY <3>2, RemainingType
    <3>5. B = A \cap DOMAIN c
      BY <1>5, <2>1
    <3>6. IsFiniteSet(B) /\ g \in [B -> Nat]
      BY <1>4, <3>3, RemainingType
    <3>7. f[m] = b[m].rem
      BY <3>1 DEF Remaining
    <3>8. \A n \in B \ {m} : g[n] = f[n]
      BY <1>4, <3>2, <3>3, <3>5 DEF Remaining
    <3> HIDE DEF f, g, A, B
    <3>9. Sum(f) = Sum(g) + q
      <4>1. CASE b[m].rem = q
        <5>1. B = A \ {m}
          BY <1>4, <3>2, <3>5, <4>1
        <5>2. g = [n \in A \ {m} |-> f[n]]
          BY <3>6, <3>8, <5>1
        <5> QED
          BY <3>1, <3>4, <3>7, <4>1, <5>2, SumSplit
      <4>2. CASE b[m].rem # q
        <5>1. B = A /\ m \in DOMAIN c
          BY <1>1, <1>4, <3>2, <3>5, <4>2
        <5>2. g[m] = b[m].rem - q
          <6>1. PICK r \in RestingOrder : r = b[m]
            BY <1>1, OrderTypes
          <6>2. c[m].rem = r.rem - q
            BY <1>4, <5>1, <6>1 DEF RestingOrder
          <6> QED
            BY <3>1, <5>1, <6>1, <6>2 DEF g, Remaining
        <5>3. Sum(g) = Sum(f) - f[m] + g[m]
          BY <3>1, <3>4, <3>6, <3>8, <5>1, SumUpdate
        <5> QED
          BY <1>2, <3>2, <3>3, <3>7, <5>2, <5>3
      <4> QED
        BY <4>1, <4>2
    <3>10. ServedBefore(b, t, k) = ServedBefore(c, u, k) + q
      BY <3>2, <3>3, <3>9
    <3>11. k \in Reachable(c, u)
      BY <1>5, <2>1, <2>3
    <3>12. \/ ServedBefore(b, t, k) < t.rem /\ ServedBefore(c, u, k) < u.rem
           \/ ~(ServedBefore(b, t, k) < t.rem) /\ ~(ServedBefore(c, u, k) < u.rem)
      BY <1>2, <3>2, <3>3, <3>10
    <3>13. t.rem - ServedBefore(b, t, k) = u.rem - ServedBefore(c, u, k)
      BY <1>2, <3>2, <3>3, <3>10
    <3> QED
      BY <2>1, <2>3, <3>11, <3>12, <3>13 DEF Consumed
  <2> QED
    BY <2>2, <2>3
<1> QED
  BY <1>6, <1>7, <1>8

\* A trade with the first does not change where the placement ends.
LEMMA TradeKeepsOutcome ==
    ASSUME NEW b, BookOK(b), NEW t \in Taker, NEW m, IsFirst(b, t, m),
           NEW q \in Nat \ {0}, q = Lesser(t.rem, b[m].rem),
           NEW c, c = Traded(b, m, q),
           NEW u \in Taker, u = [t EXCEPT !.rem = @ - q]
    PROVE  Outcome(c, u) = Outcome(b, t)
<1>1. m \in Reachable(b, t) /\ m \in DOMAIN b
  BY DEF IsFirst, Reachable, Facing
<1>2. b[m].rem \in Nat /\ t.rem \in Nat /\ u.rem = t.rem - q /\ q <= b[m].rem
  BY <1>1, OrderTypes DEF Taker, Lesser
<1>3. /\ BookOK(c)
      /\ DOMAIN c = IF b[m].rem = q THEN DOMAIN b \ {m} ELSE DOMAIN b
      /\ \A n \in DOMAIN c : n # m => c[n] = b[n]
      /\ m \in DOMAIN c => c[m] = [b[m] EXCEPT !.rem = @ - q]
  <2>1. BookOK(c) /\ OnlyLess(c, b, m, q)
    BY <1>1, <1>2, TradedBook
  <2> QED
    BY <2>1 DEF OnlyLess
<1>4. Reachable(c, u) = Reachable(b, t) \cap DOMAIN c
  BY <1>1, <1>2, TradedReach
<1>5. /\ Consumed(b, t, m) = q
      /\ m \in DOMAIN c => Consumed(c, u, m) = 0
      /\ \A k \in DOMAIN b : k # m => Consumed(c, u, k) = Consumed(b, t, k)
  BY TradedConsumed
<1>6. PICK r \in RestingOrder : r = b[m]
  BY <1>1, OrderTypes
<1>7. m \in DOMAIN c => c[m].rem = r.rem - q /\ c[m] = [r EXCEPT !.rem = r.rem - q]
  BY <1>3, <1>6 DEF RestingOrder
<1>8. {k \in DOMAIN c : Consumed(c, u, k) < c[k].rem} = {k \in DOMAIN b : Consumed(b, t, k) < b[k].rem}
  <2>1. m \in DOMAIN c <=> q < b[m].rem
    BY <1>1, <1>2, <1>3
  <2>2. m \in DOMAIN c => 0 < c[m].rem
    BY <1>2, <1>6, <1>7, <2>1
  <2>3. \A k : k # m => (k \in DOMAIN c <=> k \in DOMAIN b)
    BY <1>3
  <2> QED
    BY <1>1, <1>3, <1>5, <2>1, <2>2, <2>3
<1>9. ASSUME NEW k \in DOMAIN c
      PROVE  [c[k] EXCEPT !.rem = @ - Consumed(c, u, k)] = [b[k] EXCEPT !.rem = @ - Consumed(b, t, k)]
  <2>1. CASE k = m
    <3>1. PICK s : s = [r EXCEPT !.rem = r.rem - q]
      OBVIOUS
    <3>2. c[m] = s /\ s.rem - 0 = r.rem - q
      BY <1>2, <1>6, <1>7, <1>9, <2>1, <3>1 DEF RestingOrder
    <3>3. [s EXCEPT !.rem = r.rem - q] = s
      BY <3>1 DEF RestingOrder
    <3> QED
      BY <1>5, <1>6, <1>9, <2>1, <3>1, <3>2, <3>3
  <2>2. CASE k # m
    BY <1>3, <1>5, <1>9, <2>2
  <2> QED
    BY <2>1, <2>2
<1>10. Leftover(c, u) = Leftover(b, t)
  <2> DEFINE R == Reachable(b, t)
             S == Reachable(c, u)
             f == [k \in R |-> Consumed(b, t, k)]
             g == [k \in S |-> Consumed(c, u, k)]
  <2>1. IsFiniteSet(R) /\ IsFiniteSet(S) /\ R \subseteq DOMAIN b /\ S \subseteq DOMAIN c
    BY <1>3, ReachableTypes
  <2>2. f \in [R -> Nat] /\ g \in [S -> Nat]
    BY <1>3, ConsumedType
  <2>3. f[m] = q /\ m \in R
    BY <1>1, <1>5
  <2>4. \A k \in S \ {m} : g[k] = f[k]
    BY <1>4, <1>5, <2>1
  <2>5. m \in S => g[m] = 0
    BY <1>5, <2>1
  <2>6. S = R \cap DOMAIN c
    BY <1>4
  <2>7. Leftover(b, t) = t.rem - Sum(f) /\ Leftover(c, u) = u.rem - Sum(g)
    BY DEF Leftover
  <2> HIDE DEF f, g, R, S
  <2>8. Sum(f) \in Nat /\ Sum(g) \in Nat
    BY <2>1, <2>2, SumType
  <2>9. Sum(f) = Sum(g) + q
    <3>1. CASE m \notin DOMAIN c
      <4>1. S = R \ {m}
        BY <1>3, <2>1, <2>6, <3>1
      <4>2. g = [k \in R \ {m} |-> f[k]]
        BY <2>2, <2>4, <4>1
      <4> QED
        <5>1. Sum(f) = Sum([k \in R \ {m} |-> f[k]]) + f[m]
          BY <2>1, <2>2, <2>3, SumSplit
        <5> QED
          BY <2>3, <4>2, <5>1
    <3>2. CASE m \in DOMAIN c
      <4>1. S = R
        BY <1>3, <2>1, <2>6, <3>2
      <4>2. Sum(g) = Sum(f) - f[m] + g[m]
        BY <2>1, <2>2, <2>3, <2>4, <4>1, SumUpdate
      <4> QED
        BY <2>3, <2>5, <2>8, <4>1, <4>2
    <3> QED
      BY <3>1, <3>2
  <2> QED
    BY <1>2, <2>7, <2>8, <2>9
<1>11. u.id = t.id /\ \A x : AsResting(u, x) = AsResting(t, x)
  BY DEF Taker, AsResting
<1> DEFINE V == {k \in DOMAIN b : Consumed(b, t, k) < b[k].rem}
<1>12. [k \in {k \in DOMAIN c : Consumed(c, u, k) < c[k].rem} |->
            [c[k] EXCEPT !.rem = @ - Consumed(c, u, k)]]
       = [k \in V |-> [b[k] EXCEPT !.rem = @ - Consumed(b, t, k)]]
  BY <1>8, <1>9
<1> QED
  BY <1>10, <1>11, <1>12 DEF Outcome

-----------------------------------------------------------------------------
(* Types.  Arrival numbers follow the order in which ids are used: this    *)
(* makes them unique, and the taker the last in every queue.               *)

ArrivalsInOrder ==
    /\ \A id \in DOMAIN book : book[id].seq <= Cardinality(used)
    /\ \A m, n \in DOMAIN book : book[m].seq = book[n].seq => m = n
    /\ taker # NoOrder =>
         /\ open /\ taker.seq <= Cardinality(used)
         /\ \A id \in DOMAIN book : book[id].seq < taker.seq

BookInv ==
    /\ BookTypeOK /\ ArrivalsInOrder
    /\ book \in [DOMAIN book -> RestingOrder]

\* A book of a state is a book of the lemmas above.
LEMMA BookIsOK ==
    ASSUME BookInv
    PROVE  BookOK(book) /\ Cardinality(used) \in Nat /\ IsFiniteSet(used)
<1>1. used \subseteq OrderIds /\ DOMAIN book \subseteq used
  BY DEF BookInv, BookTypeOK
<1>2. IsFiniteSet(used) /\ IsFiniteSet(DOMAIN book)
  BY <1>1, FiniteAssumption, FS_Subset
<1> QED
  BY <1>2, FS_CardinalityType DEF BookInv, ArrivalsInOrder, BookOK

\* An id that is new counts one more.
LEMMA NewId ==
    ASSUME BookInv, NEW id \in OrderIds, id \notin used, used' = used \cup {id}
    PROVE  /\ Cardinality(used') = Cardinality(used) + 1
           /\ Cardinality(used) + 1 \in Nat \ {0}
           /\ used' \subseteq OrderIds
<1>1. IsFiniteSet(used) /\ Cardinality(used) \in Nat
  BY BookIsOK
<1>2. Cardinality(used \cup {id}) = Cardinality(used) + 1
  BY <1>1, FS_AddElement
<1> QED
  BY <1>1, <1>2 DEF BookInv, BookTypeOK

\* Quantities and prices as the types of records need them.
LEMMA Submitted ==
    ASSUME NEW q \in Quantities
    PROVE  q \in Nat /\ q \in Nat \ {0}
BY PositiveAssumption

LEMMA InitInv == InitBook => BookInv
<1> SUFFICES ASSUME InitBook PROVE BookInv
  OBVIOUS
<1>1. book = <<>> /\ used = {} /\ taker = NoOrder /\ trades = <<>> /\ open = FALSE
  BY DEF InitBook, EmptyBook
<1>2. DOMAIN book = {}
  BY <1>1
<1>3. book \in [DOMAIN book -> RestingOrder]
  BY <1>1, <1>2
<1>4. BookTypeOK
  <2>1. trades \in Seq(Trade) /\ open \in BOOLEAN
    <3>1. <<>> \in Seq(Trade)
      OBVIOUS
    <3> QED
      BY <1>1, <3>1
  <2> QED
    BY <1>1, <1>2, <2>1 DEF BookTypeOK
<1>5. ArrivalsInOrder
  BY <1>1, <1>2 DEF ArrivalsInOrder
<1> QED
  BY <1>3, <1>4, <1>5 DEF BookInv

\* RestoreOrder puts the order with the greatest arrival number on the book.
LEMMA RestoreInv ==
    ASSUME BookInv, NEW id \in OrderIds, NEW u \in Users, NEW s \in Sides,
           NEW p \in Prices, NEW q \in Quantities, RestoreOrder(id, u, s, p, q)
    PROVE  BookInv'
<1> DEFINE n == Cardinality(used) + 1
           r == [user |-> u, side |-> s, price |-> p, qty |-> q, rem |-> q, seq |-> n]
<1>1. Cardinality(used') = n /\ n \in Nat \ {0} /\ used' \subseteq OrderIds /\ Cardinality(used) \in Nat
  BY NewId, BookIsOK DEF RestoreOrder
<1>2. r \in RestingOrder /\ r.seq = n
  BY <1>1, Submitted DEF RestingOrder
<1>3. /\ book' = Bind(book, id, r) /\ taker' = taker /\ trades' = trades /\ open' = open
      /\ used' = used \cup {id} /\ id \notin used /\ ~open
  BY DEF RestoreOrder
<1> HIDE DEF n, r
<1>4. DOMAIN book' = DOMAIN book \cup {id} /\ id \notin DOMAIN book
  BY <1>3 DEF Bind, BookInv, BookTypeOK
<1>5. book'[id] = r /\ \A m \in DOMAIN book : book'[m] = book[m]
  BY <1>3, <1>4 DEF Bind
<1>6. book' \in [DOMAIN book' -> RestingOrder]
  BY <1>2, <1>3 DEF Bind, BookInv, BookTypeOK
<1>7. taker = NoOrder
  BY <1>3 DEF BookInv, ArrivalsInOrder
<1>8. \A m \in DOMAIN book : book[m].seq \in Nat /\ book[m].seq < n
  BY <1>1, BookIsOK, OrderTypes DEF BookInv, ArrivalsInOrder, n
<1>9. BookTypeOK'
  BY <1>1, <1>3, <1>4, <1>6, <1>7 DEF BookInv, BookTypeOK
<1>10. ArrivalsInOrder'
  BY <1>1, <1>2, <1>3, <1>4, <1>5, <1>7, <1>8 DEF BookInv, ArrivalsInOrder
<1> QED
  BY <1>6, <1>9, <1>10 DEF BookInv

\* BeginPlace gives the taker the greatest arrival number.
LEMMA BeginInv ==
    ASSUME BookInv, NEW id \in OrderIds, NEW u \in Users, NEW s \in Sides,
           NEW p \in Prices, NEW q \in Quantities, BeginPlace(id, u, s, p, q)
    PROVE  BookInv'
<1> DEFINE n == Cardinality(used) + 1
           t == [id |-> id, user |-> u, side |-> s, price |-> p, qty |-> q, rem |-> q, seq |-> n]
<1>1. Cardinality(used') = n /\ n \in Nat \ {0} /\ used' \subseteq OrderIds /\ Cardinality(used) \in Nat
  BY NewId, BookIsOK DEF BeginPlace
<1>2. t \in Taker /\ t.seq = n /\ t.id = id
  BY <1>1, Submitted DEF Taker
<1>3. /\ taker' = t /\ book' = book /\ trades' = <<>> /\ open' = open /\ open
      /\ used' = used \cup {id} /\ id \notin used
  BY DEF BeginPlace
<1> HIDE DEF n, t
<1>4. \A m \in DOMAIN book : book[m].seq \in Nat /\ book[m].seq < n
  BY <1>1, BookIsOK, OrderTypes DEF BookInv, ArrivalsInOrder, n
<1>5. BookTypeOK'
  BY <1>1, <1>2, <1>3 DEF BookInv, BookTypeOK
<1>6. ArrivalsInOrder'
  BY <1>1, <1>2, <1>3, <1>4 DEF BookInv, ArrivalsInOrder
<1> QED
  BY <1>3, <1>5, <1>6 DEF BookInv

\* What a trade is: the maker and its quantity, both as the closed form sees
\* them.
LEMMA MakerIsFirst ==
    ASSUME BookInv, NEW m \in DOMAIN book, MatchMaker(m), NEW q, q = Lesser(taker.rem, book[m].rem)
    PROVE  /\ taker \in Taker /\ taker' \in Taker
           /\ q \in Nat \ {0} /\ q <= book[m].rem
           /\ IsFirst(book, taker, m)
           /\ book' = Traded(book, m, q)
           /\ taker' = [taker EXCEPT !.rem = @ - q]
<1>1. taker \in Taker /\ taker.rem > 0 /\ BookOK(book)
  BY BookIsOK DEF MatchMaker, BookInv, BookTypeOK
<1>2. taker.rem \in Nat /\ book[m].rem \in Nat /\ book[m].rem > 0
  BY <1>1, OrderTypes DEF Taker
<1>3. q \in Nat \ {0} /\ q <= book[m].rem /\ taker.rem - q \in Nat
  BY <1>1, <1>2 DEF Lesser
<1>4. taker' = [taker EXCEPT !.rem = @ - q] /\ book' = Traded(book, m, q)
  BY DEF MatchMaker, Traded
<1>5. taker' \in Taker
  BY <1>1, <1>3, <1>4 DEF Taker
<1>6. m \in Eligible(taker) /\ \A n \in Eligible(taker) : book[m].seq <= book[n].seq
  BY DEF MatchMaker, IsNextMaker
<1>7. /\ book[m].side # taker.side /\ book[m].user # taker.user
      /\ Crosses(taker.side, taker.price, book[m].price)
      /\ \A n \in Opposite(taker) : ~Better(book[n].side, book[n].price, book[m].price)
  BY <1>6 DEF Eligible, AtBest, Opposite
<1>8. \A n \in Opposite(taker) : book[n].side = book[m].side
  BY <1>1, <1>7, OrderTypes DEF Taker, Sides, Opposite
<1>9. m \in Reachable(book, taker)
  BY <1>7, <1>8 DEF Reachable, Facing, Shielded, Opposite
<1>10. ASSUME NEW n \in Reachable(book, taker), n # m PROVE Before(book, m, n)
  <2>1. /\ n \in DOMAIN book /\ n \in Opposite(taker) /\ book[n].user # taker.user
        /\ Crosses(taker.side, taker.price, book[n].price)
    BY <1>10 DEF Reachable, Facing, Opposite
  <2>2. /\ book[n].price \in Int /\ book[m].price \in Int
        /\ book[n].seq \in Nat /\ book[m].seq \in Nat
        /\ book[n].side = book[m].side
    BY <1>1, <1>8, <2>1, OrderTypes
  <2>3. book[n].seq # book[m].seq
    BY <1>1, <1>10, <2>1 DEF BookOK
  <2>4. CASE book[n].price = book[m].price
    <3>1. \A k \in Opposite(taker) : ~Better(book[k].side, book[k].price, book[n].price)
      BY <1>7, <2>4
    <3>2. n \in Eligible(taker)
      BY <2>1, <3>1 DEF Eligible, AtBest
    <3>3. book[m].seq < book[n].seq
      BY <1>6, <2>2, <2>3, <3>2
    <3> QED
      BY <2>4, <3>3 DEF Before
  <2>5. CASE book[n].price # book[m].price
    <3>1. ~Better(book[n].side, book[n].price, book[m].price)
      BY <1>7, <2>1
    <3>2. Better(book[n].side, book[m].price, book[n].price)
      BY <2>2, <2>5, <3>1 DEF Better
    <3> QED
      BY <3>2 DEF Before
  <2> QED
    BY <2>4, <2>5
<1>11. IsFirst(book, taker, m)
  BY <1>9, <1>10 DEF IsFirst
<1> QED
  BY <1>1, <1>3, <1>4, <1>5, <1>11

\* A trade changes the maker and the quantity of the taker only.
LEMMA MatchInv ==
    ASSUME BookInv, NEW m \in DOMAIN book, MatchMaker(m)
    PROVE  BookInv'
<1> DEFINE q == Lesser(taker.rem, book[m].rem)
           tr == [side |-> taker.side, price |-> book[m].price, qty |-> q,
                  takerId |-> taker.id, makerId |-> m,
                  takerUser |-> taker.user, makerUser |-> book[m].user]
<1>1. /\ taker \in Taker /\ taker' \in Taker
      /\ q \in Nat \ {0} /\ q <= book[m].rem
      /\ book' = Traded(book, m, q)
      /\ taker' = [taker EXCEPT !.rem = @ - q]
  BY MakerIsFirst
<1>2. BookOK(book) /\ taker # NoOrder /\ UNCHANGED <<used, open>> /\ trades' = Append(trades, tr)
  BY BookIsOK DEF MatchMaker
<1>3. tr \in Trade
  <2>1. m \in OrderIds
    BY DEF BookInv, BookTypeOK
  <2>2. book[m].price \in Prices /\ book[m].user \in Users
    <3>1. PICK r \in RestingOrder : r = book[m]
      BY <1>2, OrderTypes
    <3> QED
      BY <3>1 DEF RestingOrder
  <2> QED
    BY <1>1, <2>1, <2>2 DEF Trade, Taker
<1> HIDE DEF q, tr
<1>4. /\ BookOK(book')
      /\ DOMAIN book' = IF book[m].rem = q THEN DOMAIN book \ {m} ELSE DOMAIN book
      /\ \A n \in DOMAIN book' : n # m => book'[n] = book[n]
      /\ m \in DOMAIN book' => book'[m] = [book[m] EXCEPT !.rem = @ - q]
  <2>1. BookOK(book') /\ OnlyLess(book', book, m, q)
    BY <1>1, <1>2, TradedBook
  <2> QED
    BY <2>1 DEF OnlyLess
<1>5. \A n \in DOMAIN book' : book'[n].seq = book[n].seq
  <2> TAKE n \in DOMAIN book'
  <2>1. CASE n # m
    BY <1>4, <2>1
  <2>2. CASE n = m
    <3>1. book'[m] = [book[m] EXCEPT !.rem = @ - q]
      BY <1>4, <2>2
    <3>2. PICK r \in RestingOrder : r = book[m]
      BY <1>2, OrderTypes
    <3> QED
      BY <2>2, <3>1, <3>2 DEF RestingOrder
  <2> QED
    BY <2>1, <2>2
<1>6. taker'.id = taker.id /\ taker'.seq = taker.seq /\ taker' # NoOrder
  BY <1>1, NoOrderAssumption DEF Taker
<1>7. trades' \in Seq(Trade)
  BY <1>2, <1>3, AppendProperties DEF BookInv, BookTypeOK
<1>8. BookTypeOK'
  BY <1>1, <1>2, <1>4, <1>6, <1>7 DEF BookInv, BookTypeOK, BookOK
<1>9. ArrivalsInOrder'
  BY <1>2, <1>4, <1>5, <1>6 DEF BookInv, ArrivalsInOrder, BookOK
<1> QED
  BY <1>4, <1>8, <1>9 DEF BookInv, BookOK

\* What is left of the taker rests last in its queue.
LEMMA EndInv ==
    ASSUME BookInv, EndPlace
    PROVE  BookInv'
<1> DEFINE r == AsResting(taker, taker.rem)
<1>1. taker \in Taker /\ taker # NoOrder /\ taker' = NoOrder /\ UNCHANGED <<used, trades, open>>
  BY DEF EndPlace, BookInv, BookTypeOK
<1>2. CASE taker.rem = 0
  <2>1. book' = book
    BY <1>2 DEF EndPlace
  <2> QED
    BY <1>1, <2>1 DEF BookInv, BookTypeOK, ArrivalsInOrder
<1>3. CASE taker.rem # 0
  <2>1. book' = Bind(book, taker.id, r)
    BY <1>3 DEF EndPlace
  <2>2. r \in RestingOrder /\ r.seq = taker.seq
    BY <1>1, <1>3 DEF AsResting, RestingOrder, Taker
  <2>3. taker.id \in used /\ taker.id \notin DOMAIN book
    BY <1>1 DEF BookInv, BookTypeOK
  <2> HIDE DEF r
  <2>4. DOMAIN book' = DOMAIN book \cup {taker.id}
    BY <2>1 DEF Bind
  <2>5. book'[taker.id] = r /\ \A m \in DOMAIN book : book'[m] = book[m]
    BY <2>1, <2>3 DEF Bind
  <2>6. book' \in [DOMAIN book' -> RestingOrder]
    BY <2>1, <2>2 DEF Bind, BookInv
  <2>7. \A m \in DOMAIN book : book[m].seq \in Nat /\ book[m].seq < taker.seq /\ taker.seq \in Nat
    BY <1>1, BookIsOK, OrderTypes DEF BookInv, ArrivalsInOrder, Taker
  <2>8. BookTypeOK'
    BY <1>1, <2>3, <2>4, <2>6 DEF BookInv, BookTypeOK
  <2>9. ArrivalsInOrder'
    BY <1>1, <2>2, <2>4, <2>5, <2>7 DEF BookInv, ArrivalsInOrder
  <2> QED
    BY <2>6, <2>8, <2>9 DEF BookInv
<1> QED
  BY <1>2, <1>3

LEMMA CancelInv ==
    ASSUME BookInv, NEW id \in DOMAIN book, CancelOrder(id)
    PROVE  BookInv'
<1>1. /\ book' = [n \in DOMAIN book \ {id} |-> book[n]]
      /\ taker = NoOrder /\ UNCHANGED <<used, taker, trades, open>>
  BY DEF CancelOrder, Unbind, Restrict
<1>2. DOMAIN book' = DOMAIN book \ {id} /\ \A n \in DOMAIN book' : book'[n] = book[n]
  BY <1>1
<1>3. book' \in [DOMAIN book' -> RestingOrder]
  BY <1>1 DEF BookInv
<1>4. BookTypeOK' /\ ArrivalsInOrder'
  BY <1>1, <1>2, <1>3 DEF BookInv, BookTypeOK, ArrivalsInOrder
<1> QED
  BY <1>3, <1>4 DEF BookInv

LEMMA StepInv == BookInv /\ [BookNext]_bookVars => BookInv'
<1> SUFFICES ASSUME BookInv, [BookNext]_bookVars PROVE BookInv'
  OBVIOUS
<1>1. ASSUME NEW id \in OrderIds, NEW u \in Users, NEW s \in Sides,
             NEW p \in Prices, NEW q \in Quantities,
             RestoreOrder(id, u, s, p, q) \/ BeginPlace(id, u, s, p, q)
      PROVE  BookInv'
  BY <1>1, RestoreInv, BeginInv
<1>2. CASE OpenMarket
  BY <1>2 DEF OpenMarket, BookInv, BookTypeOK, ArrivalsInOrder
<1>3. ASSUME NEW m \in DOMAIN book, MatchMaker(m) PROVE BookInv'
  BY <1>3, MatchInv
<1>4. CASE EndPlace
  BY <1>4, EndInv
<1>5. ASSUME NEW id \in DOMAIN book, CancelOrder(id) PROVE BookInv'
  BY <1>5, CancelInv
<1>6. CASE UNCHANGED bookVars
  BY <1>6 DEF bookVars, BookInv, BookTypeOK, ArrivalsInOrder
<1> QED
  BY <1>1, <1>2, <1>3, <1>4, <1>5, <1>6 DEF BookNext

\* The book holds well-formed orders of ids that were submitted, never the
\* one being placed, and every trade names what it moved.
THEOREM BookTypeCorrect == BookSpec => []BookTypeOK
<1>1. BookInv => BookTypeOK
  BY DEF BookInv
<1> QED
  BY <1>1, InitInv, StepInv, PTL DEF BookSpec

-----------------------------------------------------------------------------
(* The loop implements the closed form *)

\* PriceTime takes Matching for itself: its operators are those of this module.
LEMMA SameOutcome ==
    ASSUME NEW b, NEW t
    PROVE  PT!Outcome(b, t) = Outcome(b, t)
BY DEF PT!Outcome, Outcome, PT!Consumed, Consumed, PT!Leftover, Leftover,
       PT!ServedBefore, ServedBefore, PT!Sum, Sum, PT!Units, Units,
       PT!Reachable, Reachable, PT!Before, Before, PT!Facing, Facing,
       PT!Shielded, Shielded, PT!Better, Better, PT!Crosses, Crosses,
       PT!AsResting, AsResting, PT!Bind, Bind, PT!Lesser, Lesser,
       PT!Cardinality, Cardinality

LEMMA SameTables ==
    ASSUME NEW b, NEW k, NEW v
    PROVE  /\ PT!Unbind(b, k) = Unbind(b, k) /\ PT!Bind(b, k, v) = Bind(b, k, v)
           /\ PT!Cardinality(b) = Cardinality(b)
BY DEF PT!Unbind, Unbind, PT!Restrict, Restrict, PT!Bind, Bind, PT!Cardinality, Cardinality

\* One trade does not change where the placement ends.
LEMMA MatchStutters ==
    ASSUME BookInv, NEW m \in DOMAIN book, MatchMaker(m)
    PROVE  SettledBook' = SettledBook
<1>1. PICK q : q = Lesser(taker.rem, book[m].rem)
  OBVIOUS
<1>2. /\ taker \in Taker /\ taker' \in Taker
      /\ q \in Nat \ {0}
      /\ IsFirst(book, taker, m)
      /\ book' = Traded(book, m, q)
      /\ taker' = [taker EXCEPT !.rem = @ - q]
  BY <1>1, MakerIsFirst
<1>3. BookOK(book)
  BY BookIsOK
<1>4. Outcome(book', taker') = Outcome(book, taker)
  BY <1>1, <1>2, <1>3, TradeKeepsOutcome
<1> QED
  BY <1>2, <1>4, NoOrderAssumption DEF SettledBook

\* Some order of a side has the best price of it.
LEMMA BestExists ==
    ASSUME BookInv, taker \in Taker, NEW n \in Opposite(taker)
    PROVE  \E m \in AtBest(taker) : \A k \in Opposite(taker) : book[k].side = book[m].side
<1> DEFINE O == Opposite(taker)
           f == [k \in O |-> book[k].price]
           bid == taker.side = "SELL"
           d == [k \in O |-> IF bid THEN Sum(f) - f[k] ELSE f[k]]
           D == {d[k] : k \in O}
<1>1. BookOK(book) /\ IsFiniteSet(O) /\ O \subseteq DOMAIN book
  BY BookIsOK, FS_Subset DEF BookOK, Opposite
<1>2. \A k \in O : /\ f[k] \in Nat
                   /\ book[k].side = (IF bid THEN "BUY" ELSE "SELL")
  BY <1>1, OrderTypes DEF Opposite, Taker, Sides
<1>3. f \in [O -> Nat]
  BY <1>2
<1>4. Sum(f) \in Nat /\ \A k \in O : f[k] <= Sum(f)
  <2> HIDE DEF f, O
  <2> QED
    BY <1>1, <1>3, SumType, SumMember
<1>5. \A k \in O : d[k] \in Nat
  BY <1>2, <1>4
<1>6. D \subseteq Nat /\ d[n] \in D
  BY <1>5
<1>7. PICK x \in D : \A y \in D : ~(y < x)
  <2>1. PICK x \in D : \A y \in D : <<y, x>> \notin OpToRel(<, Nat)
    BY <1>6, WFMin, NatLessThanWellFounded
  <2> QED
    BY <1>6, <2>1 DEF OpToRel
<1>8. PICK m \in O : x = d[m]
  BY <1>7
<1>9. \A k \in O : ~Better(book[k].side, book[k].price, book[m].price)
  <2> TAKE k \in O
  <2>1. ~(d[k] < d[m])
    BY <1>7, <1>8
  <2>2. f[k] \in Nat /\ f[m] \in Nat /\ Sum(f) \in Nat
    BY <1>2, <1>4
  <2>3. /\ bid => ~(f[k] > f[m])
        /\ ~bid => ~(f[k] < f[m])
    BY <2>1, <2>2
  <2>4. book[k].side = (IF bid THEN "BUY" ELSE "SELL") /\ f[k] = book[k].price /\ f[m] = book[m].price
    BY <1>2
  <2> QED
    BY <2>3, <2>4 DEF Better
<1>10. m \in AtBest(taker)
  BY <1>8, <1>9 DEF AtBest
<1>11. \A k \in O : book[k].side = book[m].side
  BY <1>2, <1>8
<1> QED
  BY <1>10, <1>11

\* When nobody at the best level can trade, nobody behind it can.
LEMMA NobodyLeft ==
    ASSUME BookInv, taker \in Taker, Eligible(taker) = {}
    PROVE  Reachable(book, taker) = {}
<1>1. SUFFICES ASSUME NEW m \in Reachable(book, taker) PROVE FALSE
  OBVIOUS
<1>2. /\ m \in Opposite(taker) /\ m \in DOMAIN book
      /\ Crosses(taker.side, taker.price, book[m].price)
      /\ book[m].user # taker.user /\ ~Shielded(book, taker, m)
      /\ book[m].side # taker.side
  BY DEF Reachable, Facing, Opposite
<1>3. PICK n \in AtBest(taker) : \A k \in Opposite(taker) : book[k].side = book[n].side
  BY <1>2, BestExists
<1>4. /\ n \in DOMAIN book /\ n \in Opposite(taker) /\ book[n].side = book[m].side
      /\ \A k \in Opposite(taker) : ~Better(book[k].side, book[k].price, book[n].price)
  BY <1>2, <1>3 DEF AtBest, Opposite
<1>5. /\ book[m].price \in Int /\ book[n].price \in Int /\ book[m].side \in {"BUY", "SELL"}
      /\ taker.side \in {"BUY", "SELL"} /\ taker.price \in Int
  <2>1. \A p \in Prices : p \in Int
    BY PositiveAssumption
  <2> QED
    BY <1>2, <1>4, <2>1, BookIsOK, OrderTypes DEF Taker, Sides
<1>6. CASE book[n].price = book[m].price
  <2>1. m \in AtBest(taker)
    BY <1>2, <1>4, <1>6 DEF AtBest
  <2> QED
    BY <1>2, <2>1 DEF Eligible
<1>7. CASE book[n].price # book[m].price
  <2>1. ~Better(book[m].side, book[m].price, book[n].price)
    BY <1>2, <1>4
  <2>2. Better(book[m].side, book[n].price, book[m].price)
    BY <1>5, <1>7, <2>1 DEF Better
  <2>3. Crosses(taker.side, taker.price, book[n].price)
    BY <1>2, <1>5, <2>2 DEF Better, Crosses
  <2>4. book[n].user = taker.user
    BY <1>3, <2>3 DEF Eligible
  <2> QED
    BY <1>2, <1>4, <2>2, <2>4 DEF Shielded, Facing, Opposite
<1> QED
  BY <1>6, <1>7

\* The end of a placement leaves the book as it was to end.
LEMMA EndStutters ==
    ASSUME BookInv, EndPlace
    PROVE  SettledBook' = SettledBook
<1>1. taker \in Taker /\ taker # NoOrder /\ taker' = NoOrder /\ BookOK(book)
  BY BookIsOK DEF EndPlace, BookInv, BookTypeOK
<1>2. taker.rem = 0 \/ Reachable(book, taker) = {}
  BY <1>1, NobodyLeft DEF EndPlace
<1>3. Outcome(book, taker) = book'
  BY <1>1, <1>2, NothingConsumed DEF EndPlace
<1> QED
  BY <1>1, <1>3 DEF SettledBook

\* Every step of the loop is a step of PriceTime or none.
LEMMA StepRefines == BookInv /\ BookInv' /\ [BookNext]_bookVars => [PT!Next]_PT!vars
<1> SUFFICES ASSUME BookInv, BookInv', [BookNext]_bookVars PROVE [PT!Next]_PT!vars
  OBVIOUS
<1>1. ASSUME NEW id \in OrderIds, NEW u \in Users, NEW s \in Sides,
             NEW p \in Prices, NEW q \in Quantities, RestoreOrder(id, u, s, p, q)
      PROVE  PT!Next
  <2> DEFINE t == [id |-> id, user |-> u, side |-> s, price |-> p, qty |-> q, rem |-> q,
                   seq |-> Cardinality(used) + 1]
  <2>1. taker = NoOrder /\ taker' = NoOrder /\ ~open /\ id \in OrderIds \ used
    BY <1>1 DEF RestoreOrder, BookInv, ArrivalsInOrder
  <2>2. t = PT!Arriving(id, u, s, p, q)
    BY SameTables DEF PT!Arriving
  <2>3. SettledBook' = PT!Bind(SettledBook, id, PT!AsResting(t, q))
    BY <1>1, <2>1, SameTables DEF RestoreOrder, SettledBook, PT!AsResting
  <2>4. PT!RestoreOrder(id, u, s, p, q)
    BY <1>1, <2>1, <2>2, <2>3 DEF RestoreOrder, PT!RestoreOrder
  <2> QED
    BY <2>1, <2>4 DEF PT!Next, PT!Sides, Sides
<1>2. ASSUME NEW id \in OrderIds, NEW u \in Users, NEW s \in Sides,
             NEW p \in Prices, NEW q \in Quantities, BeginPlace(id, u, s, p, q)
      PROVE  PT!Next
  <2>1. taker = NoOrder /\ open /\ id \in OrderIds \ used /\ book' = book
    BY <1>2 DEF BeginPlace
  <2>2. taker' = PT!Arriving(id, u, s, p, q)
    BY <1>2, SameTables DEF BeginPlace, PT!Arriving
  <2>3. taker' # NoOrder
    <3>1. Cardinality(used) + 1 \in Nat \ {0}
      BY <1>2, NewId DEF BeginPlace
    <3>2. taker' \in Taker
      BY <1>2, <3>1, Submitted DEF BeginPlace, Taker
    <3> QED
      BY <3>2, NoOrderAssumption
  <2>4. SettledBook' = PT!Outcome(SettledBook, PT!Arriving(id, u, s, p, q))
    BY <2>1, <2>2, <2>3, SameOutcome DEF SettledBook
  <2>5. PT!PlaceOrder(id, u, s, p, q)
    BY <1>2, <2>1, <2>4 DEF BeginPlace, PT!PlaceOrder
  <2> QED
    BY <2>1, <2>5 DEF PT!Next, PT!Sides, Sides
<1>3. CASE OpenMarket
  BY <1>3 DEF OpenMarket, SettledBook, BookInv, ArrivalsInOrder, PT!OpenMarket, PT!Next
<1>4. ASSUME NEW m \in DOMAIN book, MatchMaker(m) PROVE UNCHANGED PT!vars
  BY <1>4, MatchStutters DEF MatchMaker, PT!vars
<1>5. CASE EndPlace
  BY <1>5, EndStutters DEF EndPlace, PT!vars
<1>6. ASSUME NEW id \in DOMAIN book, CancelOrder(id) PROVE PT!Next
  <2>1. SettledBook = book /\ SettledBook' = PT!Unbind(book, id)
    BY <1>6, SameTables DEF CancelOrder, SettledBook
  <2>2. PT!CancelOrder(id)
    BY <1>6, <2>1 DEF CancelOrder, PT!CancelOrder
  <2> QED
    BY <2>1, <2>2 DEF PT!Next
<1>7. CASE UNCHANGED bookVars
  BY <1>7 DEF bookVars, SettledBook, PT!vars
<1> QED
  BY <1>1, <1>2, <1>3, <1>4, <1>5, <1>6, <1>7 DEF BookNext

\* Whatever the orders, prices and quantities, the loop of matchInternal does
\* what the closed form says: price priority, time priority, no trade with
\* oneself, and nothing past a price at which only one's own orders are left.
THEOREM LoopImplementsPriceTime == BookSpec => ImplementsPriceTime
<1>1. InitBook => PT!Init
  BY DEF InitBook, EmptyBook, PT!Init, SettledBook
<1> QED
  BY <1>1, InitInv, StepInv, StepRefines, PTL DEF BookSpec, ImplementsPriceTime, PT!Spec
=============================================================================
