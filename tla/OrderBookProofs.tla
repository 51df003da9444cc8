--------------------------- MODULE OrderBookProofs ---------------------------
(***************************************************************************)
(* What TLAPS proves about OrderBook, for any traders, orders, prices,     *)
(* quantities and addresses: the lists, the indexes, the volumes and the   *)
(* pool are consistent after every iteration of every loop, and together   *)
(* they implement LimitBook.                                               *)
(***************************************************************************)
EXTENDS OrderBook, SumTheorems, SequenceTheorems, WellFoundedInduction

-----------------------------------------------------------------------------
(* Linked lists.  a is a heap, S the nodes of a list.                      *)

First(a, n, S) ==
    IF S = {} THEN n = Nil ELSE n \in S /\ \A m \in S : a[n].data.seq <= a[m].data.seq
Last(a, n, S) ==
    IF S = {} THEN n = Nil ELSE n \in S /\ \A m \in S : a[m].data.seq <= a[n].data.seq

After(a, n, S) == {m \in S : a[m].data.seq > a[n].data.seq}
Ahead(a, n, S) == {m \in S : a[m].data.seq < a[n].data.seq}

\* S can be put in order.
Ordered(a, S) ==
    /\ Nil \notin S
    /\ \A m \in S : a[m].data.seq \in Nat
    /\ \A m, n \in S : a[m].data.seq = a[n].data.seq => m = n

\* The pointers of the nodes of S make a list with head hd and tail tl.
List(a, S, hd, tl) ==
    /\ First(a, hd, S) /\ Last(a, tl, S)
    /\ \A n \in S : First(a, a[n].next, After(a, n, S)) /\ Last(a, a[n].prev, Ahead(a, n, S))

-----------------------------------------------------------------------------
(* The inductive invariant.  h is a heap, o, l and x stand for orders,     *)
(* level and index.                                                        *)

NodeState == [data : OrderData \cup {NoData}, prev : Pointer,
              next : Pointer, parent : (Sides \X Prices) \cup {Nil}]

\* The orders on the book are complete, distinct, and have something left.
OrdersOK(h, o) ==
    /\ h \in [Nodes -> NodeState]
    /\ o \in [DOMAIN o -> Nodes] /\ IsFiniteSet(DOMAIN o)
    /\ \A id \in DOMAIN o :
         h[o[id]].data \in OrderData /\ h[o[id]].data.id = id /\ h[o[id]].data.rem > 0
    /\ \A i, j \in DOMAIN o : h[o[i]].data.seq = h[o[j]].data.seq => i = j

\* The orders of a side and a price, by id and by node, and their volume.
IdsOf(h, o, s, p) == {id \in DOMAIN o : h[o[id]].data.side = s /\ h[o[id]].data.price = p}
QueueOf(h, o, s, p) == {n \in Range(o) : h[n].data.side = s /\ h[n].data.price = p}
Volume(h, o, s, p) == Sum([id \in IdsOf(h, o, s, p) |-> h[o[id]].data.rem])

\* lv is the level of the orders of a side and a price.
IsLevel(h, o, s, p, lv) ==
    /\ lv.total = Volume(h, o, s, p)
    /\ List(h, QueueOf(h, o, s, p), lv.head, lv.tail)
    /\ \A n \in QueueOf(h, o, s, p) : h[n].parent = <<s, p>>

LevelState == [total : Nat, head : Nodes, tail : Nodes]

\* An index lists the prices P of side s, best first, each once.
Indexes(x, s, P) ==
    /\ x \in Seq(Prices)
    /\ \A i, j \in 1 .. Len(x) : i < j => Better(s, x[i], x[j])
    /\ {x[i] : i \in 1 .. Len(x)} = P

\* There is a level for every price with orders, and an index of the levels.
SideOK(h, o, l, x, s) ==
    /\ DOMAIN l[s] = {p \in Prices : QueueOf(h, o, s, p) # {}}
    /\ Indexes(x[s], s, DOMAIN l[s])
    /\ \A p \in DOMAIN l[s] : l[s][p] \in LevelState /\ IsLevel(h, o, s, p, l[s][p])

BookOK(h, o, l, x) ==
    /\ OrdersOK(h, o)
    /\ DOMAIN l = Sides /\ DOMAIN x = Sides
    /\ \A s \in Sides : SideOK(h, o, l, x, s)

Shape == BookOK(node, orders, level, index)

\* The order being placed is not on the book and came after all that are.
TakerInv ==
    /\ taker = Nil <=> pc = "idle"
    /\ taker \in Nodes \cup {Nil} /\ pc \in {"idle", "level", "walk", "rest"}
    /\ \A id \in DOMAIN orders : node[orders[id]].data.seq <= Cardinality(used)
    /\ taker # Nil =>
         /\ open
         /\ Taken \in OrderData
         /\ Taken.id \in used /\ Taken.id \notin DOMAIN orders
         /\ Taken.seq <= Cardinality(used)
         /\ \A id \in DOMAIN orders : node[orders[id]].data.seq < Taken.seq

\* The walk is at the best level; whoever there can still trade is at or
\* behind the cursor.
WalkInv ==
    /\ pc = "walk" =>
         LET s == Opposite(Taken.side)
         IN  /\ best \in Prices
             /\ Crosses(Taken.side, Taken.price, best)
             /\ \A p \in DOMAIN level[s] : ~Better(s, p, best)
             /\ maker # Nil => maker \in QueueOf(node, orders, s, best)
             /\ Taken.rem > 0 =>
                  \A n \in QueueOf(node, orders, s, best) :
                     node[n].data.user # Taken.user =>
                        maker # Nil /\ node[maker].data.seq <= node[n].data.seq
             /\ ~matched => best \in DOMAIN level[s]
    /\ pc = "rest" => Taken.rem = 0 \/ LB!Eligible(Taken) = {}

\* A node that is not on the book points nowhere.
OthersInv ==
    /\ DOMAIN orders \subseteq used /\ used \subseteq OrderIds
    /\ pool \subseteq Nodes
    /\ best \in Prices \cup {0} /\ maker \in Pointer /\ matched \in BOOLEAN
    /\ trades \in Seq(LB!Trade) /\ open \in BOOLEAN
    /\ \A n \in Nodes \ Range(orders) :
         node[n].prev = Nil /\ node[n].next = Nil /\ node[n].parent = Nil

IInv == Shape /\ TakerInv /\ WalkInv /\ OthersInv /\ PoolIsDisjoint

-----------------------------------------------------------------------------
(* Changes of a linked list *)

\* Only arrival numbers and pointers matter.
LEMMA ListSame ==
    ASSUME NEW a, NEW S, NEW hd, NEW tl, List(a, S, hd, tl), NEW b,
           \A m \in S : /\ b[m].data.seq = a[m].data.seq
                        /\ b[m].next = a[m].next /\ b[m].prev = a[m].prev
    PROVE  List(b, S, hd, tl)
<1>1. First(b, hd, S) /\ Last(b, tl, S)
  BY DEF List, First, Last
<1>2. ASSUME NEW n \in S
      PROVE  First(b, b[n].next, After(b, n, S)) /\ Last(b, b[n].prev, Ahead(b, n, S))
  <2>1. After(b, n, S) = After(a, n, S) /\ Ahead(b, n, S) = Ahead(a, n, S)
    BY DEF After, Ahead
  <2>2. b[n].next = a[n].next /\ b[n].prev = a[n].prev
    OBVIOUS
  <2>3. First(a, a[n].next, After(a, n, S)) /\ Last(a, a[n].prev, Ahead(a, n, S))
    BY DEF List
  <2>4. After(a, n, S) \subseteq S /\ Ahead(a, n, S) \subseteq S
    BY DEF After, Ahead
  <2> QED
    BY <2>1, <2>2, <2>3, <2>4 DEF First, Last
<1> QED
  BY <1>1, <1>2 DEF List

\* The first and the last of a set, and of one node.
LEMMA FirstSame ==
    ASSUME NEW a, NEW b, NEW S, NEW n, First(a, n, S), \A m \in S : b[m].data.seq = a[m].data.seq
    PROVE  First(b, n, S)
BY DEF First

LEMMA LastSame ==
    ASSUME NEW a, NEW b, NEW S, NEW n, Last(a, n, S), \A m \in S : b[m].data.seq = a[m].data.seq
    PROVE  Last(b, n, S)
BY DEF Last

LEMMA FirstOfOne ==
    ASSUME NEW a, NEW n, a[n].data.seq \in Nat
    PROVE  First(a, n, {} \cup {n})
BY DEF First

\* In b the node n has come behind the tail tl of S.
Appends(a, S, tl, n, b) ==
    /\ \A m \in S : /\ b[m].data.seq = a[m].data.seq
                     /\ b[m].prev = a[m].prev
                     /\ b[m].next = IF m = tl THEN n ELSE a[m].next
    /\ b[n].data.seq \in Nat /\ \A m \in S : a[m].data.seq < b[n].data.seq
    /\ b[n].next = Nil /\ b[n].prev = tl

\* In b the two neighbours of n are joined.
Removes(a, S, n, b) ==
    \A m \in S \ {n} :
        /\ b[m].data.seq = a[m].data.seq
        /\ b[m].next = IF m = a[n].prev THEN a[n].next ELSE a[m].next
        /\ b[m].prev = IF m = a[n].next THEN a[n].prev ELSE a[m].prev

\* A node that comes after all others goes behind the tail.
LEMMA ListAppend ==
    ASSUME NEW a, NEW S, NEW hd, NEW tl, Ordered(a, S), List(a, S, hd, tl),
           NEW n, n \notin S, n # Nil, NEW b, Appends(a, S, tl, n, b)
    PROVE  List(b, S \cup {n}, IF S = {} THEN n ELSE hd, n)
<1> DEFINE T == S \cup {n}
<1> USE DEF Appends
<1>1. \A m \in S : a[m].data.seq \in Nat /\ b[m].data.seq = a[m].data.seq /\ m # n
  BY DEF Ordered
<1>2. First(b, IF S = {} THEN n ELSE hd, T) /\ Last(b, n, T)
  BY <1>1 DEF First, Last, List
<1>3. After(b, n, T) = {} /\ Ahead(b, n, T) = S
  BY <1>1 DEF After, Ahead
<1>4. First(b, b[n].next, After(b, n, T))
  BY <1>3 DEF First
<1>5. Last(b, b[n].prev, Ahead(b, n, T))
  BY <1>1, <1>3 DEF List, Last
<1>6. ASSUME NEW m \in S
      PROVE  First(b, b[m].next, After(b, m, T)) /\ Last(b, b[m].prev, Ahead(b, m, T))
  <2>1. After(b, m, T) = After(a, m, S) \cup {n} /\ Ahead(b, m, T) = Ahead(a, m, S)
    BY <1>1 DEF After, Ahead
  <2>2. First(a, a[m].next, After(a, m, S)) /\ Last(a, a[m].prev, Ahead(a, m, S))
    BY DEF List
  <2>3. After(a, m, S) \subseteq S /\ Ahead(a, m, S) \subseteq S
    BY DEF After, Ahead
  <2>4. Last(b, b[m].prev, Ahead(b, m, T))
    BY <1>1, <2>1, <2>2, <2>3 DEF Last
  <2>5. tl \in S /\ \A k \in S : a[k].data.seq <= a[tl].data.seq
    BY DEF List, Last
  <2>6. CASE m = tl
    <3>1. After(a, m, S) = {}
      BY <1>1, <2>5, <2>6 DEF After
    <3>2. b[m].next = n
      BY <2>6
    <3> QED
      <4>1. First(b, n, {} \cup {n})
        BY FirstOfOne
      <4>2. After(b, m, T) = {} \cup {n}
        BY <2>1, <3>1
      <4> QED
        BY <2>4, <3>2, <4>1, <4>2
  <2>7. CASE m # tl
    <3>1. tl \in After(a, m, S)
      BY <1>1, <2>5, <2>7 DEF After, Ordered
    <3>2. b[m].next = a[m].next
      BY <2>7
    <3>3. a[m].next \in After(a, m, S) /\ \A k \in After(a, m, S) : a[a[m].next].data.seq <= a[k].data.seq
      BY <2>2, <3>1 DEF First
    <3>4. \A k \in After(a, m, S) \cup {n} : b[a[m].next].data.seq <= b[k].data.seq
      BY <1>1, <2>3, <3>3
    <3> QED
      BY <2>1, <2>4, <3>2, <3>3, <3>4 DEF First
  <2> QED
    BY <2>6, <2>7
<1> QED
  BY <1>2, <1>4, <1>5, <1>6 DEF List

\* A node is unlinked by joining its two neighbours.
LEMMA ListRemove ==
    ASSUME NEW a, NEW S, NEW hd, NEW tl, Ordered(a, S), List(a, S, hd, tl),
           NEW n \in S, NEW b, Removes(a, S, n, b)
    PROVE  List(b, S \ {n}, IF a[n].prev = Nil THEN a[n].next ELSE hd,
                            IF a[n].next = Nil THEN a[n].prev ELSE tl)
<1> USE DEF Removes
<1> DEFINE T == S \ {n}
           x == a[n].prev
           y == a[n].next
           A(k) == After(a, k, S)
           H(k) == Ahead(a, k, S)
<1>1. /\ Nil \notin S /\ \A m \in S : a[m].data.seq \in Nat
      /\ \A m, k \in S : a[m].data.seq = a[k].data.seq => m = k
  BY DEF Ordered
<1>2. \A k \in S : /\ A(k) \subseteq S /\ H(k) \subseteq S
                   /\ First(a, a[k].next, A(k)) /\ Last(a, a[k].prev, H(k))
  BY DEF List, After, Ahead
<1>3. S = A(n) \cup H(n) \cup {n}
  BY <1>1 DEF After, Ahead
<1>4. /\ x = Nil <=> H(n) = {}
      /\ x # Nil => x \in H(n) /\ \A m \in H(n) : a[m].data.seq <= a[x].data.seq
      /\ y = Nil <=> A(n) = {}
      /\ y # Nil => y \in A(n) /\ \A m \in A(n) : a[y].data.seq <= a[m].data.seq
  BY <1>1, <1>2 DEF First, Last
<1>5. First(b, IF x = Nil THEN y ELSE hd, T)
  <2>1. CASE x = Nil
    <3>1. T = A(n)
      BY <1>1, <1>3, <1>4, <2>1 DEF After
    <3> QED
      BY <1>2, <2>1, <3>1 DEF First
  <2>2. CASE x # Nil
    <3>1. hd \in S /\ \A m \in S : a[hd].data.seq <= a[m].data.seq
      BY DEF List, First
    <3>2. hd # n
      BY <1>1, <1>2, <1>4, <2>2, <3>1 DEF Ahead
    <3> QED
      BY <2>2, <3>1, <3>2 DEF First
  <2> QED
    BY <2>1, <2>2
<1>6. Last(b, IF y = Nil THEN x ELSE tl, T)
  <2>1. CASE y = Nil
    <3>1. T = H(n)
      BY <1>1, <1>3, <1>4, <2>1 DEF Ahead
    <3> QED
      BY <1>2, <2>1, <3>1 DEF Last
  <2>2. CASE y # Nil
    <3>1. tl \in S /\ \A m \in S : a[m].data.seq <= a[tl].data.seq
      BY DEF List, Last
    <3>2. tl # n
      BY <1>1, <1>2, <1>4, <2>2, <3>1 DEF After
    <3> QED
      BY <2>2, <3>1, <3>2 DEF Last
  <2> QED
    BY <2>1, <2>2
<1>7. ASSUME NEW m \in T
      PROVE  First(b, b[m].next, After(b, m, T))
  <2>1. After(b, m, T) = A(m) \ {n}
    BY DEF After
  <2>2. CASE m = x
    <3>1. m \in H(n) /\ \A k \in H(n) : a[k].data.seq <= a[m].data.seq
      BY <1>1, <1>4, <2>2
    <3>2. A(m) \ {n} = A(n)
      BY <1>1, <1>3, <3>1 DEF After, Ahead
    <3>3. b[m].next = y
      BY <2>2
    <3>4. n \notin A(n)
      BY <1>1 DEF After
    <3> QED
      <4>1. First(a, y, A(n))
        BY <1>2
      <4>2. \A k \in A(n) : b[k].data.seq = a[k].data.seq
        BY <1>2, <3>4
      <4>3. First(b, y, A(n))
        BY <4>1, <4>2, FirstSame
      <4> QED
        BY <2>1, <3>2, <3>3, <4>3
  <2>3. CASE m # x
    <3>1. b[m].next = a[m].next
      BY <2>3
    <3>2. a[m].next # n
      <4>1. SUFFICES ASSUME a[m].next = n PROVE FALSE
        OBVIOUS
      <4>2. n \in A(m) /\ \A k \in A(m) : a[n].data.seq <= a[k].data.seq
        BY <1>1, <1>2, <4>1 DEF First
      <4>3. m \in H(n)
        BY <4>2 DEF After, Ahead
      <4>4. x \in H(n) /\ a[m].data.seq <= a[x].data.seq
        BY <1>4, <4>3
      <4>5. x \in A(m)
        <5>1. x \in S /\ m \in S /\ a[m].data.seq # a[x].data.seq
          BY <1>1, <1>2, <2>3, <4>4
        <5>2. a[m].data.seq < a[x].data.seq
          BY <1>1, <4>4, <5>1
        <5> QED
          BY <1>1, <5>1, <5>2 DEF After
      <4> QED
        BY <1>1, <1>2, <4>2, <4>4, <4>5 DEF Ahead
    <3>3. CASE A(m) = {}
      BY <1>2, <2>1, <3>1, <3>3 DEF First
    <3>4. CASE A(m) # {}
      <4>1. a[m].next \in A(m) \ {n} /\ \A k \in A(m) : a[a[m].next].data.seq <= a[k].data.seq
        BY <1>2, <3>2, <3>4 DEF First
      <4> QED
        BY <1>2, <2>1, <3>1, <4>1 DEF First
    <3> QED
      BY <3>3, <3>4
  <2> QED
    BY <2>2, <2>3
<1>8. ASSUME NEW m \in T
      PROVE  Last(b, b[m].prev, Ahead(b, m, T))
  <2>1. Ahead(b, m, T) = H(m) \ {n}
    BY DEF Ahead
  <2>2. CASE m = y
    <3>1. m \in A(n) /\ \A k \in A(n) : a[m].data.seq <= a[k].data.seq
      BY <1>1, <1>4, <2>2
    <3>2. H(m) \ {n} = H(n)
      BY <1>1, <1>3, <3>1 DEF After, Ahead
    <3>3. b[m].prev = x
      BY <2>2
    <3>4. n \notin H(n)
      BY <1>1 DEF Ahead
    <3> QED
      <4>1. Last(a, x, H(n))
        BY <1>2
      <4>2. \A k \in H(n) : b[k].data.seq = a[k].data.seq
        BY <1>2, <3>4
      <4>3. Last(b, x, H(n))
        BY <4>1, <4>2, LastSame
      <4> QED
        BY <2>1, <3>2, <3>3, <4>3
  <2>3. CASE m # y
    <3>1. b[m].prev = a[m].prev
      BY <2>3
    <3>2. a[m].prev # n
      <4>1. SUFFICES ASSUME a[m].prev = n PROVE FALSE
        OBVIOUS
      <4>2. n \in H(m) /\ \A k \in H(m) : a[k].data.seq <= a[n].data.seq
        BY <1>1, <1>2, <4>1 DEF Last
      <4>3. m \in A(n)
        BY <4>2 DEF After, Ahead
      <4>4. y \in A(n) /\ a[y].data.seq <= a[m].data.seq
        BY <1>4, <4>3
      <4>5. y \in H(m)
        <5>1. y \in S /\ m \in S /\ a[m].data.seq # a[y].data.seq
          BY <1>1, <1>2, <2>3, <4>4
        <5>2. a[y].data.seq < a[m].data.seq
          BY <1>1, <4>4, <5>1
        <5> QED
          BY <1>1, <5>1, <5>2 DEF Ahead
      <4> QED
        BY <1>1, <1>2, <4>2, <4>4, <4>5 DEF After
    <3>3. CASE H(m) = {}
      BY <1>2, <2>1, <3>1, <3>3 DEF Last
    <3>4. CASE H(m) # {}
      <4>1. a[m].prev \in H(m) \ {n} /\ \A k \in H(m) : a[k].data.seq <= a[a[m].prev].data.seq
        BY <1>2, <3>2, <3>4 DEF Last
      <4> QED
        BY <1>2, <2>1, <3>1, <4>1 DEF Last
    <3> QED
      BY <3>3, <3>4
  <2> QED
    BY <2>2, <2>3
<1> QED
  BY <1>5, <1>6, <1>7, <1>8 DEF List

-----------------------------------------------------------------------------
(* The index of a side: x is an index, P the prices it lists               *)

\* A set of numbers without gaps from 1 on ends at its size.
LEMMA InitialSegment ==
    ASSUME NEW n \in Nat, NEW S \in SUBSET (1 .. n),
           \A i \in S : \A j \in 1 .. n : j < i => j \in S
    PROVE  Cardinality(S) \in 0 .. n /\ S = 1 .. Cardinality(S)
<1> DEFINE U == {k \in Nat : k >= 1 /\ k \notin S}
<1>1. n + 1 \in U
  OBVIOUS
<1>2. PICK k \in U : \A j \in U : ~(j < k)
  <2>1. PICK k \in U : \A j \in U : <<j, k>> \notin OpToRel(<, Nat)
    BY <1>1, WFMin, NatLessThanWellFounded
  <2> QED
    BY <2>1 DEF OpToRel
<1>3. k \in Nat /\ k >= 1 /\ k <= n + 1 /\ k \notin S
  BY <1>1, <1>2
<1>4. ASSUME NEW i \in 1 .. k - 1 PROVE i \in S
  <2>1. i \in Nat /\ i >= 1 /\ i < k
    BY <1>3
  <2> QED
    BY <1>2, <2>1
<1>5. ASSUME NEW i \in S PROVE i \in 1 .. k - 1
  <2>1. i \in 1 .. n
    OBVIOUS
  <2>2. k < i => k \in S
    BY <1>3, <2>1
  <2>3. i # k
    BY <1>3
  <2> QED
    BY <1>3, <2>1, <2>2, <2>3
<1>6. S = 1 .. k - 1
  BY <1>4, <1>5
<1>7. Cardinality(1 .. k - 1) = k - 1
  BY <1>3, FS_Interval
<1> QED
  BY <1>3, <1>6, <1>7

\* Prices are compared as integers.
LEMMA BetterOrders ==
    ASSUME NEW s, NEW p \in Prices, NEW q \in Prices, NEW r \in Prices
    PROVE  /\ Better(s, p, q) /\ Better(s, q, r) => Better(s, p, r)
           /\ ~(Better(s, p, q) /\ Better(s, q, p)) /\ ~Better(s, p, p)
           /\ p # q => Better(s, p, q) \/ Better(s, q, p)
<1>1. p \in Int /\ q \in Int /\ r \in Int
  BY PositiveAssumption
<1> QED
  BY <1>1 DEF Better

\* Position is where the better prices end.
LEMMA PositionSplits ==
    ASSUME NEW s, NEW P, NEW x, Indexes(x, s, P), NEW p \in Prices,
           NEW i, i = Cardinality({k \in DOMAIN x : Better(s, x[k], p)}) + 1
    PROVE  /\ i \in 1 .. Len(x) + 1 /\ Len(x) \in Nat /\ DOMAIN x = 1 .. Len(x)
           /\ \A k \in 1 .. Len(x) : x[k] \in Prices
           /\ \A k \in 1 .. Len(x) : k < i <=> Better(s, x[k], p)
<1> DEFINE S == {k \in DOMAIN x : Better(s, x[k], p)}
<1>1. /\ x \in Seq(Prices) /\ Len(x) \in Nat /\ DOMAIN x = 1 .. Len(x)
      /\ \A k \in 1 .. Len(x) : x[k] \in Prices
  BY DEF Indexes
<1>2. \A k, j \in 1 .. Len(x) : j < k => Better(s, x[j], x[k])
  BY DEF Indexes
<1>3. \A k \in S : \A j \in 1 .. Len(x) : j < k => j \in S
  BY <1>1, <1>2, BetterOrders
<1>4. Cardinality(S) \in 0 .. Len(x) /\ S = 1 .. Cardinality(S)
  BY <1>1, <1>3, InitialSegment
<1>5. \A k \in 1 .. Len(x) : k \in S <=> Better(s, x[k], p)
  BY <1>1
<1>6. i = Cardinality(S) + 1
  OBVIOUS
<1> HIDE DEF S
<1>7. i \in 1 .. Len(x) + 1
  BY <1>1, <1>4, <1>6
<1>8. ASSUME NEW k \in 1 .. Len(x) PROVE k < i <=> Better(s, x[k], p)
  <2>1. k \in S <=> k \in 1 .. Cardinality(S)
    BY <1>4
  <2>2. k \in 1 .. Cardinality(S) <=> k < i
    BY <1>1, <1>4, <1>6
  <2> QED
    BY <1>5, <2>1, <2>2
<1> QED
  BY <1>1, <1>7, <1>8

\* y is x with p put in at place i.
IsInsertion(y, x, i, p) ==
    /\ y \in Seq(Prices) /\ Len(y) = Len(x) + 1
    /\ \A k \in 1 .. Len(x) + 1 :
         y[k] = IF k < i THEN x[k] ELSE IF k = i THEN p ELSE x[k - 1]

\* What slices.Insert leaves at each place.
LEMMA InsertedElements ==
    ASSUME NEW x \in Seq(Prices), NEW i \in 1 .. Len(x) + 1, NEW p \in Prices
    PROVE  IsInsertion(InsertedAt(x, i, p), x, i, p)
<1> DEFINE T == Prices
           l == SubSeq(x, 1, i - 1)
           r == SubSeq(x, i, Len(x))
           m == l \o <<p>>
<1>1. Len(x) \in Nat /\ i \in Nat
  OBVIOUS
<1>2. l \in Seq(T) /\ Len(l) = i - 1 /\ \A k \in 1 .. i - 1 : l[k] = x[k]
  BY <1>1, SubSeqProperties
<1>3. r \in Seq(T) /\ Len(r) = Len(x) - i + 1 /\ \A k \in 1 .. Len(x) - i + 1 : r[k] = x[i + k - 1]
  BY <1>1, SubSeqProperties
<1> HIDE DEF l, r
<1>4. <<p>> \in Seq(T) /\ Len(<<p>>) = 1 /\ <<p>>[1] = p
  OBVIOUS
<1>5. m \in Seq(T) /\ Len(m) = i /\ \A k \in 1 .. i : m[k] = IF k < i THEN x[k] ELSE p
  <2>1. /\ m \in Seq(T) /\ Len(m) = Len(l) + Len(<<p>>)
        /\ \A k \in 1 .. Len(l) + Len(<<p>>) :
             m[k] = IF k <= Len(l) THEN l[k] ELSE <<p>>[k - Len(l)]
    BY <1>2, <1>4, ConcatProperties
  <2>2. Len(m) = i
    BY <1>1, <1>2, <1>4, <2>1
  <2>3. ASSUME NEW k \in 1 .. i PROVE m[k] = IF k < i THEN x[k] ELSE p
    <3>1. m[k] = IF k <= i - 1 THEN l[k] ELSE <<p>>[k - (i - 1)]
      BY <1>1, <1>2, <1>4, <2>1
    <3>2. CASE k < i
      BY <1>1, <1>2, <3>1, <3>2
    <3>3. CASE ~(k < i)
      <4>1. k - (i - 1) = 1 /\ ~(k <= i - 1)
        BY <1>1, <3>3
      <4> QED
        BY <1>4, <3>1, <3>3, <4>1
    <3> QED
      BY <3>2, <3>3
  <2> QED
    BY <2>1, <2>2, <2>3
<1> HIDE DEF m
<1>6. InsertedAt(x, i, p) = m \o r
  BY DEF InsertedAt, m, l, r
<1>7. /\ m \o r \in Seq(T) /\ Len(m \o r) = Len(x) + 1
      /\ \A k \in 1 .. Len(x) + 1 : (m \o r)[k] = IF k <= i THEN m[k] ELSE r[k - i]
  <2>1. /\ m \o r \in Seq(T) /\ Len(m \o r) = Len(m) + Len(r)
        /\ \A k \in 1 .. Len(m) + Len(r) :
             (m \o r)[k] = IF k <= Len(m) THEN m[k] ELSE r[k - Len(m)]
    BY <1>3, <1>5, ConcatProperties
  <2>2. Len(m) = i /\ Len(m) + Len(r) = Len(x) + 1
    BY <1>1, <1>3, <1>5
  <2> QED
    BY <2>1, <2>2
<1>8. ASSUME NEW k \in 1 .. Len(x) + 1
      PROVE  (m \o r)[k] = IF k < i THEN x[k] ELSE IF k = i THEN p ELSE x[k - 1]
  <2>1. CASE k <= i
    <3>1. k \in 1 .. i
      BY <1>1, <2>1
    <3>2. (m \o r)[k] = IF k < i THEN x[k] ELSE p
      BY <1>5, <1>7, <2>1, <3>1
    <3>3. k < i \/ k = i
      BY <1>1, <2>1
    <3> QED
      BY <3>2, <3>3
  <2>2. CASE k > i
    <3>1. k - i \in 1 .. Len(x) - i + 1 /\ i + (k - i) - 1 = k - 1
      BY <1>1, <2>2
    <3>2. r[k - i] = x[k - 1]
      BY <1>3, <3>1
    <3>3. ~(k <= i) /\ ~(k < i) /\ k # i
      BY <1>1, <2>2
    <3> QED
      BY <1>7, <3>2, <3>3
  <2>3. k <= i \/ k > i
    BY <1>1
  <2> QED
    BY <2>1, <2>2, <2>3
<1> QED
  BY <1>6, <1>7, <1>8 DEF IsInsertion

\* What slices.Delete leaves at each place.
LEMMA DeletedElements ==
    ASSUME NEW T, NEW x \in Seq(T), NEW i \in 1 .. Len(x)
    PROVE  /\ DeletedAt(x, i) \in Seq(T) /\ Len(DeletedAt(x, i)) = Len(x) - 1
           /\ \A k \in 1 .. Len(x) - 1 :
                DeletedAt(x, i)[k] = IF k < i THEN x[k] ELSE x[k + 1]
<1> DEFINE l == SubSeq(x, 1, i - 1)
           r == SubSeq(x, i + 1, Len(x))
<1>1. Len(x) \in Nat /\ i \in Nat
  OBVIOUS
<1>2. l \in Seq(T) /\ Len(l) = i - 1 /\ \A k \in 1 .. i - 1 : l[k] = x[k]
  BY <1>1, SubSeqProperties
<1>3. r \in Seq(T) /\ Len(r) = Len(x) - i /\ \A k \in 1 .. Len(x) - i : r[k] = x[i + k]
  BY <1>1, SubSeqProperties
<1> HIDE DEF l, r
<1>4. DeletedAt(x, i) = l \o r
  BY DEF DeletedAt, l, r
<1>5. /\ l \o r \in Seq(T) /\ Len(l \o r) = Len(x) - 1
      /\ \A k \in 1 .. Len(x) - 1 : (l \o r)[k] = IF k <= i - 1 THEN l[k] ELSE r[k - (i - 1)]
  <2>1. /\ l \o r \in Seq(T) /\ Len(l \o r) = Len(l) + Len(r)
        /\ \A k \in 1 .. Len(l) + Len(r) :
             (l \o r)[k] = IF k <= Len(l) THEN l[k] ELSE r[k - Len(l)]
    BY <1>2, <1>3, ConcatProperties
  <2>2. Len(l) = i - 1 /\ Len(l) + Len(r) = Len(x) - 1
    BY <1>1, <1>2, <1>3
  <2> QED
    BY <2>1, <2>2
<1>6. ASSUME NEW k \in 1 .. Len(x) - 1
      PROVE  (l \o r)[k] = IF k < i THEN x[k] ELSE x[k + 1]
  <2>1. CASE k < i
    <3>1. k \in 1 .. i - 1 /\ k <= i - 1
      BY <1>1, <2>1
    <3> QED
      BY <1>2, <1>5, <2>1, <3>1
  <2>2. CASE k >= i
    <3>1. k - (i - 1) \in 1 .. Len(x) - i /\ i + (k - (i - 1)) = k + 1
      BY <1>1, <2>2
    <3>2. r[k - (i - 1)] = x[k + 1]
      BY <1>3, <3>1
    <3>3. ~(k <= i - 1) /\ ~(k < i)
      BY <1>1, <2>2
    <3> QED
      BY <1>5, <3>2, <3>3
  <2>3. k < i \/ k >= i
    BY <1>1
  <2> QED
    BY <2>1, <2>2, <2>3
<1> QED
  BY <1>4, <1>5, <1>6

\* A new price is inserted where it belongs.
LEMMA IndexInsert ==
    ASSUME NEW s, NEW P, NEW x, Indexes(x, s, P), NEW p \in Prices, p \notin P,
           NEW i, i = Cardinality({k \in DOMAIN x : Better(s, x[k], p)}) + 1
    PROVE  Indexes(InsertedAt(x, i, p), s, P \cup {p})
<1> DEFINE n == Len(x)
           y == InsertedAt(x, i, p)
<1>1. /\ i \in 1 .. n + 1 /\ n \in Nat /\ DOMAIN x = 1 .. n
      /\ \A k \in 1 .. n : x[k] \in Prices
      /\ \A k \in 1 .. n : k < i <=> Better(s, x[k], p)
  BY PositionSplits
<1>2. /\ x \in Seq(Prices) /\ {x[k] : k \in 1 .. n} = P
      /\ \A j, k \in 1 .. n : j < k => Better(s, x[j], x[k])
  BY DEF Indexes
<1>3. /\ y \in Seq(Prices) /\ Len(y) = n + 1
      /\ \A k \in 1 .. n + 1 : y[k] = IF k < i THEN x[k] ELSE IF k = i THEN p ELSE x[k - 1]
  <2>1. x \in Seq(Prices) /\ i \in 1 .. Len(x) + 1 /\ p \in Prices
    BY <1>1, <1>2
  <2>2. IsInsertion(InsertedAt(x, i, p), x, i, p)
    BY <2>1, InsertedElements
  <2> QED
    BY <2>2 DEF IsInsertion
<1> HIDE DEF n, y
<1>4. \A k \in 1 .. n : k >= i => Better(s, p, x[k])
  <2> TAKE k \in 1 .. n
  <2>1. x[k] \in Prices /\ x[k] # p
    BY <1>1, <1>2
  <2>2. Better(s, x[k], p) \/ Better(s, p, x[k])
    BY <2>1, BetterOrders
  <2>3. k \in Int /\ i \in Int
    BY <1>1
  <2> QED
    BY <1>1, <2>2, <2>3
<1>5. ASSUME NEW j \in 1 .. n + 1, NEW k \in 1 .. n + 1, j < k
      PROVE  Better(s, y[j], y[k])
  <2>1. CASE k < i
    BY <1>1, <1>2, <1>3, <1>5, <2>1
  <2>2. CASE k = i
    BY <1>1, <1>3, <1>5, <2>2
  <2>3. CASE k > i /\ j = i
    BY <1>1, <1>3, <1>4, <2>3
  <2>4. CASE k > i /\ j < i
    <3>1. j \in 1 .. n /\ k - 1 \in 1 .. n /\ j < k - 1
      BY <1>1, <1>5, <2>4
    <3> QED
      BY <1>1, <1>2, <1>3, <2>4, <3>1
  <2>5. CASE k > i /\ j > i
    <3>1. j - 1 \in 1 .. n /\ k - 1 \in 1 .. n /\ j - 1 < k - 1
      BY <1>1, <1>5, <2>5
    <3> QED
      BY <1>1, <1>2, <1>3, <2>5, <3>1
  <2> QED
    BY <1>1, <2>1, <2>2, <2>3, <2>4, <2>5
<1>6. {y[k] : k \in 1 .. n + 1} = P \cup {p}
  <2>1. ASSUME NEW k \in 1 .. n + 1 PROVE y[k] \in P \cup {p}
    <3>1. CASE k < i
      BY <1>1, <1>2, <1>3, <3>1
    <3>2. CASE k = i
      <4>1. y[k] = p
        <5>1. ~(k < i)
          BY <1>1, <3>2
        <5> QED
          BY <1>3, <3>2, <5>1
      <4> QED
        BY <4>1
    <3>3. CASE k > i
      <4>1. k - 1 \in 1 .. n
        BY <1>1, <3>3
      <4> QED
        BY <1>1, <1>2, <1>3, <3>3, <4>1
    <3> QED
      BY <1>1, <3>1, <3>2, <3>3
  <2>2. ASSUME NEW q \in P PROVE \E k \in 1 .. n + 1 : y[k] = q
    <3>1. PICK k \in 1 .. n : x[k] = q
      BY <1>2
    <3>2. CASE k < i
      BY <1>1, <1>3, <3>1, <3>2
    <3>3. CASE k >= i
      <4>1. k + 1 \in 1 .. n + 1 /\ k + 1 > i /\ (k + 1) - 1 = k
        BY <1>1, <3>3
      <4>2. y[k + 1] = x[k]
        BY <1>1, <1>3, <4>1
      <4> QED
        BY <3>1, <4>1, <4>2
    <3> QED
      BY <1>1, <3>2, <3>3
  <2>3. y[i] = p /\ i \in 1 .. n + 1
    BY <1>1, <1>3
  <2> QED
    BY <2>1, <2>2, <2>3
<1>7. Indexes(y, s, P \cup {p})
  BY <1>3, <1>5, <1>6 DEF Indexes
<1> QED
  BY <1>7 DEF y

\* A price that is listed is found at its position and deleted there.
LEMMA IndexDelete ==
    ASSUME NEW s, NEW P, NEW x, Indexes(x, s, P), NEW p \in P,
           NEW i, i = Cardinality({k \in DOMAIN x : Better(s, x[k], p)}) + 1
    PROVE  /\ i \in DOMAIN x /\ x[i] = p
           /\ Indexes(DeletedAt(x, i), s, P \ {p})
<1> DEFINE n == Len(x)
           y == DeletedAt(x, i)
<1>1. /\ x \in Seq(Prices) /\ {x[k] : k \in 1 .. n} = P
      /\ \A j, k \in 1 .. n : j < k => Better(s, x[j], x[k])
  BY DEF Indexes
<1>2. p \in Prices
  BY <1>1
<1>3. /\ i \in 1 .. n + 1 /\ n \in Nat /\ DOMAIN x = 1 .. n
      /\ \A k \in 1 .. n : x[k] \in Prices
      /\ \A k \in 1 .. n : k < i <=> Better(s, x[k], p)
  BY <1>2, PositionSplits
<1>4. PICK j \in 1 .. n : x[j] = p
  BY <1>1
<1> HIDE DEF n
<1>5. i = j
  <2>1. ~(j < i)
    BY <1>2, <1>3, <1>4, BetterOrders
  <2>2. ~(i < j)
    <3>1. SUFFICES ASSUME i < j PROVE FALSE
      OBVIOUS
    <3>2. i \in 1 .. n /\ Better(s, x[i], p)
      BY <1>1, <1>3, <1>4, <3>1
    <3> QED
      BY <1>3, <3>2
  <2> QED
    BY <1>3, <2>1, <2>2
<1>6. /\ y \in Seq(Prices) /\ Len(y) = n - 1
      /\ \A k \in 1 .. n - 1 : y[k] = IF k < i THEN x[k] ELSE x[k + 1]
  BY <1>1, <1>4, <1>5, DeletedElements DEF n
<1> HIDE DEF y
<1>7. ASSUME NEW h \in 1 .. n - 1, NEW k \in 1 .. n - 1, h < k
      PROVE  Better(s, y[h], y[k])
  <2>1. h \in 1 .. n /\ k \in 1 .. n /\ h + 1 \in 1 .. n /\ k + 1 \in 1 .. n /\ h + 1 < k + 1 /\ h < k + 1
    BY <1>3, <1>7
  <2>2. /\ y[h] = IF h < i THEN x[h] ELSE x[h + 1]
        /\ y[k] = IF k < i THEN x[k] ELSE x[k + 1]
    BY <1>6
  <2>3. k < i => h < i
    BY <1>3, <1>7
  <2> QED
    BY <1>1, <1>7, <2>1, <2>2, <2>3
<1>8. {y[k] : k \in 1 .. n - 1} = P \ {p}
  <2>1. ASSUME NEW k \in 1 .. n - 1 PROVE y[k] \in P \ {p}
    <3>1. k \in 1 .. n /\ k + 1 \in 1 .. n
      BY <1>3
    <3>2. y[k] = IF k < i THEN x[k] ELSE x[k + 1]
      BY <1>6
    <3>3. x[k] \in P /\ x[k + 1] \in P
      BY <1>1, <3>1
    <3>4. k < i => Better(s, x[k], x[i])
      BY <1>1, <1>4, <1>5, <3>1
    <3>5. ~(k < i) => Better(s, x[i], x[k + 1])
      <4>1. ~(k < i) => i < k + 1
        BY <1>3
      <4> QED
        BY <1>1, <1>4, <1>5, <3>1, <4>1
    <3>6. ~Better(s, p, p)
      BY <1>2, BetterOrders
    <3> QED
      BY <1>4, <1>5, <3>2, <3>3, <3>4, <3>5, <3>6
  <2>2. ASSUME NEW q \in P \ {p} PROVE \E k \in 1 .. n - 1 : y[k] = q
    <3>1. PICK k \in 1 .. n : x[k] = q
      BY <1>1
    <3>2. k # i
      BY <1>4, <1>5, <3>1
    <3>3. CASE k < i
      <4>1. k \in 1 .. n - 1
        BY <1>3, <1>4, <1>5, <3>3
      <4> QED
        BY <1>6, <3>1, <3>3, <4>1
    <3>4. CASE k > i
      <4>1. k - 1 \in 1 .. n - 1 /\ ~(k - 1 < i) /\ (k - 1) + 1 = k
        BY <1>3, <3>4
      <4>2. y[k - 1] = x[k]
        BY <1>6, <4>1
      <4> QED
        BY <3>1, <4>1, <4>2
    <3> QED
      BY <1>3, <3>2, <3>3, <3>4
  <2> QED
    BY <2>1, <2>2
<1>9. Indexes(y, s, P \ {p})
  BY <1>6, <1>7, <1>8 DEF Indexes
<1> QED
  BY <1>3, <1>4, <1>5, <1>9 DEF y

\* The head of an index is the best price there is.
LEMMA IndexHead ==
    ASSUME NEW s, NEW P, NEW x, Indexes(x, s, P)
    PROVE  /\ x = <<>> => P = {}
           /\ x # <<>> => Head(x) \in P /\ Head(x) \in Prices
                          /\ \A p \in P : ~Better(s, p, Head(x))
<1>1. /\ x \in Seq(Prices) /\ {x[k] : k \in 1 .. Len(x)} = P
      /\ \A j, k \in 1 .. Len(x) : j < k => Better(s, x[j], x[k])
      /\ Len(x) \in Nat
  BY DEF Indexes
<1>2. x = <<>> => P = {}
  BY <1>1
<1>3. ASSUME x # <<>>
      PROVE  Head(x) \in P /\ Head(x) \in Prices /\ \A p \in P : ~Better(s, p, Head(x))
  <2>1. Len(x) >= 1 /\ Head(x) = x[1] /\ 1 \in 1 .. Len(x)
    BY <1>1, <1>3
  <2>2. x[1] \in P /\ x[1] \in Prices
    BY <1>1, <2>1
  <2>3. ASSUME NEW p \in P PROVE ~Better(s, p, x[1])
    <3>1. PICK k \in 1 .. Len(x) : x[k] = p
      BY <1>1
    <3>2. p \in Prices
      BY <1>1, <3>1
    <3>3. k = 1 \/ Better(s, x[1], p)
      BY <1>1, <2>1, <3>1
    <3> QED
      BY <2>2, <3>1, <3>2, <3>3, BetterOrders
  <2> QED
    BY <2>1, <2>2, <2>3
<1> QED
  BY <1>2, <1>3

-----------------------------------------------------------------------------
(* Levels *)

\* The fields of an order that is filled in.
LEMMA DataTypes ==
    ASSUME NEW d \in OrderData
    PROVE  /\ d.id \in OrderIds /\ d.user \in Users /\ d.side \in Sides /\ d.price \in Prices
           /\ d.qty \in Quantities /\ d.rem \in Nat /\ d.seq \in Nat /\ d.seq > 0
           /\ d.price \in Nat /\ d.price > 0
<1>1. \A p \in Prices : p \in Nat /\ p > 0
  BY PositiveAssumption
<1> QED
  BY <1>1 DEF OrderData

\* The orders on a book.
LEMMA BookedTypes ==
    ASSUME NEW h, NEW o, OrdersOK(h, o), NEW id \in DOMAIN o
    PROVE  /\ o[id] \in Nodes /\ o[id] \in Range(o) /\ o[id] # Nil
           /\ h[o[id]] \in NodeState /\ h[o[id]].data \in OrderData /\ h[o[id]].data.id = id
           /\ h[o[id]].data.rem \in Nat /\ h[o[id]].data.rem > 0
           /\ h[o[id]].data.side \in Sides /\ h[o[id]].data.price \in Prices
           /\ h[o[id]].data.seq \in Nat
<1>1. o[id] \in Nodes /\ o[id] # Nil /\ h[o[id]] \in NodeState
  BY AddressAssumption DEF OrdersOK
<1>2. o[id] \in Range(o)
  BY DEF Range
<1>3. h[o[id]].data \in OrderData /\ h[o[id]].data.id = id /\ h[o[id]].data.rem > 0
  BY DEF OrdersOK
<1> QED
  BY <1>1, <1>2, <1>3, DataTypes

\* A node on the book is there for one order only.
LEMMA OrdersInjective ==
    ASSUME NEW h, NEW o, OrdersOK(h, o), NEW i \in DOMAIN o, NEW j \in DOMAIN o, o[i] = o[j]
    PROVE  i = j
BY BookedTypes

\* A queue can be put in order, and is finite.
LEMMA QueueOrdered ==
    ASSUME NEW h, NEW o, OrdersOK(h, o), NEW s, NEW p
    PROVE  /\ Ordered(h, QueueOf(h, o, s, p))
           /\ QueueOf(h, o, s, p) \subseteq Nodes
           /\ QueueOf(h, o, s, p) = {o[id] : id \in IdsOf(h, o, s, p)}
           /\ IsFiniteSet(IdsOf(h, o, s, p))
           /\ [id \in IdsOf(h, o, s, p) |-> h[o[id]].data.rem] \in [IdsOf(h, o, s, p) -> Nat]
<1>1. QueueOf(h, o, s, p) = {o[id] : id \in IdsOf(h, o, s, p)}
  BY DEF QueueOf, IdsOf, Range
<1>2. IdsOf(h, o, s, p) \in SUBSET DOMAIN o
  BY DEF IdsOf
<1>3. IsFiniteSet(IdsOf(h, o, s, p))
  BY <1>2, FS_Subset DEF OrdersOK
<1>4. \A id \in IdsOf(h, o, s, p) :
        o[id] \in Nodes /\ o[id] # Nil /\ h[o[id]].data.seq \in Nat /\ h[o[id]].data.rem \in Nat
  BY <1>2, BookedTypes
<1>5. \A i, j \in IdsOf(h, o, s, p) : h[o[i]].data.seq = h[o[j]].data.seq => i = j
  BY <1>2 DEF OrdersOK
<1>6. Ordered(h, QueueOf(h, o, s, p))
  BY <1>1, <1>4, <1>5 DEF Ordered
<1>7. QueueOf(h, o, s, p) \subseteq Nodes
  BY <1>1, <1>4
<1>8. [id \in IdsOf(h, o, s, p) |-> h[o[id]].data.rem] \in [IdsOf(h, o, s, p) -> Nat]
  BY <1>4
<1> QED
  BY <1>1, <1>3, <1>6, <1>7, <1>8

\* A level no order of which is touched stays as it is.
LEMMA SameLevel ==
    ASSUME NEW h, NEW o, NEW b, NEW c, NEW s, NEW p, NEW lv, IsLevel(h, o, s, p, lv),
           OrdersOK(h, o), IdsOf(b, c, s, p) = IdsOf(h, o, s, p),
           \A id \in IdsOf(h, o, s, p) :
             /\ c[id] = o[id] /\ b[o[id]].data = h[o[id]].data
             /\ b[o[id]].next = h[o[id]].next /\ b[o[id]].prev = h[o[id]].prev
             /\ b[o[id]].parent = h[o[id]].parent
    PROVE  IsLevel(b, c, s, p, lv) /\ QueueOf(b, c, s, p) = QueueOf(h, o, s, p)
<1>1. QueueOf(h, o, s, p) = {o[id] : id \in IdsOf(h, o, s, p)}
  BY QueueOrdered
<1>2. QueueOf(b, c, s, p) = {c[id] : id \in IdsOf(b, c, s, p)}
  BY DEF QueueOf, IdsOf, Range
<1>3. QueueOf(b, c, s, p) = QueueOf(h, o, s, p)
  BY <1>1, <1>2
<1>4. Volume(b, c, s, p) = Volume(h, o, s, p)
  BY DEF Volume
<1>5. List(b, QueueOf(h, o, s, p), lv.head, lv.tail)
  <2>1. \A m \in QueueOf(h, o, s, p) : /\ b[m].data.seq = h[m].data.seq
                                      /\ b[m].next = h[m].next /\ b[m].prev = h[m].prev
    BY <1>1
  <2>2. List(h, QueueOf(h, o, s, p), lv.head, lv.tail)
    BY DEF IsLevel
  <2> QED
    BY <2>1, <2>2, ListSame
<1>6. \A n \in QueueOf(h, o, s, p) : b[n].parent = <<s, p>>
  BY <1>1 DEF IsLevel
<1> QED
  BY <1>3, <1>4, <1>5, <1>6 DEF IsLevel

\* A level with a price nobody asked for.
LEMMA EmptyLevel ==
    ASSUME NEW h, NEW o, NEW s, NEW p, QueueOf(h, o, s, p) = {},
           NEW lv, lv = [total |-> 0, head |-> Nil, tail |-> Nil]
    PROVE  IsLevel(h, o, s, p, lv)
<1>1. IdsOf(h, o, s, p) = {}
  BY DEF IdsOf, QueueOf, Range
<1>2. Volume(h, o, s, p) = 0
  <2>1. [id \in IdsOf(h, o, s, p) |-> h[o[id]].data.rem] \in [IdsOf(h, o, s, p) -> {0}]
    BY <1>1
  <2> QED
    BY <2>1, SumZero DEF Volume
<1> QED
  BY <1>2 DEF IsLevel, List, First, Last

\* In b and c the order id, which came last, is behind the tail of lv, and w
\* is its level.
ComesLast(h, o, s, p, lv, id, n, b, c, w) ==
    /\ c = Bind(o, id, n)
    /\ b[n].data.side = s /\ b[n].data.price = p
    /\ b[n].data.rem \in Nat /\ b[n].data.seq \in Nat
    /\ b[n].next = Nil /\ b[n].prev = lv.tail /\ b[n].parent = <<s, p>>
    /\ \A m \in Range(o) :
         /\ b[m].data = h[m].data /\ b[m].parent = h[m].parent /\ b[m].prev = h[m].prev
         /\ b[m].next = IF m = lv.tail THEN n ELSE h[m].next
         /\ h[m].data.seq < b[n].data.seq
    /\ w.total = lv.total + b[n].data.rem /\ w.tail = n
    /\ w.head = IF lv.tail = Nil THEN n ELSE lv.head

\* An order that comes last goes to the tail.
LEMMA LevelAppend ==
    ASSUME NEW h, NEW o, OrdersOK(h, o), NEW s, NEW p, NEW lv, IsLevel(h, o, s, p, lv),
           NEW id, id \notin DOMAIN o, NEW n, n \notin Range(o), n # Nil,
           NEW b, NEW c, NEW w, ComesLast(h, o, s, p, lv, id, n, b, c, w)
    PROVE  /\ IsLevel(b, c, s, p, w)
           /\ QueueOf(b, c, s, p) = QueueOf(h, o, s, p) \cup {n}
<1> DEFINE I == IdsOf(h, o, s, p)
           S == QueueOf(h, o, s, p)
<1>1. DOMAIN c = DOMAIN o \cup {id} /\ c[id] = n /\ \A i \in DOMAIN o : c[i] = o[i]
  BY DEF Bind, ComesLast
<1>2. \A i \in DOMAIN o : o[i] \in Range(o) /\ b[o[i]].data = h[o[i]].data
  BY DEF Range, ComesLast
<1>3. IdsOf(b, c, s, p) = I \cup {id} /\ id \notin I
  BY <1>1, <1>2 DEF IdsOf, ComesLast
<1>4. QueueOf(b, c, s, p) = S \cup {n}
  <2>1. Range(c) = Range(o) \cup {n}
    BY <1>1 DEF Range, ComesLast
  <2> QED
    BY <2>1 DEF QueueOf, ComesLast
<1>5. /\ Ordered(h, S) /\ IsFiniteSet(I) /\ S \subseteq Range(o)
      /\ [i \in I |-> h[o[i]].data.rem] \in [I -> Nat]
  <2>1. S \subseteq Range(o)
    BY DEF QueueOf, ComesLast
  <2> QED
    BY <2>1, QueueOrdered DEF ComesLast
<1>6. Volume(b, c, s, p) = w.total
  <2> DEFINE T == I \cup {id}
             f == [i \in I |-> h[o[i]].data.rem]
             g == [i \in T |-> b[c[i]].data.rem]
  <2>1. \A i \in I : g[i] = f[i]
    BY <1>1, <1>2 DEF IdsOf, ComesLast
  <2>2. g[id] = b[n].data.rem
    BY <1>1 DEF ComesLast
  <2>3. T \ {id} = I /\ id \in T /\ IsFiniteSet(T)
    BY <1>3, <1>5, FS_AddElement DEF ComesLast
  <2>4. f \in [I -> Nat]
    BY <1>5 DEF ComesLast
  <2>5. g \in [T -> Nat]
    <3>1. \A i \in T : g[i] \in Nat
      BY <2>1, <2>2, <2>4 DEF ComesLast
    <3> QED
      BY <3>1 DEF ComesLast
  <2> HIDE DEF f, g, T, I, S
  <2>6. f \in [T \ {id} -> Nat] /\ \A i \in T \ {id} : g[i] = f[i]
    BY <2>1, <2>3, <2>4 DEF ComesLast
  <2>7. Sum(g) = Sum(f) + g[id]
    BY <2>3, <2>5, <2>6, SumExtend
  <2>8. Volume(b, c, s, p) = Sum(g)
    BY <1>3 DEF Volume, g, T, I, ComesLast
  <2>9. lv.total = Sum(f)
    BY DEF IsLevel, Volume, f, I, ComesLast
  <2> QED
    BY <2>2, <2>7, <2>8, <2>9 DEF ComesLast
<1>7. List(b, S \cup {n}, w.head, w.tail)
  <2>1. List(h, S, lv.head, lv.tail)
    BY DEF IsLevel, ComesLast
  <2>2. n \notin S
    BY <1>5 DEF ComesLast
  <2>3. \A m \in S : /\ b[m].data.seq = h[m].data.seq
                     /\ b[m].prev = h[m].prev
                     /\ b[m].next = IF m = lv.tail THEN n ELSE h[m].next
    BY <1>5 DEF ComesLast
  <2>4. \A m \in S : h[m].data.seq < b[n].data.seq
    BY <1>5 DEF ComesLast
  <2>5. List(b, S \cup {n}, IF S = {} THEN n ELSE lv.head, n)
    <3>1. Appends(h, S, lv.tail, n, b)
      BY <2>3, <2>4 DEF Appends, ComesLast
    <3> HIDE DEF S
    <3> QED
      BY <1>5, <2>1, <2>2, <3>1, ListAppend
  <2>6. S = {} <=> lv.tail = Nil
    BY <1>5, <2>1 DEF List, Last, Ordered, ComesLast
  <2> QED
    BY <2>5, <2>6 DEF ComesLast
<1>8. \A m \in S \cup {n} : b[m].parent = <<s, p>>
  BY <1>5 DEF IsLevel, ComesLast
<1> QED
  BY <1>4, <1>6, <1>7, <1>8 DEF IsLevel, ComesLast

\* In b and c the order id has left the level lv, and w is what is left.
Leaves(h, o, lv, id, n, b, c, w) ==
    /\ c = Unbind(o, id)
    /\ \A m \in Range(o) \ {n} :
         /\ b[m].data = h[m].data /\ b[m].parent = h[m].parent
         /\ b[m].next = IF m = h[n].prev THEN h[n].next ELSE h[m].next
         /\ b[m].prev = IF m = h[n].next THEN h[n].prev ELSE h[m].prev
    /\ w.total = lv.total - h[n].data.rem
    /\ w.head = IF h[n].prev = Nil THEN h[n].next ELSE lv.head
    /\ w.tail = IF h[n].next = Nil THEN h[n].prev ELSE lv.tail

\* An order that leaves is unlinked from its neighbours.
LEMMA LevelRemove ==
    ASSUME NEW h, NEW o, OrdersOK(h, o), NEW s, NEW p, NEW lv, IsLevel(h, o, s, p, lv),
           NEW id \in IdsOf(h, o, s, p), NEW n, n = o[id],
           NEW b, NEW c, NEW w, Leaves(h, o, lv, id, n, b, c, w)
    PROVE  /\ IsLevel(b, c, s, p, w)
           /\ QueueOf(b, c, s, p) = QueueOf(h, o, s, p) \ {n}
           /\ w.total \in Nat
<1> DEFINE I == IdsOf(h, o, s, p)
           S == QueueOf(h, o, s, p)
<1>1. DOMAIN c = DOMAIN o \ {id} /\ \A i \in DOMAIN o \ {id} : c[i] = o[i]
  BY DEF Unbind, Restrict, Leaves
<1>2. id \in DOMAIN o /\ I \subseteq DOMAIN o
  BY DEF IdsOf, Leaves
<1>3. \A i \in DOMAIN o \ {id} : o[i] \in Range(o) /\ o[i] # n
  BY <1>2, OrdersInjective DEF Range, Leaves
<1>4. IdsOf(b, c, s, p) = I \ {id}
  BY <1>1, <1>3 DEF IdsOf, Leaves
<1>5. QueueOf(b, c, s, p) = S \ {n} /\ n \in S
  <2>1. Range(c) = Range(o) \ {n} /\ n \in Range(o)
    BY <1>1, <1>2, <1>3 DEF Range, Leaves
  <2>2. n \in S
    BY <2>1 DEF QueueOf, IdsOf, Leaves
  <2> QED
    BY <2>1, <2>2 DEF QueueOf, Leaves
<1>6. /\ Ordered(h, S) /\ IsFiniteSet(I) /\ S \subseteq Range(o)
      /\ [i \in I |-> h[o[i]].data.rem] \in [I -> Nat]
  <2>1. S \subseteq Range(o)
    BY DEF QueueOf, Leaves
  <2> QED
    BY <2>1, QueueOrdered DEF Leaves
<1>7. Volume(b, c, s, p) = w.total /\ w.total \in Nat
  <2> DEFINE f == [i \in I |-> h[o[i]].data.rem]
             g == [i \in I \ {id} |-> f[i]]
  <2>1. f \in [I -> Nat]
    BY <1>6 DEF Leaves
  <2>2. [i \in I \ {id} |-> b[c[i]].data.rem] = g
    BY <1>1, <1>2, <1>3 DEF Leaves
  <2>3. Volume(b, c, s, p) = Sum(g)
    BY <1>4, <2>2 DEF Volume, Leaves
  <2>4. f[id] = h[n].data.rem
    BY DEF Leaves
  <2>5. lv.total = Sum(f)
    BY DEF IsLevel, Volume, Leaves
  <2>6. g \in [I \ {id} -> Nat] /\ IsFiniteSet(I \ {id})
    BY <1>6, FS_RemoveElement DEF Leaves
  <2> HIDE DEF f, I
  <2>7. Sum(f) = Sum(g) + f[id]
    BY <1>6, <2>1, SumSplit DEF I
  <2> HIDE DEF g
  <2>8. Sum(g) \in Nat /\ f[id] \in Nat
    BY <2>1, <2>6, SumType DEF I
  <2> QED
    BY <2>3, <2>4, <2>5, <2>7, <2>8 DEF Leaves
<1>8. List(b, S \ {n}, w.head, w.tail)
  <2>1. List(h, S, lv.head, lv.tail)
    BY DEF IsLevel, Leaves
  <2>2. \A m \in S \ {n} :
          /\ b[m].data.seq = h[m].data.seq
          /\ b[m].next = IF m = h[n].prev THEN h[n].next ELSE h[m].next
          /\ b[m].prev = IF m = h[n].next THEN h[n].prev ELSE h[m].prev
    BY <1>6 DEF Leaves
  <2> HIDE DEF S
  <2>4. Removes(h, S, n, b)
    BY <2>2 DEF Removes, Leaves
  <2>3. List(b, S \ {n}, IF h[n].prev = Nil THEN h[n].next ELSE lv.head,
                         IF h[n].next = Nil THEN h[n].prev ELSE lv.tail)
    BY <1>5, <1>6, <2>1, <2>4, ListRemove
  <2> QED
    BY <2>3 DEF Leaves
<1>9. \A m \in S \ {n} : b[m].parent = <<s, p>>
  BY <1>6 DEF IsLevel, Leaves
<1> QED
  BY <1>5, <1>7, <1>8, <1>9 DEF IsLevel, Leaves

\* In b the order at n has q less left, and w is what that makes of lv.
Shrinks(h, o, s, p, lv, n, b, q, w) ==
    /\ \A m \in Range(o) \ {n} : b[m] = h[m]
    /\ b[n].next = h[n].next /\ b[n].prev = h[n].prev /\ b[n].parent = h[n].parent
    /\ b[n].data.side = s /\ b[n].data.price = p /\ b[n].data.seq = h[n].data.seq
    /\ q \in Nat /\ h[n].data.rem - q \in Nat /\ b[n].data.rem = h[n].data.rem - q
    /\ w.total = lv.total - q /\ w.head = lv.head /\ w.tail = lv.tail

\* An order that is filled in part stays where it is.
LEMMA LevelReduce ==
    ASSUME NEW h, NEW o, OrdersOK(h, o), NEW s, NEW p, NEW lv, IsLevel(h, o, s, p, lv),
           NEW id \in IdsOf(h, o, s, p), NEW n, n = o[id],
           NEW b, NEW q, NEW w, Shrinks(h, o, s, p, lv, n, b, q, w)
    PROVE  /\ IsLevel(b, o, s, p, w)
           /\ QueueOf(b, o, s, p) = QueueOf(h, o, s, p)
           /\ w.total \in Nat
<1> DEFINE I == IdsOf(h, o, s, p)
           S == QueueOf(h, o, s, p)
<1>1. id \in DOMAIN o /\ I \subseteq DOMAIN o /\ h[n].data.side = s /\ h[n].data.price = p
  BY DEF IdsOf, Shrinks
<1>2. \A i \in DOMAIN o \ {id} : o[i] \in Range(o) /\ o[i] # n
  BY <1>1, OrdersInjective DEF Range, Shrinks
<1>3. \A i \in DOMAIN o : /\ b[o[i]].data.side = h[o[i]].data.side
                          /\ b[o[i]].data.price = h[o[i]].data.price
  BY <1>1, <1>2 DEF Shrinks
<1>4. IdsOf(b, o, s, p) = I
  BY <1>3 DEF IdsOf, Shrinks
<1>5. QueueOf(b, o, s, p) = S
  BY <1>3 DEF QueueOf, Range, Shrinks
<1>6. IsFiniteSet(I) /\ S \subseteq Range(o) /\ [i \in I |-> h[o[i]].data.rem] \in [I -> Nat]
  BY QueueOrdered DEF QueueOf, Shrinks
<1>7. Volume(b, o, s, p) = w.total /\ w.total \in Nat
  <2> DEFINE f == [i \in I |-> h[o[i]].data.rem]
             g == [i \in I |-> b[o[i]].data.rem]
  <2>1. f \in [I -> Nat]
    BY <1>6 DEF Shrinks
  <2>2. \A i \in I \ {id} : g[i] = f[i]
    BY <1>1, <1>2 DEF Shrinks
  <2>3. g[id] = f[id] - q /\ f[id] - q \in Nat
    BY DEF Shrinks
  <2>4. g \in [I -> Nat]
    <3>1. \A i \in I : g[i] \in Nat
      BY <2>1, <2>2, <2>3 DEF Shrinks
    <3> QED
      BY <3>1 DEF Shrinks
  <2>5. Volume(b, o, s, p) = Sum(g)
    BY <1>4 DEF Volume, Shrinks
  <2>6. lv.total = Sum(f)
    BY DEF IsLevel, Volume, Shrinks
  <2> HIDE DEF f, g, I
  <2>7. Sum(g) = Sum(f) - f[id] + g[id]
    BY <1>6, <2>1, <2>2, <2>4, SumUpdate DEF I
  <2>8. Sum(g) \in Nat /\ Sum(f) \in Nat /\ f[id] \in Nat
    BY <1>6, <2>1, <2>4, SumType DEF I
  <2> QED
    BY <2>3, <2>5, <2>6, <2>7, <2>8 DEF Shrinks
<1>8. List(b, S, w.head, w.tail) /\ \A m \in S : b[m].parent = <<s, p>>
  <2>1. List(h, S, lv.head, lv.tail)
    BY DEF IsLevel, Shrinks
  <2>2. \A m \in S : /\ b[m].data.seq = h[m].data.seq
                     /\ b[m].next = h[m].next /\ b[m].prev = h[m].prev
                     /\ b[m].parent = h[m].parent
    BY <1>6 DEF Shrinks
  <2> HIDE DEF S
  <2>3. List(b, S, lv.head, lv.tail)
    BY <2>1, <2>2, ListSame DEF Shrinks
  <2> QED
    BY <2>2, <2>3 DEF IsLevel, S, Shrinks
<1> QED
  BY <1>5, <1>7, <1>8 DEF IsLevel, Shrinks

-----------------------------------------------------------------------------
(* Books *)

\* The orders on a book as LimitBook knows them.
RestingOf(h, o) == [id \in DOMAIN o |-> AsResting(h[o[id]].data, h[o[id]].data.rem)]

\* The orders of a side and a price, which the heap b has as h does.
Untouched(h, o, b, c, s, p) ==
    /\ IdsOf(b, c, s, p) = IdsOf(h, o, s, p)
    /\ \A id \in IdsOf(h, o, s, p) : c[id] = o[id] /\ b[o[id]] = h[o[id]]

\* A side changes at one price at a time.
ChangesAt(l, m, s, p) ==
    /\ DOMAIN m[s] \subseteq Prices
    /\ \A q \in Prices \ {p} : (q \in DOMAIN m[s] <=> q \in DOMAIN l[s])
                               /\ (q \in DOMAIN l[s] => m[s][q] = l[s][q])

LEMMA SideChanged ==
    ASSUME NEW h, NEW o, NEW l, NEW x, NEW s, OrdersOK(h, o), SideOK(h, o, l, x, s),
           NEW b, NEW c, NEW m, NEW y, NEW p \in Prices,
           \A q \in Prices \ {p} : Untouched(h, o, b, c, s, q),
           ChangesAt(l, m, s, p), Indexes(y[s], s, DOMAIN m[s]),
           p \in DOMAIN m[s] <=> QueueOf(b, c, s, p) # {},
           p \in DOMAIN m[s] => m[s][p] \in LevelState /\ IsLevel(b, c, s, p, m[s][p])
    PROVE  SideOK(b, c, m, y, s)
<1>1. ASSUME NEW q \in Prices \ {p}
      PROVE  /\ QueueOf(b, c, s, q) = QueueOf(h, o, s, q)
             /\ \A lv : IsLevel(h, o, s, q, lv) => IsLevel(b, c, s, q, lv)
  <2>1. /\ IdsOf(b, c, s, q) = IdsOf(h, o, s, q)
        /\ \A id \in IdsOf(h, o, s, q) : c[id] = o[id] /\ b[o[id]] = h[o[id]]
    BY DEF Untouched
  <2>2. ASSUME NEW lv, IsLevel(h, o, s, q, lv) PROVE IsLevel(b, c, s, q, lv)
    BY <2>1, <2>2, SameLevel
  <2>3. QueueOf(b, c, s, q) = QueueOf(h, o, s, q)
    <3>1. \A n : n \in QueueOf(h, o, s, q) <=> \E id \in IdsOf(h, o, s, q) : n = o[id]
      BY DEF QueueOf, IdsOf, Range
    <3>2. \A n : n \in QueueOf(b, c, s, q) <=> \E id \in IdsOf(b, c, s, q) : n = c[id]
      BY DEF QueueOf, IdsOf, Range
    <3> QED
      BY <2>1, <3>1, <3>2
  <2> QED
    BY <2>2, <2>3
<1>2. DOMAIN m[s] = {q \in Prices : QueueOf(b, c, s, q) # {}}
  BY <1>1 DEF SideOK, ChangesAt
<1>3. ASSUME NEW q \in DOMAIN m[s], q # p
      PROVE  m[s][q] \in LevelState /\ IsLevel(b, c, s, q, m[s][q])
  <2>1. q \in Prices \ {p} /\ q \in DOMAIN l[s] /\ m[s][q] = l[s][q]
    BY <1>3 DEF ChangesAt
  <2>2. l[s][q] \in LevelState /\ IsLevel(h, o, s, q, l[s][q])
    BY <2>1 DEF SideOK
  <2> QED
    BY <1>1, <2>1, <2>2
<1> QED
  BY <1>2, <1>3 DEF SideOK

LEMMA SideSame ==
    ASSUME NEW h, NEW o, NEW l, NEW x, NEW s, OrdersOK(h, o), SideOK(h, o, l, x, s),
           NEW b, NEW c, NEW m, NEW y, m[s] = l[s], y[s] = x[s],
           \A q \in Prices : Untouched(h, o, b, c, s, q)
    PROVE  SideOK(b, c, m, y, s)
<1>1. CASE Prices = {}
  BY <1>1 DEF SideOK
<1>2. CASE Prices # {}
  <2>1. PICK p : p \in Prices
    BY <1>2
  <2>2. ChangesAt(l, m, s, p)
    BY DEF ChangesAt, SideOK
  <2>3. /\ DOMAIN m[s] = {q \in Prices : QueueOf(h, o, s, q) # {}}
        /\ Indexes(y[s], s, DOMAIN m[s])
    BY DEF SideOK
  <2>4. /\ IdsOf(b, c, s, p) = IdsOf(h, o, s, p)
        /\ \A id \in IdsOf(h, o, s, p) : c[id] = o[id] /\ b[o[id]] = h[o[id]]
    BY <2>1 DEF Untouched
  <2>5. QueueOf(b, c, s, p) = QueueOf(h, o, s, p)
    <3>1. \A n : n \in QueueOf(h, o, s, p) <=> \E id \in IdsOf(h, o, s, p) : n = o[id]
      BY DEF QueueOf, IdsOf, Range
    <3>2. \A n : n \in QueueOf(b, c, s, p) <=> \E id \in IdsOf(b, c, s, p) : n = c[id]
      BY DEF QueueOf, IdsOf, Range
    <3> QED
      BY <2>4, <3>1, <3>2
  <2>6. ASSUME p \in DOMAIN m[s] PROVE m[s][p] \in LevelState /\ IsLevel(b, c, s, p, m[s][p])
    <3>1. m[s][p] \in LevelState /\ IsLevel(h, o, s, p, m[s][p])
      BY <2>6 DEF SideOK
    <3> QED
      BY <2>4, <3>1, SameLevel
  <2> QED
    BY <2>1, <2>2, <2>3, <2>5, <2>6, SideChanged
<1> QED
  BY <1>1, <1>2

\* What happens to nodes that are not on the book does not matter.
LEMMA BookFrame ==
    ASSUME NEW h, NEW o, NEW l, NEW x, BookOK(h, o, l, x),
           NEW b \in [Nodes -> NodeState], \A n \in Range(o) : b[n] = h[n]
    PROVE  BookOK(b, o, l, x) /\ RestingOf(b, o) = RestingOf(h, o)
<1>1. \A id \in DOMAIN o : b[o[id]] = h[o[id]]
  BY DEF Range
<1>2. OrdersOK(b, o)
  BY <1>1 DEF BookOK, OrdersOK
<1>3. \A s, p : Untouched(h, o, b, o, s, p)
  BY <1>1 DEF Untouched, IdsOf
<1>4. ASSUME NEW s \in Sides PROVE SideOK(b, o, l, x, s)
  <2>1. OrdersOK(h, o) /\ SideOK(h, o, l, x, s)
    BY DEF BookOK
  <2> QED
    BY <1>3, <2>1, SideSame
<1>5. RestingOf(b, o) = RestingOf(h, o)
  BY <1>1 DEF RestingOf
<1> QED
  BY <1>2, <1>4, <1>5 DEF BookOK

\* What addOrderInternal finds at the level of a new order.
LevelFor(s, p) ==
    IF p \notin DOMAIN level[s] THEN [total |-> 0, head |-> Nil, tail |-> Nil] ELSE level[s][p]

LEMMA LevelFound ==
    ASSUME Shape, NEW s \in Sides, NEW p \in Prices, NEW lv, lv = LevelFor(s, p)
    PROVE  /\ IsLevel(node, orders, s, p, lv) /\ lv.total \in Nat /\ lv.head \in Pointer
           /\ lv.tail # Nil => lv.tail \in QueueOf(node, orders, s, p) /\ lv.head \in Nodes
           /\ lv.tail = Nil => QueueOf(node, orders, s, p) = {}
<1>1. OrdersOK(node, orders) /\ SideOK(node, orders, level, index, s)
  BY DEF Shape, BookOK
<1>2. IsLevel(node, orders, s, p, lv) /\ lv.total \in Nat /\ lv.head \in Pointer
      /\ (lv.tail # Nil => lv.head \in Nodes)
  <2>1. CASE p \in DOMAIN level[s]
    <3>1. lv = level[s][p]
      BY <2>1 DEF LevelFor
    <3>2. level[s][p] \in LevelState /\ IsLevel(node, orders, s, p, level[s][p])
      BY <1>1, <2>1 DEF SideOK
    <3> QED
      BY <3>1, <3>2 DEF LevelState, Pointer
  <2>2. CASE p \notin DOMAIN level[s]
    <3>1. lv = [total |-> 0, head |-> Nil, tail |-> Nil]
      BY <2>2 DEF LevelFor
    <3>2. QueueOf(node, orders, s, p) = {}
      BY <1>1, <2>2 DEF SideOK
    <3>3. IsLevel(node, orders, s, p, lv)
      BY <3>1, <3>2, EmptyLevel
    <3> QED
      BY <3>1, <3>3 DEF Pointer
  <2> QED
    BY <2>1, <2>2
<1>3. Nil \notin QueueOf(node, orders, s, p)
  BY <1>1, QueueOrdered DEF Ordered
<1>4. Last(node, lv.tail, QueueOf(node, orders, s, p))
  BY <1>2 DEF IsLevel, List
<1> QED
  BY <1>2, <1>3, <1>4 DEF Last

\* An order goes on the book.
LEMMA AddShape ==
    ASSUME Shape, NEW n \in Nodes, n \notin Range(orders),
           node[n].next = Nil, node[n].prev = Nil,
           NEW d \in OrderData, d.rem > 0, d.id \notin DOMAIN orders,
           \A id \in DOMAIN orders : node[orders[id]].data.seq < d.seq,
           AddOrder(n, d)
    PROVE  /\ Shape' /\ Resting' = Bind(Resting, d.id, AsResting(d, d.rem))
           /\ node'[n].data = d
           /\ \A m \in Nodes \ {n} : m \notin Range(orders) => node'[m] = node[m]
           /\ \A m \in Nodes \ {n} : node'[m].data = node[m].data
<1> DEFINE s == d.side
           p == d.price
           lv == LevelFor(s, p)
           last == lv.tail
           Q == QueueOf(node, orders, s, p)
           w == [total |-> lv.total + d.rem, tail |-> n,
                 head |-> IF last = Nil THEN n ELSE lv.head]
<1>1. /\ OrdersOK(node, orders) /\ DOMAIN level = Sides /\ DOMAIN index = Sides
      /\ \A t \in Sides : SideOK(node, orders, level, index, t)
  BY DEF Shape, BookOK
<1>2. /\ s \in Sides /\ p \in Prices /\ d.rem \in Nat /\ d.seq \in Nat /\ d.id \in OrderIds
  BY DataTypes
<1>3. /\ index' = IF p \notin DOMAIN level[s]
                  THEN [index EXCEPT ![s] = InsertedAt(index[s], Position(s, p), p)] ELSE index
      /\ level' = [level EXCEPT ![s] = Bind(level[s], p, w)]
      /\ node' = [m \in Nodes |->
              IF m = n THEN Behind([node[n] EXCEPT !.data = d, !.parent = <<s, p>>], last)
              ELSE IF m = last THEN [node[m] EXCEPT !.next = n]
              ELSE node[m]]
      /\ orders' = Bind(orders, d.id, n)
  BY DEF AddOrder, LevelFor
<1>4. /\ IsLevel(node, orders, s, p, lv) /\ lv.total \in Nat /\ lv.head \in Pointer
      /\ last # Nil => last \in Q /\ lv.head \in Nodes
      /\ last = Nil => Q = {}
  BY <1>2, LevelFound
<1>5. /\ Q \subseteq Range(orders) /\ Nil \notin Nodes
      /\ node \in [Nodes -> NodeState] /\ orders \in [DOMAIN orders -> Nodes]
      /\ \A id \in DOMAIN orders : orders[id] \in Range(orders)
  BY <1>1, AddressAssumption DEF QueueOf, OrdersOK, Range
<1>6. last # n /\ last \in Pointer /\ n # Nil
  <2>1. Range(orders) \subseteq Nodes
    BY <1>5 DEF Range
  <2>2. last # Nil => last \in Range(orders)
    BY <1>4, <1>5
  <2> QED
    BY <1>5, <2>1, <2>2 DEF Pointer
<1> HIDE DEF lv, w, Q
<1>7. /\ node'[n].data = d /\ node'[n].parent = <<s, p>>
      /\ node'[n].next = Nil /\ node'[n].prev = last /\ node'[n] \in NodeState
  <2> DEFINE e == [node[n] EXCEPT !.data = d, !.parent = <<s, p>>]
  <2>1. node'[n] = Behind(e, last)
    BY <1>3
  <2>2. node[n] \in NodeState
    BY <1>5
  <2>3. /\ e \in NodeState /\ e.data = d /\ e.parent = <<s, p>>
        /\ e.next = Nil /\ e.prev = Nil
    BY <1>2, <2>2 DEF NodeState
  <2> HIDE DEF e
  <2>4. CASE last = Nil
    BY <2>1, <2>3, <2>4 DEF Behind
  <2>5. CASE last # Nil
    <3>1. node'[n] = [e EXCEPT !.prev = last]
      BY <2>1, <2>5 DEF Behind
    <3> QED
      BY <1>6, <2>3, <3>1 DEF NodeState
  <2> QED
    BY <2>4, <2>5
<1>8. ASSUME NEW m \in Nodes, m # n
      PROVE  /\ m # last => node'[m] = node[m]
             /\ node'[m] \in NodeState
             /\ node'[m].data = node[m].data /\ node'[m].parent = node[m].parent
             /\ node'[m].prev = node[m].prev
             /\ node'[m].next = IF m = last THEN n ELSE node[m].next
  <2>1. node'[m] = IF m = last THEN [node[m] EXCEPT !.next = n] ELSE node[m]
    BY <1>3, <1>8
  <2>2. node[m] \in NodeState
    BY <1>5
  <2>3. [node[m] EXCEPT !.next = n] \in NodeState
    BY <2>2 DEF NodeState, Pointer
  <2> QED
    BY <2>1, <2>2, <2>3 DEF NodeState
<1>9. node' \in [Nodes -> NodeState]
  <2>1. \A m \in Nodes : node'[m] \in NodeState
    BY <1>7, <1>8
  <2>2. DOMAIN node' = Nodes /\ node' = [m \in Nodes |-> node'[m]]
    BY <1>3
  <2> QED
    BY <2>1, <2>2
<1>10. /\ DOMAIN orders' = DOMAIN orders \cup {d.id} /\ orders'[d.id] = n
       /\ \A id \in DOMAIN orders : orders'[id] = orders[id] /\ orders[id] \in Nodes /\ orders[id] # n
       /\ orders' = [id \in DOMAIN orders' |-> orders'[id]]
  BY <1>3, <1>5 DEF Bind
<1>11. \A id \in DOMAIN orders : node'[orders'[id]].data = node[orders[id]].data
  BY <1>8, <1>10
<1>12. node'[orders'[d.id]].data = d
  BY <1>7, <1>10
<1>13. OrdersOK(node', orders')
  <2>1. orders' \in [DOMAIN orders' -> Nodes]
    BY <1>10
  <2>2. IsFiniteSet(DOMAIN orders')
    BY <1>1, <1>10, FS_AddElement DEF OrdersOK
  <2>3. ASSUME NEW id \in DOMAIN orders'
        PROVE  /\ node'[orders'[id]].data \in OrderData /\ node'[orders'[id]].data.id = id
               /\ node'[orders'[id]].data.rem > 0
    <3>1. CASE id = d.id
      BY <1>12, <3>1
    <3>2. CASE id # d.id
      BY <1>1, <1>10, <1>11, <3>2 DEF OrdersOK
    <3> QED
      BY <3>1, <3>2
  <2>4. ASSUME NEW i \in DOMAIN orders', NEW j \in DOMAIN orders',
               node'[orders'[i]].data.seq = node'[orders'[j]].data.seq
        PROVE  i = j
    <3>1. \A id \in DOMAIN orders : node[orders[id]].data.seq \in Nat
      BY <1>1, BookedTypes
    <3>2. CASE i \in DOMAIN orders /\ j \in DOMAIN orders
      BY <1>1, <1>11, <2>4, <3>2 DEF OrdersOK
    <3>3. CASE i = d.id /\ j \in DOMAIN orders
      BY <1>2, <1>11, <1>12, <2>4, <3>1, <3>3
    <3>4. CASE j = d.id /\ i \in DOMAIN orders
      BY <1>2, <1>11, <1>12, <2>4, <3>1, <3>4
    <3> QED
      BY <1>10, <3>2, <3>3, <3>4
  <2> QED
    BY <1>9, <2>1, <2>2, <2>3, <2>4 DEF OrdersOK
<1>14. /\ level'[s] = Bind(level[s], p, w) /\ DOMAIN level' = Sides /\ DOMAIN index' = Sides
       /\ \A t \in Sides \ {s} : level'[t] = level[t] /\ index'[t] = index[t]
       /\ DOMAIN level'[s] = DOMAIN level[s] \cup {p} /\ level'[s][p] = w
       /\ \A q \in DOMAIN level[s] \ {p} : level'[s][q] = level[s][q]
  BY <1>1, <1>2, <1>3 DEF Bind
<1>15. ComesLast(node, orders, s, p, lv, d.id, n, node', orders', w)
  <2>1. \A m \in Range(orders) : m \in Nodes /\ m # n /\ node[m].data.seq < d.seq
    BY <1>5 DEF Range
  <2>2. \A m \in Range(orders) :
          /\ node'[m].data = node[m].data /\ node'[m].parent = node[m].parent
          /\ node'[m].prev = node[m].prev
          /\ node'[m].next = IF m = last THEN n ELSE node[m].next
          /\ node[m].data.seq < node'[n].data.seq
    BY <1>7, <1>8, <2>1
  <2>3. /\ w.total = lv.total + node'[n].data.rem /\ w.tail = n
        /\ w.head = IF last = Nil THEN n ELSE lv.head
    BY <1>7 DEF w
  <2>4. /\ node'[n].data.side = s /\ node'[n].data.price = p
        /\ node'[n].data.rem \in Nat /\ node'[n].data.seq \in Nat
    BY <1>2, <1>7
  <2> HIDE DEF s, p
  <2> QED
    BY <1>3, <1>7, <2>2, <2>3, <2>4 DEF ComesLast
<1>16. /\ IsLevel(node', orders', s, p, w)
       /\ QueueOf(node', orders', s, p) = Q \cup {n}
  <2>1. n \notin Range(orders) /\ d.id \notin DOMAIN orders
    OBVIOUS
  <2> HIDE DEF s, p
  <2> QED
    BY <1>1, <1>4, <1>6, <1>15, <2>1, LevelAppend DEF Q
<1>17. w \in LevelState
  BY <1>2, <1>4 DEF w, LevelState
<1>18. ASSUME NEW t \in Sides, NEW q \in Prices, t # s \/ q # p
       PROVE  Untouched(node, orders, node', orders', t, q)
  <2>1. d.id \notin IdsOf(node', orders', t, q)
    BY <1>12, <1>18 DEF IdsOf
  <2>2. IdsOf(node', orders', t, q) = IdsOf(node, orders, t, q)
    BY <1>10, <1>11, <2>1 DEF IdsOf
  <2>3. ASSUME NEW id \in IdsOf(node, orders, t, q)
        PROVE  orders'[id] = orders[id] /\ node'[orders[id]] = node[orders[id]]
    <3>1. id \in DOMAIN orders /\ node[orders[id]].data.side = t /\ node[orders[id]].data.price = q
      BY DEF IdsOf
    <3>2. last # Nil => node[last].data.side = s /\ node[last].data.price = p
      BY <1>4 DEF Q, QueueOf
    <3>3. orders[id] # last
      BY <1>5, <1>10, <1>18, <3>1, <3>2
    <3> QED
      BY <1>8, <1>10, <3>1, <3>3
  <2> QED
    BY <2>2, <2>3 DEF Untouched
<1>19. ASSUME NEW t \in Sides, t # s
       PROVE  SideOK(node', orders', level', index', t)
  <2>1. \A q \in Prices : Untouched(node, orders, node', orders', t, q)
    BY <1>18, <1>19
  <2>2. level'[t] = level[t] /\ index'[t] = index[t]
    BY <1>14, <1>19
  <2>3. OrdersOK(node, orders) /\ SideOK(node, orders, level, index, t)
    BY <1>1
  <2> QED
    BY <2>1, <2>2, <2>3, SideSame
<1>20. SideOK(node', orders', level', index', s)
  <2>1. OrdersOK(node, orders) /\ SideOK(node, orders, level, index, s)
    BY <1>1, <1>2
  <2>2. \A q \in Prices \ {p} : Untouched(node, orders, node', orders', s, q)
    BY <1>2, <1>18
  <2>3. ChangesAt(level, level', s, p)
    BY <1>2, <1>14, <2>1 DEF ChangesAt, SideOK
  <2>4. Indexes(index'[s], s, DOMAIN level'[s])
    <3>1. Indexes(index[s], s, DOMAIN level[s])
      BY <2>1 DEF SideOK
    <3>2. CASE p \in DOMAIN level[s]
      <4>1. index' = index /\ DOMAIN level'[s] = DOMAIN level[s]
        BY <1>3, <1>14, <3>2
      <4> QED
        BY <3>1, <4>1
    <3>3. CASE p \notin DOMAIN level[s]
      <4>1. index'[s] = InsertedAt(index[s], Position(s, p), p)
        BY <1>1, <1>2, <1>3, <3>3
      <4>2. Position(s, p) = Cardinality({k \in DOMAIN index[s] : Better(s, index[s][k], p)}) + 1
        BY DEF Position
      <4>3. Indexes(InsertedAt(index[s], Position(s, p), p), s, DOMAIN level[s] \cup {p})
        BY <1>2, <3>1, <3>3, <4>2, IndexInsert
      <4> QED
        BY <1>14, <4>1, <4>3
    <3> QED
      BY <3>2, <3>3
  <2>5. p \in DOMAIN level'[s] /\ QueueOf(node', orders', s, p) # {}
    BY <1>14, <1>16
  <2>6. level'[s][p] \in LevelState /\ IsLevel(node', orders', s, p, level'[s][p])
    BY <1>14, <1>16, <1>17
  <2> HIDE DEF s, p
  <2>7. p \in Prices
    BY <1>2
  <2> QED
    BY <2>1, <2>2, <2>3, <2>4, <2>5, <2>6, <2>7, SideChanged
<1>21. Shape'
  <2>1. \A t \in Sides : SideOK(node', orders', level', index', t)
    BY <1>19, <1>20
  <2> QED
    BY <1>13, <1>14, <2>1 DEF Shape, BookOK
<1>22. Resting' = Bind(Resting, d.id, AsResting(d, d.rem))
  BY <1>10, <1>11, <1>12 DEF Resting, Bind
<1>23. \A m \in Nodes \ {n} : m \notin Range(orders) => node'[m] = node[m]
  BY <1>4, <1>5, <1>8
<1> QED
  BY <1>7, <1>8, <1>21, <1>22, <1>23

\* The order id has the node n in the queue of s and p; its neighbours are
\* nil or there as well.
AtLevel(id, n, s, p) ==
    /\ s \in Sides /\ p \in DOMAIN level[s] /\ p \in Prices /\ node[n].parent = <<s, p>>
    /\ level[s][p] \in LevelState /\ IsLevel(node, orders, s, p, level[s][p])
    /\ id \in IdsOf(node, orders, s, p) /\ n \in QueueOf(node, orders, s, p)
    /\ node[n].data.id = id
    /\ First(node, node[n].next, After(node, n, QueueOf(node, orders, s, p)))
    /\ Last(node, node[n].prev, Ahead(node, n, QueueOf(node, orders, s, p)))
    /\ node[n].next # Nil => node[n].next \in QueueOf(node, orders, s, p) \ {n}
    /\ node[n].prev # Nil => node[n].prev \in QueueOf(node, orders, s, p) \ {n}
    /\ node[n].prev # Nil => node[n].prev # node[n].next

\* Every order on the book is at its level.
LEMMA Neighbours ==
    ASSUME Shape, NEW id \in DOMAIN orders
    PROVE  AtLevel(id, orders[id], node[orders[id]].data.side, node[orders[id]].data.price)
<1> DEFINE n == orders[id]
           s == node[n].data.side
           p == node[n].data.price
           Q == QueueOf(node, orders, s, p)
<1>1. OrdersOK(node, orders)
  BY DEF Shape, BookOK
<1>2. s \in Sides /\ p \in Prices /\ n \in Range(orders) /\ n \in Nodes /\ node[n].data.id = id
  BY <1>1, BookedTypes
<1>3. n \in Q /\ id \in IdsOf(node, orders, s, p)
  BY <1>2 DEF QueueOf, IdsOf
<1>4. SideOK(node, orders, level, index, s)
  BY <1>2 DEF Shape, BookOK
<1>5. p \in DOMAIN level[s]
  BY <1>2, <1>3, <1>4 DEF SideOK
<1>6. level[s][p] \in LevelState /\ IsLevel(node, orders, s, p, level[s][p])
  BY <1>4, <1>5 DEF SideOK
<1>7. /\ First(node, node[n].next, After(node, n, Q))
      /\ Last(node, node[n].prev, Ahead(node, n, Q))
      /\ node[n].parent = <<s, p>>
  BY <1>3, <1>6 DEF IsLevel, List
<1>8. Ordered(node, Q)
  BY <1>1, QueueOrdered
<1>9. \A m \in After(node, n, Q) : m \in Q \ {n} /\ m \notin Ahead(node, n, Q)
  BY <1>3, <1>8 DEF After, Ahead, Ordered
<1>10. \A m \in Ahead(node, n, Q) : m \in Q \ {n}
  BY <1>3, <1>8 DEF Ahead, Ordered
<1>11. /\ node[n].next # Nil => node[n].next \in After(node, n, Q)
       /\ node[n].prev # Nil => node[n].prev \in Ahead(node, n, Q)
  BY <1>7 DEF First, Last
<1> QED
  BY <1>2, <1>3, <1>5, <1>6, <1>7, <1>9, <1>10, <1>11 DEF AtLevel

\* h is the heap with other contents of the order of n, and other nodes that
\* are not on the book.
SameBook(h, n) ==
    /\ h \in [Nodes -> NodeState]
    /\ h[n].next = node[n].next /\ h[n].prev = node[n].prev /\ h[n].parent = node[n].parent
    /\ h[n].data.side = node[n].data.side /\ h[n].data.price = node[n].data.price
    /\ h[n].data.id = node[n].data.id
    /\ \A m \in Range(orders) \ {n} : h[m] = node[m]

\* n is the node of the order id, and v the volume without it.
IsRemoval(id, n, s, p, v) ==
    /\ id \in DOMAIN orders /\ n = orders[id]
    /\ s = node[orders[id]].data.side /\ p = node[orders[id]].data.price
    /\ v = level[s][p].total - node[n].data.rem

\* An order leaves the book.
LEMMA RemoveShape ==
    ASSUME Shape, NEW id, NEW n, NEW s, NEW p, NEW h, NEW v,
           IsRemoval(id, n, s, p, v), SameBook(h, n), RemoveOrder(n, h, v)
    PROVE  /\ Shape' /\ Resting' = Unbind(Resting, id)
           /\ orders' = Unbind(orders, id) /\ Range(orders') = Range(orders) \ {n}
           /\ pool' = pool \cup {n}
           /\ node'[n] = Detached(h[n].data)
           /\ \A m \in Nodes \ {n} : m \notin Range(orders) => node'[m] = h[m]
           /\ \A m \in Nodes \ {n} : node'[m].data = h[m].data
<1> DEFINE lv == level[s][p]
           before == node[n].prev
           after == node[n].next
           Q == QueueOf(node, orders, s, p)
           w == [total |-> v,
                 head |-> IF before = Nil THEN after ELSE lv.head,
                 tail |-> IF after = Nil THEN before ELSE lv.tail]
<1>1. /\ OrdersOK(node, orders) /\ DOMAIN level = Sides /\ DOMAIN index = Sides
      /\ \A t \in Sides : SideOK(node, orders, level, index, t)
  BY DEF Shape, BookOK
<1>2. /\ s \in Sides /\ p \in DOMAIN level[s] /\ p \in Prices /\ node[n].parent = <<s, p>>
      /\ lv \in LevelState /\ IsLevel(node, orders, s, p, lv)
      /\ id \in IdsOf(node, orders, s, p) /\ n \in Q
      /\ after # Nil => after \in Q \ {n}
      /\ before # Nil => before \in Q \ {n}
      /\ before # Nil => before # after
      /\ node[n].data.id = id /\ id \in DOMAIN orders /\ n = orders[id]
      /\ v = lv.total - node[n].data.rem
  <2>1. /\ id \in DOMAIN orders /\ n = orders[id]
        /\ s = node[orders[id]].data.side /\ p = node[orders[id]].data.price
        /\ v = level[s][p].total - node[n].data.rem
    BY DEF IsRemoval
  <2>2. AtLevel(id, orders[id], node[orders[id]].data.side, node[orders[id]].data.price)
    BY <2>1, Neighbours
  <2>3. AtLevel(id, n, s, p)
    BY <2>1, <2>2
  <2> QED
    BY <2>1, <2>3 DEF AtLevel
<1>3. /\ h \in [Nodes -> NodeState]
      /\ h[n].next = after /\ h[n].prev = before /\ h[n].parent = <<s, p>>
      /\ h[n].data.side = s /\ h[n].data.price = p /\ h[n].data.id = id
      /\ \A m \in Range(orders) \ {n} : h[m] = node[m]
  <2>1. node[n].data.side = s /\ node[n].data.price = p
    BY <1>2 DEF IdsOf
  <2> QED
    BY <1>2, <2>1 DEF SameBook
<1>4. /\ node' = [m \in Nodes |->
              IF m = n THEN Cleared(h[n])
              ELSE IF m = before THEN [h[m] EXCEPT !.next = after]
              ELSE IF m = after THEN [h[m] EXCEPT !.prev = before]
              ELSE h[m]]
      /\ orders' = Unbind(orders, id)
      /\ IF Emptied(w)
         THEN /\ level' = [level EXCEPT ![s] = Unbind(level[s], p)]
              /\ index' = [index EXCEPT ![s] = Unindexed(s, p)]
         ELSE /\ level' = [level EXCEPT ![s][p] = w]
              /\ index' = index
      /\ pool' = pool \cup {n}
  <2>1. h[n].parent[1] = s
    <3>1. \A a : \A b : \A e : e = <<a, b>> => e[1] = a
      OBVIOUS
    <3> QED
      BY <1>3, <3>1
  <2> QED
    BY <1>3, <2>1 DEF RemoveOrder
<1>5. /\ Q \subseteq Range(orders) /\ Nil \notin Nodes /\ n \in Nodes /\ Range(orders) \subseteq Nodes
      /\ orders \in [DOMAIN orders -> Nodes]
  <2>1. orders \in [DOMAIN orders -> Nodes]
    BY <1>1 DEF OrdersOK
  <2>2. Range(orders) \subseteq Nodes /\ n \in Nodes
    BY <1>2, <2>1 DEF Range
  <2>3. Q \subseteq Range(orders)
    BY DEF QueueOf
  <2> QED
    BY <2>1, <2>2, <2>3, AddressAssumption
<1>6. before \in Pointer /\ after \in Pointer
  BY <1>2, <1>5 DEF Pointer
<1> HIDE DEF Q, w, lv
<1>7. node'[n] = Detached(h[n].data) /\ node'[n] \in NodeState
  BY <1>3, <1>4, <1>5 DEF Cleared, Detached, NodeState, Pointer
<1>8. ASSUME NEW m \in Nodes, m # n
      PROVE  /\ m # before /\ m # after => node'[m] = h[m]
             /\ node'[m] \in NodeState
             /\ node'[m].data = h[m].data /\ node'[m].parent = h[m].parent
             /\ node'[m].next = IF m = before THEN after ELSE h[m].next
             /\ node'[m].prev = IF m = after THEN before ELSE h[m].prev
  <2>1. node'[m] = IF m = before THEN [h[m] EXCEPT !.next = after]
                   ELSE IF m = after THEN [h[m] EXCEPT !.prev = before] ELSE h[m]
    BY <1>4, <1>8
  <2>2. h[m] \in NodeState
    BY <1>3
  <2>3. m # Nil
    BY <1>5
  <2>4. CASE m = before
    <3>1. m # after
      BY <1>2, <2>3, <2>4
    <3>2. node'[m] = [h[m] EXCEPT !.next = after]
      BY <2>1, <2>4
    <3> QED
      BY <1>6, <2>2, <2>4, <3>1, <3>2 DEF NodeState
  <2>5. CASE m # before /\ m = after
    <3>1. node'[m] = [h[m] EXCEPT !.prev = before]
      BY <2>1, <2>5
    <3> QED
      BY <1>6, <2>2, <2>5, <3>1 DEF NodeState
  <2>6. CASE m # before /\ m # after
    BY <2>1, <2>2, <2>6
  <2> QED
    BY <2>4, <2>5, <2>6
<1>9. node' \in [Nodes -> NodeState]
  <2>1. \A m \in Nodes : node'[m] \in NodeState
    BY <1>7, <1>8
  <2>2. DOMAIN node' = Nodes /\ node' = [m \in Nodes |-> node'[m]]
    BY <1>4
  <2> QED
    BY <2>1, <2>2
<1>10. /\ DOMAIN orders' = DOMAIN orders \ {id}
       /\ \A i \in DOMAIN orders' : orders'[i] = orders[i] /\ orders[i] \in Range(orders) \ {n}
       /\ orders' = [i \in DOMAIN orders' |-> orders'[i]]
  <2>1. \A i \in DOMAIN orders \ {id} : orders[i] # n
    BY <1>1, <1>2, OrdersInjective
  <2> QED
    BY <1>4, <2>1 DEF Unbind, Restrict, Range
<1>11. \A m \in Range(orders) \ {n} :
         /\ node'[m].data = node[m].data /\ node'[m].parent = node[m].parent
         /\ node'[m].next = IF m = before THEN after ELSE node[m].next
         /\ node'[m].prev = IF m = after THEN before ELSE node[m].prev
         /\ m # before /\ m # after => node'[m] = node[m]
  <2> TAKE m \in Range(orders) \ {n}
  <2>1. m \in Nodes /\ m # n /\ h[m] = node[m]
    BY <1>3, <1>5
  <2> QED
    BY <1>8, <2>1
<1>12. \A i \in DOMAIN orders' : node'[orders'[i]].data = node[orders[i]].data
  BY <1>10, <1>11
<1>13. OrdersOK(node', orders')
  <2>1. orders' \in [DOMAIN orders' -> Nodes]
    BY <1>5, <1>10
  <2>2. IsFiniteSet(DOMAIN orders')
    <3>1. IsFiniteSet(DOMAIN orders)
      BY <1>1 DEF OrdersOK
    <3> QED
      BY <1>10, <3>1, FS_RemoveElement
  <2>3. \A i \in DOMAIN orders' : i \in DOMAIN orders
    BY <1>10
  <2> QED
    BY <1>1, <1>9, <1>12, <2>1, <2>2, <2>3 DEF OrdersOK
<1>14. Leaves(node, orders, lv, id, n, node', orders', w)
  BY <1>2, <1>4, <1>11 DEF Leaves, w, lv
<1>15. /\ IsLevel(node', orders', s, p, w)
       /\ QueueOf(node', orders', s, p) = Q \ {n}
       /\ w.total \in Nat
  <2>1. n = orders[id]
    BY <1>2
  <2> QED
    BY <1>1, <1>2, <1>14, <2>1, LevelRemove DEF Q
<1>16. /\ Emptied(w) <=> QueueOf(node', orders', s, p) = {}
       /\ ~Emptied(w) => w \in LevelState
  <2>1. First(node', w.head, Q \ {n}) /\ Last(node', w.tail, Q \ {n})
    BY <1>15 DEF IsLevel, List
  <2>2. Nil \notin Q \ {n} /\ Q \ {n} \subseteq Nodes
    BY <1>5
  <2>3. w.head = Nil <=> Q \ {n} = {}
    BY <2>1, <2>2 DEF First
  <2>4. w.head # Nil => w.head \in Nodes /\ w.tail \in Nodes
    BY <2>1, <2>2, <2>3 DEF First, Last
  <2>5. w = [total |-> w.total, head |-> w.head, tail |-> w.tail]
    BY DEF w
  <2> QED
    BY <1>15, <2>3, <2>4, <2>5 DEF Emptied, LevelState
<1>17. ASSUME NEW t \in Sides, NEW q \in Prices, t # s \/ q # p
       PROVE  Untouched(node, orders, node', orders', t, q)
  <2>1. id \notin IdsOf(node, orders, t, q)
    BY <1>2, <1>17 DEF IdsOf
  <2>2. IdsOf(node', orders', t, q) = IdsOf(node, orders, t, q)
    BY <1>10, <1>12, <2>1 DEF IdsOf
  <2>3. ASSUME NEW i \in IdsOf(node, orders, t, q)
        PROVE  orders'[i] = orders[i] /\ node'[orders[i]] = node[orders[i]]
    <3>1. i \in DOMAIN orders' /\ node[orders[i]].data.side = t /\ node[orders[i]].data.price = q
      BY <1>10, <2>1 DEF IdsOf
    <3>2. \A m \in Q : node[m].data.side = s /\ node[m].data.price = p
      BY DEF Q, QueueOf
    <3>3. orders[i] # before /\ orders[i] # after
      BY <1>2, <1>5, <1>10, <1>17, <3>1, <3>2
    <3> QED
      BY <1>10, <1>11, <3>1, <3>3
  <2> QED
    BY <2>2, <2>3 DEF Untouched
<1>18. /\ DOMAIN level' = Sides /\ DOMAIN index' = Sides
       /\ \A t \in Sides \ {s} : level'[t] = level[t] /\ index'[t] = index[t]
       /\ DOMAIN level'[s] = IF Emptied(w) THEN DOMAIN level[s] \ {p} ELSE DOMAIN level[s]
       /\ ~Emptied(w) => level'[s][p] = w /\ index' = index
       /\ \A q \in DOMAIN level[s] \ {p} : level'[s][q] = level[s][q]
       /\ Emptied(w) => index'[s] = Unindexed(s, p)
  <2>1. CASE Emptied(w)
    <3> DEFINE u == Unbind(level[s], p)
    <3>1. level' = [level EXCEPT ![s] = u] /\ index' = [index EXCEPT ![s] = Unindexed(s, p)]
      BY <1>4, <2>1
    <3>2. DOMAIN u = DOMAIN level[s] \ {p} /\ \A q \in DOMAIN level[s] \ {p} : u[q] = level[s][q]
      BY DEF Unbind, Restrict
    <3> HIDE DEF u
    <3>3. level'[s] = u /\ index'[s] = Unindexed(s, p)
      BY <1>1, <1>2, <3>1
    <3>4. /\ DOMAIN level' = Sides /\ DOMAIN index' = Sides
          /\ \A t \in Sides \ {s} : level'[t] = level[t] /\ index'[t] = index[t]
      BY <1>1, <1>2, <3>1
    <3> QED
      BY <2>1, <3>2, <3>3, <3>4
  <2>2. CASE ~Emptied(w)
    <3>1. level' = [level EXCEPT ![s][p] = w] /\ index' = index
      BY <1>4, <2>2
    <3>2. level'[s] = [level[s] EXCEPT ![p] = w]
      BY <1>1, <1>2, <3>1
    <3>3. DOMAIN level' = Sides /\ \A t \in Sides \ {s} : level'[t] = level[t]
      BY <1>1, <1>2, <3>1
    <3>4. /\ DOMAIN level'[s] = DOMAIN level[s] /\ level'[s][p] = w
          /\ \A q \in DOMAIN level[s] \ {p} : level'[s][q] = level[s][q]
      BY <1>2, <3>2
    <3> QED
      BY <1>1, <2>2, <3>1, <3>3, <3>4
  <2> QED
    BY <2>1, <2>2
<1>19. ASSUME NEW t \in Sides, t # s
       PROVE  SideOK(node', orders', level', index', t)
  <2>1. \A q \in Prices : Untouched(node, orders, node', orders', t, q)
    BY <1>17, <1>19
  <2>2. level'[t] = level[t] /\ index'[t] = index[t]
    BY <1>18, <1>19
  <2>3. OrdersOK(node, orders) /\ SideOK(node, orders, level, index, t)
    BY <1>1
  <2> QED
    BY <2>1, <2>2, <2>3, SideSame
<1>20. SideOK(node', orders', level', index', s)
  <2>1. OrdersOK(node, orders) /\ SideOK(node, orders, level, index, s)
    BY <1>1, <1>2
  <2>2. \A q \in Prices \ {p} : Untouched(node, orders, node', orders', s, q)
    BY <1>2, <1>17
  <2>3. ChangesAt(level, level', s, p)
    BY <1>2, <1>18, <2>1 DEF ChangesAt, SideOK
  <2>4. Indexes(index'[s], s, DOMAIN level'[s])
    <3>1. Indexes(index[s], s, DOMAIN level[s])
      BY <2>1 DEF SideOK
    <3>2. CASE ~Emptied(w)
      BY <1>18, <3>1, <3>2
    <3>3. CASE Emptied(w)
      <4>1. Position(s, p) = Cardinality({k \in DOMAIN index[s] : Better(s, index[s][k], p)}) + 1
        BY DEF Position
      <4>2. /\ Position(s, p) \in DOMAIN index[s] /\ index[s][Position(s, p)] = p
            /\ Indexes(DeletedAt(index[s], Position(s, p)), s, DOMAIN level[s] \ {p})
        BY <1>2, <3>1, <4>1, IndexDelete
      <4>3. index'[s] = DeletedAt(index[s], Position(s, p))
        BY <1>18, <3>3, <4>2 DEF Unindexed
      <4> QED
        BY <1>18, <3>3, <4>2, <4>3
    <3> QED
      BY <3>2, <3>3
  <2>5. p \in DOMAIN level'[s] <=> QueueOf(node', orders', s, p) # {}
    BY <1>2, <1>16, <1>18
  <2>6. p \in DOMAIN level'[s] => level'[s][p] \in LevelState /\ IsLevel(node', orders', s, p, level'[s][p])
    BY <1>15, <1>16, <1>18
  <2>7. p \in Prices
    BY <1>2
  <2> QED
    BY <2>1, <2>2, <2>3, <2>4, <2>5, <2>6, <2>7, SideChanged
<1>21. Shape'
  <2>1. \A t \in Sides : SideOK(node', orders', level', index', t)
    BY <1>19, <1>20
  <2> QED
    BY <1>13, <1>18, <2>1 DEF Shape, BookOK
<1>22. Resting' = Unbind(Resting, id)
  BY <1>10, <1>12 DEF Resting, Unbind, Restrict
<1>23. Range(orders') = Range(orders) \ {n}
  <2>1. \A m \in Range(orders') : m \in Range(orders) \ {n}
    BY <1>10 DEF Range
  <2>2. ASSUME NEW m \in Range(orders) \ {n} PROVE m \in Range(orders')
    <3>1. PICK i \in DOMAIN orders : orders[i] = m
      BY DEF Range
    <3>2. i \in DOMAIN orders' /\ orders'[i] = m
      BY <1>2, <1>10, <3>1
    <3> QED
      BY <3>2 DEF Range
  <2> QED
    BY <2>1, <2>2
<1>24. \A m \in Nodes \ {n} : m \notin Range(orders) => node'[m] = h[m]
  <2> TAKE m \in Nodes \ {n}
  <2>1. before # Nil => before \in Range(orders)
    BY <1>2, <1>5
  <2>2. after # Nil => after \in Range(orders)
    BY <1>2, <1>5
  <2>3. m # Nil
    BY <1>5
  <2> QED
    BY <1>8, <2>1, <2>2, <2>3
<1> QED
  BY <1>4, <1>7, <1>8, <1>21, <1>22, <1>23, <1>24

\* In h the order id at the node n has q less left.
IsReduction(id, n, s, p, q, h) ==
    /\ id \in DOMAIN orders /\ n = orders[id]
    /\ s = node[orders[id]].data.side /\ p = node[orders[id]].data.price
    /\ q \in Nat /\ node[n].data.rem - q \in Nat \ {0}
    /\ h[n].data = [node[n].data EXCEPT !.rem = @ - q]

\* The step to the heap h takes q from the level of s and p.
Reduces(s, p, q, h) ==
    /\ node' = h /\ level' = [level EXCEPT ![s][p].total = @ - q]
    /\ UNCHANGED <<index, orders>>

\* An order on the book is filled in part.
LEMMA ReduceShape ==
    ASSUME Shape, NEW id, NEW n, NEW s, NEW p, NEW q, NEW h,
           IsReduction(id, n, s, p, q, h), SameBook(h, n), Reduces(s, p, q, h)
    PROVE  Shape' /\ Resting' = [Resting EXCEPT ![id].rem = @ - q]
<1>0. /\ node' = h /\ level' = [level EXCEPT ![s][p].total = @ - q]
      /\ UNCHANGED <<index, orders>>
  BY DEF Reduces
<1> USE <1>0
<1> DEFINE lv == level[s][p]
           w == [lv EXCEPT !.total = @ - q]
<1>1. /\ OrdersOK(node, orders) /\ DOMAIN level = Sides /\ DOMAIN index = Sides
      /\ \A t \in Sides : SideOK(node, orders, level, index, t)
  BY DEF Shape, BookOK
<1>2. /\ id \in DOMAIN orders /\ n = orders[id] /\ node[n].data.id = id
      /\ q \in Nat /\ node[n].data.rem - q \in Nat \ {0}
      /\ node'[n].data = [node[n].data EXCEPT !.rem = @ - q]
      /\ s \in Sides /\ p \in DOMAIN level[s] /\ p \in Prices
      /\ lv \in LevelState /\ IsLevel(node, orders, s, p, lv)
      /\ id \in IdsOf(node, orders, s, p)
  <2>1. /\ id \in DOMAIN orders /\ n = orders[id]
        /\ s = node[orders[id]].data.side /\ p = node[orders[id]].data.price
        /\ q \in Nat /\ node[n].data.rem - q \in Nat \ {0}
        /\ h[n].data = [node[n].data EXCEPT !.rem = @ - q]
    BY DEF IsReduction
  <2>2. AtLevel(id, orders[id], node[orders[id]].data.side, node[orders[id]].data.price)
    BY <2>1, Neighbours
  <2>3. AtLevel(id, n, s, p)
    BY <2>1, <2>2
  <2> QED
    BY <2>1, <2>3 DEF AtLevel
<1>3. node[n].data \in OrderData /\ n \in Range(orders)
  BY <1>1, <1>2, BookedTypes
<1>4. /\ node'[n].data \in OrderData
      /\ node'[n].data.rem = node[n].data.rem - q /\ node'[n].data.rem > 0
      /\ node'[n].data.side = node[n].data.side /\ node'[n].data.price = node[n].data.price
      /\ node'[n].data.seq = node[n].data.seq /\ node'[n].data.id = id
      /\ AsResting(node'[n].data, node'[n].data.rem)
           = [AsResting(node[n].data, node[n].data.rem) EXCEPT !.rem = @ - q]
  <2>1. PICK d \in OrderData : d = node[n].data
    BY <1>3
  <2>2. PICK r \in Nat \ {0} : r = node[n].data.rem - q
    BY <1>2
  <2>3. node'[n].data = [d EXCEPT !.rem = r]
    BY <1>2, <2>1, <2>2
  <2>4. [d EXCEPT !.rem = r] \in OrderData /\ [d EXCEPT !.rem = r].rem = r
    BY <2>2 DEF OrderData
  <2>5. /\ [d EXCEPT !.rem = r].side = d.side /\ [d EXCEPT !.rem = r].price = d.price
        /\ [d EXCEPT !.rem = r].seq = d.seq /\ [d EXCEPT !.rem = r].id = d.id
        /\ [d EXCEPT !.rem = r].user = d.user /\ [d EXCEPT !.rem = r].qty = d.qty
    BY DEF OrderData
  <2>6. AsResting([d EXCEPT !.rem = r], r) = [AsResting(d, d.rem) EXCEPT !.rem = r]
    BY <2>5 DEF AsResting
  <2>7. [AsResting(d, d.rem) EXCEPT !.rem = r] = [AsResting(d, d.rem) EXCEPT !.rem = @ - q]
    BY <2>1, <2>2 DEF AsResting
  <2>8. node[n].data.id = id /\ r > 0
    BY <1>2, <2>2
  <2>9. node'[n].data.id = id /\ node'[n].data.rem = r
    BY <2>1, <2>3, <2>4, <2>5, <2>8
  <2> QED
    BY <2>1, <2>2, <2>3, <2>4, <2>5, <2>6, <2>7, <2>8, <2>9
<1>5. /\ node' \in [Nodes -> NodeState]
      /\ node'[n].next = node[n].next /\ node'[n].prev = node[n].prev
      /\ node'[n].parent = node[n].parent
      /\ \A m \in Range(orders) \ {n} : node'[m] = node[m]
  BY DEF SameBook
<1>6. \A i \in DOMAIN orders \ {id} : orders[i] \in Range(orders) \ {n}
  BY <1>1, <1>2, OrdersInjective DEF Range
<1>7. \A i \in DOMAIN orders :
        /\ node'[orders[i]].data \in OrderData /\ node'[orders[i]].data.id = i
        /\ node'[orders[i]].data.rem > 0
        /\ node'[orders[i]].data.seq = node[orders[i]].data.seq
        /\ node'[orders[i]].data.side = node[orders[i]].data.side
        /\ node'[orders[i]].data.price = node[orders[i]].data.price
  <2> TAKE i \in DOMAIN orders
  <2>1. CASE i = id
    BY <1>2, <1>4, <2>1
  <2>2. CASE i # id
    <3>1. node'[orders[i]] = node[orders[i]]
      BY <1>5, <1>6, <2>2
    <3> QED
      BY <1>1, <3>1 DEF OrdersOK
  <2> QED
    BY <2>1, <2>2
<1>8. OrdersOK(node', orders')
  BY <1>1, <1>5, <1>7 DEF OrdersOK
<1>9. /\ w \in LevelState /\ IsLevel(node', orders', s, p, w)
      /\ QueueOf(node', orders', s, p) = QueueOf(node, orders, s, p)
  <2>1. /\ w.total = lv.total - q /\ w.head = lv.head /\ w.tail = lv.tail
        /\ w = [total |-> w.total, head |-> w.head, tail |-> w.tail]
        /\ lv.head \in Nodes /\ lv.tail \in Nodes
    BY <1>2 DEF LevelState
  <2>2. node'[n].data.side = s /\ node'[n].data.price = p /\ orders' = orders
    BY <1>2, <1>4 DEF IdsOf
  <2> HIDE DEF w, lv
  <2>3. q \in Nat /\ node[n].data.rem - q \in Nat
    BY <1>2
  <2>4. /\ IsLevel(node', orders, s, p, w)
        /\ QueueOf(node', orders, s, p) = QueueOf(node, orders, s, p)
        /\ w.total \in Nat
    <3>1. Shrinks(node, orders, s, p, lv, n, node', q, w)
      BY <1>4, <1>5, <2>1, <2>2, <2>3 DEF Shrinks
    <3>2. /\ OrdersOK(node, orders) /\ IsLevel(node, orders, s, p, lv)
          /\ id \in IdsOf(node, orders, s, p) /\ n = orders[id]
      BY <1>1, <1>2
    <3> QED
      BY <3>1, <3>2, LevelReduce
  <2> QED
    BY <2>1, <2>2, <2>4 DEF LevelState
<1>10. /\ level'[s][p] = w /\ DOMAIN level'[s] = DOMAIN level[s]
       /\ \A r \in DOMAIN level[s] \ {p} : level'[s][r] = level[s][r]
       /\ DOMAIN level' = Sides /\ \A t \in Sides \ {s} : level'[t] = level[t]
  BY <1>1, <1>2
<1> HIDE DEF w, lv
<1>11. ASSUME NEW t \in Sides, NEW r \in Prices, t # s \/ r # p
       PROVE  Untouched(node, orders, node', orders', t, r)
  <2>1. id \notin IdsOf(node, orders, t, r)
    BY <1>2, <1>11 DEF IdsOf
  <2>2. IdsOf(node', orders', t, r) = IdsOf(node, orders, t, r)
    BY <1>7 DEF IdsOf
  <2>3. \A i \in IdsOf(node, orders, t, r) : node'[orders[i]] = node[orders[i]]
    BY <1>5, <1>6, <2>1 DEF IdsOf
  <2> QED
    BY <2>2, <2>3 DEF Untouched
<1>12. ASSUME NEW t \in Sides, t # s PROVE SideOK(node', orders', level', index', t)
  <2>1. \A r \in Prices : Untouched(node, orders, node', orders', t, r)
    BY <1>11, <1>12
  <2>2. OrdersOK(node, orders) /\ SideOK(node, orders, level, index, t)
    BY <1>1
  <2>3. level'[t] = level[t] /\ index'[t] = index[t]
    BY <1>10, <1>12
  <2> QED
    BY <2>1, <2>2, <2>3, SideSame
<1>13. SideOK(node', orders', level', index', s)
  <2>1. OrdersOK(node, orders) /\ SideOK(node, orders, level, index, s)
    BY <1>1, <1>2
  <2>2. \A r \in Prices \ {p} : Untouched(node, orders, node', orders', s, r)
    BY <1>2, <1>11
  <2>3. ChangesAt(level, level', s, p)
    BY <1>2, <1>10, <2>1 DEF ChangesAt, SideOK
  <2>4. Indexes(index'[s], s, DOMAIN level'[s])
    BY <1>10, <2>1 DEF SideOK
  <2>5. p \in DOMAIN level'[s] <=> QueueOf(node', orders', s, p) # {}
    BY <1>2, <1>9, <1>10, <2>1 DEF SideOK
  <2>6. p \in DOMAIN level'[s] => level'[s][p] \in LevelState /\ IsLevel(node', orders', s, p, level'[s][p])
    BY <1>9, <1>10
  <2>7. p \in Prices
    BY <1>2
  <2> QED
    BY <2>1, <2>2, <2>3, <2>4, <2>5, <2>6, <2>7, SideChanged
<1>14. Shape'
  <2>1. \A t \in Sides : SideOK(node', orders', level', index', t)
    BY <1>12, <1>13
  <2> QED
    BY <1>1, <1>8, <1>10, <2>1 DEF Shape, BookOK
<1>15. Resting' = [Resting EXCEPT ![id].rem = @ - q]
  <2> DEFINE R(m) == AsResting(m.data, m.data.rem)
  <2>1. \A i \in DOMAIN orders \ {id} : R(node'[orders[i]]) = R(node[orders[i]])
    BY <1>5, <1>6
  <2>2. R(node'[orders[id]]) = [R(node[orders[id]]) EXCEPT !.rem = @ - q]
    BY <1>2, <1>4
  <2>3. Resting = [i \in DOMAIN orders |-> R(node[orders[i]])]
    BY DEF Resting
  <2>4. Resting' = [i \in DOMAIN orders |-> R(node'[orders[i]])]
    BY DEF Resting
  <2> HIDE DEF R
  <2> QED
    BY <1>2, <2>1, <2>2, <2>3, <2>4
<1> QED
  BY <1>14, <1>15

-----------------------------------------------------------------------------
(* The steps *)

\* The book of the initial state.
LEMMA InitInv == Init => IInv
<1> SUFFICES ASSUME Init PROVE IInv
  OBVIOUS
<1>1. /\ node = [n \in Nodes |-> Detached(NoData)] /\ orders = <<>> /\ pool = {}
      /\ level = [s \in Sides |-> <<>>] /\ index = [s \in Sides |-> <<>>]
      /\ pc = "idle" /\ taker = Nil /\ best = 0 /\ maker = Nil /\ matched = FALSE
      /\ trades = <<>> /\ used = {} /\ open = FALSE
  BY DEF Init
<1>2. DOMAIN orders = {} /\ Range(orders) = {}
  BY <1>1 DEF Range
<1>3. \A n \in Nodes : node[n] = [data |-> NoData, prev |-> Nil, next |-> Nil, parent |-> Nil]
  BY <1>1 DEF Detached
<1>4. OrdersOK(node, orders)
  <2>1. node \in [Nodes -> NodeState]
    BY <1>1 DEF Detached, NodeState, Pointer
  <2>2. orders \in [DOMAIN orders -> Nodes]
    BY <1>1, <1>2
  <2>3. IsFiniteSet(DOMAIN orders)
    BY <1>2, FS_EmptySet
  <2> QED
    BY <1>2, <2>1, <2>2, <2>3 DEF OrdersOK
<1>5. ASSUME NEW s \in Sides PROVE SideOK(node, orders, level, index, s)
  <2>1. level[s] = <<>> /\ index[s] = <<>> /\ DOMAIN level[s] = {}
    BY <1>1
  <2>2. <<>> \in Seq(Prices) /\ Len(<<>>) = 0
    OBVIOUS
  <2>3. Indexes(<<>>, s, {})
    BY <2>2 DEF Indexes
  <2> QED
    BY <1>2, <2>1, <2>3 DEF SideOK, QueueOf
<1>6. Shape
  <2>1. DOMAIN level = Sides /\ DOMAIN index = Sides
    BY <1>1
  <2> QED
    BY <1>4, <1>5, <2>1 DEF Shape, BookOK
<1>7. TakerInv
  BY <1>1, <1>2 DEF TakerInv
<1>8. WalkInv
  BY <1>1 DEF WalkInv
<1>9. OthersInv
  <2>1. <<>> \in Seq(LB!Trade)
    OBVIOUS
  <2>2. \A n \in Nodes \ Range(orders) :
          node[n].prev = Nil /\ node[n].next = Nil /\ node[n].parent = Nil
    BY <1>3
  <2>3. best \in Prices \cup {0} /\ maker \in Pointer /\ matched \in BOOLEAN /\ open \in BOOLEAN
    BY <1>1 DEF Pointer
  <2>4. DOMAIN orders \subseteq used /\ used \subseteq OrderIds /\ pool \subseteq Nodes
    BY <1>1, <1>2
  <2>5. trades \in Seq(LB!Trade)
    BY <1>1, <2>1
  <2> QED
    BY <2>2, <2>3, <2>4, <2>5 DEF OthersInv
<1>10. PoolIsDisjoint
  BY <1>1, <1>2 DEF PoolIsDisjoint
<1> QED
  BY <1>6, <1>7, <1>8, <1>9, <1>10 DEF IInv

\* What the invariant says of the orders on the book.
LEMMA BookFacts ==
    ASSUME Shape
    PROVE  /\ OrdersOK(node, orders) /\ node \in [Nodes -> NodeState]
           /\ orders \in [DOMAIN orders -> Nodes] /\ Range(orders) \subseteq Nodes /\ Nil \notin Nodes
           /\ \A n \in Range(orders) : \E id \in DOMAIN orders : orders[id] = n
           /\ \A id \in DOMAIN orders :
                /\ orders[id] \in Range(orders) /\ orders[id] \in Nodes
                /\ node[orders[id]].data \in OrderData
                /\ node[orders[id]].data.id = id /\ node[orders[id]].data.seq \in Nat
           /\ \A s \in Sides : SideOK(node, orders, level, index, s)
<1>1. OrdersOK(node, orders) /\ \A s \in Sides : SideOK(node, orders, level, index, s)
  BY DEF Shape, BookOK
<1>2. \A id \in DOMAIN orders :
        /\ orders[id] \in Range(orders) /\ orders[id] \in Nodes
        /\ node[orders[id]].data \in OrderData
        /\ node[orders[id]].data.id = id /\ node[orders[id]].data.seq \in Nat
  BY <1>1, BookedTypes
<1>3. \A n \in Range(orders) : \E id \in DOMAIN orders : orders[id] = n
  BY DEF Range
<1>4. Range(orders) \subseteq Nodes
  BY <1>2, <1>3
<1> QED
  BY <1>1, <1>2, <1>3, <1>4, AddressAssumption DEF OrdersOK

\* d is the order id, the next to come.
IsNextOrder(d, id, q) ==
    /\ d \in OrderData /\ d.rem = q /\ d.rem > 0 /\ d.id = id
    /\ id \notin used /\ id \notin DOMAIN orders
    /\ Cardinality(used) \in Nat /\ Cardinality(used \cup {id}) = Cardinality(used) + 1
    /\ d.seq = Cardinality(used) + 1

LEMMA NextOrder ==
    ASSUME TakerInv, OthersInv, NEW id \in OrderIds, IsNextId(id),
           NEW u \in Users, NEW s \in Sides, NEW p \in Prices, NEW q \in Quantities
    PROVE  IsNextOrder(Data(id, u, s, p, q), id, q)
<1> DEFINE d == Data(id, u, s, p, q)
<1>1. IsFiniteSet(used)
  BY FiniteAssumption, FS_Subset DEF OthersInv
<1>2. id \notin used
  BY DEF IsNextId
<1>3. Cardinality(used) \in Nat /\ Cardinality(used \cup {id}) = Cardinality(used) + 1
  BY <1>1, <1>2, FS_AddElement, FS_CardinalityType
<1>4. q \in Nat /\ q > 0
  BY PositiveAssumption
<1>5. /\ d \in OrderData /\ d.rem = q /\ d.rem > 0 /\ d.id = id
      /\ d.seq = Cardinality(used) + 1
  BY <1>3, <1>4 DEF Data, OrderData
<1> QED
  BY <1>2, <1>3, <1>5 DEF OthersInv, IsNextOrder

\* A node the allocator returns is in no structure.
LEMMA FreshNode ==
    ASSUME NEW n \in Fresh
    PROVE  n \in Nodes /\ n \notin pool /\ n \notin Range(orders) /\ n # taker
<1> DEFINE free == Nodes \ (pool \cup Range(orders) \cup {taker})
<1>1. free # {} /\ n = CHOOSE m \in free : TRUE
  BY DEF Fresh
<1>2. n \in free
  BY <1>1
<1> QED
  BY <1>2

LEMMA RestoreInv ==
    ASSUME IInv, NEW id \in OrderIds, NEW u \in Users, NEW s \in Sides, NEW p \in Prices,
           NEW q \in Quantities, RestoreOrder(id, u, s, p, q)
    PROVE  /\ IInv'
           /\ Resting' = Bind(Resting, id, AsResting(Data(id, u, s, p, q), q))
<1> DEFINE d == Data(id, u, s, p, q)
<1>1. Shape /\ TakerInv /\ WalkInv /\ OthersInv /\ PoolIsDisjoint
  BY DEF IInv
<1>2. PICK n \in Fresh : AddOrder(n, d)
  BY DEF RestoreOrder
<1>3. /\ ~open /\ IsNextId(id) /\ used' = used \cup {id}
      /\ UNCHANGED <<pool, pc, taker, best, maker, matched, trades, open>>
  BY DEF RestoreOrder
<1>4. /\ d \in OrderData /\ d.rem > 0 /\ d.id = id /\ id \notin used /\ id \notin DOMAIN orders
      /\ Cardinality(used) \in Nat /\ Cardinality(used') = Cardinality(used) + 1
      /\ d.seq = Cardinality(used) + 1 /\ d.rem = q
  <2>1. IsNextOrder(Data(id, u, s, p, q), id, q)
    BY <1>1, <1>3, NextOrder
  <2> HIDE DEF d
  <2>2. IsNextOrder(d, id, q)
    BY <2>1 DEF d
  <2> QED
    BY <1>3, <2>2 DEF IsNextOrder
<1> HIDE DEF d
<1>5. n \in Nodes /\ n \notin pool /\ n \notin Range(orders) /\ n # taker
  BY FreshNode
<1>6. node[n].prev = Nil /\ node[n].next = Nil
  BY <1>1, <1>5 DEF OthersInv
<1>7. taker = Nil /\ pc = "idle"
  BY <1>1, <1>3 DEF TakerInv
<1>8. \A i \in DOMAIN orders : node[orders[i]].data.seq <= Cardinality(used)
                               /\ node[orders[i]].data.seq \in Nat
  BY <1>1, BookFacts DEF TakerInv
<1>9. \A i \in DOMAIN orders : node[orders[i]].data.seq < d.seq
  BY <1>4, <1>8
<1>10. /\ Shape' /\ Resting' = Bind(Resting, id, AsResting(d, q))
       /\ node'[n].data = d
       /\ \A m \in Nodes \ {n} : m \notin Range(orders) => node'[m] = node[m]
       /\ \A m \in Nodes \ {n} : node'[m].data = node[m].data
  BY <1>1, <1>2, <1>4, <1>5, <1>6, <1>9, AddShape
<1>11. /\ DOMAIN orders' = DOMAIN orders \cup {id} /\ orders'[id] = n
       /\ \A i \in DOMAIN orders : orders'[i] = orders[i]
       /\ Range(orders') = Range(orders) \cup {n}
  <2>1. orders' = Bind(orders, id, n)
    BY <1>2, <1>4 DEF AddOrder
  <2>2. /\ DOMAIN orders' = DOMAIN orders \cup {id} /\ orders'[id] = n
        /\ \A i \in DOMAIN orders : orders'[i] = orders[i]
    BY <1>4, <2>1 DEF Bind
  <2> QED
    BY <2>2 DEF Range
<1>12. TakerInv'
  <2>1. \A i \in DOMAIN orders : orders[i] \in Nodes \ {n}
    BY <1>1, <1>5, BookFacts
  <2>2. \A i \in DOMAIN orders : node'[orders'[i]].data.seq <= Cardinality(used')
    BY <1>4, <1>8, <1>10, <1>11, <2>1
  <2>3. node'[orders'[id]].data.seq <= Cardinality(used')
    BY <1>4, <1>10, <1>11
  <2>4. \A i \in DOMAIN orders' : node'[orders'[i]].data.seq <= Cardinality(used')
    BY <1>11, <2>2, <2>3
  <2> QED
    BY <1>1, <1>3, <1>7, <2>4 DEF TakerInv
<1>13. WalkInv'
  BY <1>3, <1>7 DEF WalkInv
<1>14. OthersInv'
  <2>1. \A m \in Nodes \ Range(orders') :
          node'[m].prev = Nil /\ node'[m].next = Nil /\ node'[m].parent = Nil
    BY <1>1, <1>10, <1>11 DEF OthersInv
  <2>2. DOMAIN orders' \subseteq used' /\ used' \subseteq OrderIds
    BY <1>1, <1>3, <1>11 DEF OthersInv
  <2> QED
    BY <1>1, <1>3, <2>1, <2>2 DEF OthersInv
<1>15. PoolIsDisjoint'
  <2>1. \A m \in pool : m \in Nodes \ {n} /\ m \notin Range(orders)
    BY <1>1, <1>5 DEF PoolIsDisjoint, OthersInv
  <2>2. taker' = Nil /\ Nil \notin Range(orders') /\ pool' = pool /\ Nil \notin pool
    BY <1>1, <1>3, <1>5, <1>7, <1>11, BookFacts DEF PoolIsDisjoint
  <2>3. \A m \in pool : node'[m].prev = Nil /\ node'[m].next = Nil /\ node'[m].parent = Nil
    BY <1>1, <1>10, <2>1 DEF PoolIsDisjoint
  <2>4. pool' \cap (Range(orders') \cup {taker'}) = {}
    BY <1>11, <2>1, <2>2
  <2> QED
    BY <2>2, <2>3, <2>4 DEF PoolIsDisjoint
<1> QED
  BY <1>10, <1>12, <1>13, <1>14, <1>15 DEF IInv, d

LEMMA BeginInv ==
    ASSUME IInv, NEW id \in OrderIds, NEW u \in Users, NEW s \in Sides, NEW p \in Prices,
           NEW q \in Quantities, BeginPlace(id, u, s, p, q)
    PROVE  /\ IInv' /\ Resting' = Resting
           /\ Taken' = Data(id, u, s, p, q)
<1> DEFINE d == Data(id, u, s, p, q)
<1>1. Shape /\ TakerInv /\ WalkInv /\ OthersInv /\ PoolIsDisjoint
  BY DEF IInv
<1>2. PICK n \in pool \cup Fresh :
        /\ taker' = n /\ pool' = pool \ {n}
        /\ node' = [node EXCEPT ![n] = IF n \in pool THEN [@ EXCEPT !.data = d] ELSE Detached(d)]
  BY DEF BeginPlace
<1>3. /\ open /\ pc = "idle" /\ IsNextId(id) /\ used' = used \cup {id}
      /\ trades' = <<>> /\ pc' = "level"
      /\ UNCHANGED <<level, index, orders, best, maker, matched, open>>
  BY DEF BeginPlace
<1>4. /\ d \in OrderData /\ d.rem > 0 /\ d.id = id /\ id \notin used /\ id \notin DOMAIN orders
      /\ Cardinality(used) \in Nat /\ Cardinality(used') = Cardinality(used) + 1
      /\ d.seq = Cardinality(used) + 1
  <2>1. IsNextOrder(Data(id, u, s, p, q), id, q)
    BY <1>1, <1>3, NextOrder
  <2> HIDE DEF d
  <2>2. IsNextOrder(d, id, q)
    BY <2>1 DEF d
  <2> QED
    BY <1>3, <2>2 DEF IsNextOrder
<1> HIDE DEF d
<1>5. n \in Nodes /\ n \notin Range(orders) /\ n # Nil
  <2>1. CASE n \in pool
    BY <1>1, <2>1, BookFacts DEF PoolIsDisjoint, OthersInv
  <2>2. CASE n \in Fresh
    BY <1>1, <2>2, FreshNode, BookFacts
  <2> QED
    BY <2>1, <2>2
<1>6. node \in [Nodes -> NodeState]
  BY <1>1, BookFacts
<1>7. /\ node'[n].data = d /\ node'[n].next = Nil /\ node'[n].prev = Nil /\ node'[n].parent = Nil
      /\ node'[n] \in NodeState
  <2>1. node[n].prev = Nil /\ node[n].next = Nil /\ node[n].parent = Nil /\ node[n] \in NodeState
    BY <1>1, <1>5, <1>6 DEF OthersInv
  <2>2. CASE n \in pool
    <3>1. node'[n] = [node[n] EXCEPT !.data = d]
      BY <1>2, <1>5, <1>6, <2>2
    <3> QED
      BY <1>4, <2>1, <3>1 DEF NodeState
  <2>3. CASE n \notin pool
    <3>1. node'[n] = Detached(d)
      BY <1>2, <1>5, <1>6, <2>3
    <3> QED
      BY <1>4, <3>1 DEF NodeState, Detached, Pointer
  <2> QED
    BY <2>2, <2>3
<1>8. \A m \in Nodes \ {n} : node'[m] = node[m]
  BY <1>2, <1>6
<1>9. node' \in [Nodes -> NodeState]
  <2>1. DOMAIN node' = Nodes /\ node' = [m \in Nodes |-> node'[m]]
    BY <1>2, <1>6
  <2>2. \A m \in Nodes : node'[m] \in NodeState
    BY <1>6, <1>7, <1>8
  <2> QED
    BY <2>1, <2>2
<1>10. Range(orders) \subseteq Nodes \ {n}
  BY <1>1, <1>5, BookFacts
<1>11. Shape' /\ Resting' = Resting
  <2>1. BookOK(node, orders, level, index)
    BY <1>1 DEF Shape
  <2>2. \A m \in Range(orders) : node'[m] = node[m]
    BY <1>8, <1>10
  <2>3. BookOK(node', orders, level, index) /\ RestingOf(node', orders) = RestingOf(node, orders)
    BY <1>9, <2>1, <2>2, BookFrame
  <2> QED
    BY <1>3, <2>3 DEF Shape, Resting, RestingOf
<1>12. Taken' = d
  BY <1>2, <1>7 DEF Taken
<1>13. \A i \in DOMAIN orders : /\ node'[orders'[i]].data.seq = node[orders[i]].data.seq
                                /\ node[orders[i]].data.seq <= Cardinality(used)
                                /\ node[orders[i]].data.seq \in Nat
  <2>1. \A i \in DOMAIN orders : orders[i] \in Nodes \ {n} /\ node[orders[i]].data.seq \in Nat
    BY <1>1, <1>10, BookFacts
  <2> QED
    BY <1>1, <1>3, <1>8, <2>1 DEF TakerInv
<1>14. TakerInv'
  <2>1. DOMAIN orders' = DOMAIN orders
    BY <1>3
  <2>2. \A i \in DOMAIN orders' : node'[orders'[i]].data.seq <= Cardinality(used')
                                  /\ node'[orders'[i]].data.seq < d.seq
    BY <1>4, <1>13, <2>1
  <2>3. d.seq <= Cardinality(used') /\ d.id \in used' /\ d.id \notin DOMAIN orders'
    BY <1>3, <1>4
  <2>4. taker' = n /\ taker' \in Nodes /\ taker' # Nil
    BY <1>2, <1>5
  <2> QED
    BY <1>3, <1>4, <1>12, <2>2, <2>3, <2>4 DEF TakerInv
<1>15. WalkInv'
  BY <1>3 DEF WalkInv
<1>16. OthersInv'
  <2>1. \A m \in Nodes \ Range(orders') :
          node'[m].prev = Nil /\ node'[m].next = Nil /\ node'[m].parent = Nil
    BY <1>1, <1>3, <1>7, <1>8 DEF OthersInv
  <2>2. DOMAIN orders' \subseteq used' /\ used' \subseteq OrderIds /\ pool' \subseteq Nodes
    BY <1>1, <1>2, <1>3 DEF OthersInv
  <2>3. trades' \in Seq(LB!Trade)
    <3>1. <<>> \in Seq(LB!Trade)
      OBVIOUS
    <3> QED
      BY <1>3, <3>1
  <2> QED
    BY <1>1, <1>3, <2>1, <2>2, <2>3 DEF OthersInv
<1>17. PoolIsDisjoint'
  <2>1. \A m \in pool' : m \in Nodes \ {n} /\ m \notin Range(orders)
    BY <1>1, <1>2 DEF PoolIsDisjoint, OthersInv
  <2>2. \A m \in pool' : node'[m].prev = Nil /\ node'[m].next = Nil /\ node'[m].parent = Nil
    BY <1>1, <1>8, <2>1 DEF OthersInv
  <2>3. pool' \cap (Range(orders') \cup {taker'}) = {} /\ taker' \notin Range(orders')
    BY <1>2, <1>3, <1>5, <2>1
  <2> QED
    BY <1>2, <1>7, <2>2, <2>3 DEF PoolIsDisjoint
<1> QED
  BY <1>11, <1>12, <1>14, <1>15, <1>16, <1>17 DEF IInv, d

\* The makers of an order, if p is the best price of the other side.
LEMMA MakersAtBest ==
    ASSUME Shape, NEW t, t.side \in Sides, NEW s, s = Opposite(t.side),
           NEW p \in DOMAIN level[s], \A q \in DOMAIN level[s] : ~Better(s, q, p)
    PROVE  LB!Eligible(t) = {id \in IdsOf(node, orders, s, p) :
                                /\ Crosses(t.side, t.price, p)
                                /\ node[orders[id]].data.user # t.user}
<1>1. \A id \in DOMAIN orders :
        /\ Resting[id].side = node[orders[id]].data.side
        /\ Resting[id].price = node[orders[id]].data.price
        /\ Resting[id].user = node[orders[id]].data.user
        /\ node[orders[id]].data.side \in Sides
        /\ node[orders[id]].data.price \in DOMAIN level[node[orders[id]].data.side]
        /\ node[orders[id]].data.price \in Prices
  <2> TAKE id \in DOMAIN orders
  <2>1. AtLevel(id, orders[id], node[orders[id]].data.side, node[orders[id]].data.price)
    BY Neighbours
  <2> QED
    BY <2>1 DEF AtLevel, Resting, AsResting
<1>2. s \in Sides /\ \A r \in Sides : r # t.side <=> r = s
  BY DEF Opposite, Sides
<1>3. p \in Prices /\ \E id \in DOMAIN orders : id \in IdsOf(node, orders, s, p)
  <2>1. SideOK(node, orders, level, index, s) /\ OrdersOK(node, orders)
    BY <1>2, BookFacts
  <2>2. p \in Prices /\ QueueOf(node, orders, s, p) # {}
    BY <2>1 DEF SideOK
  <2>3. QueueOf(node, orders, s, p) = {orders[id] : id \in IdsOf(node, orders, s, p)}
    BY <2>1, QueueOrdered
  <2> QED
    BY <2>2, <2>3 DEF IdsOf
<1>4. DOMAIN Resting = DOMAIN orders
  BY DEF Resting
<1>5. \A id : id \in LB!Opposite(t) <=> id \in DOMAIN orders /\ node[orders[id]].data.side = s
  BY <1>1, <1>2, <1>4 DEF LB!Opposite
<1>6. ASSUME NEW id \in DOMAIN orders, node[orders[id]].data.side = s
      PROVE  id \in LB!AtBest(t) <=> node[orders[id]].data.price = p
  <2>1. id \in LB!AtBest(t) <=>
          \A n \in LB!Opposite(t) : ~Better(Resting[n].side, Resting[n].price, Resting[id].price)
    BY <1>5, <1>6 DEF LB!AtBest, LB!Better, Better
  <2>2. CASE node[orders[id]].data.price = p
    <3>1. ASSUME NEW n \in LB!Opposite(t)
          PROVE  ~Better(Resting[n].side, Resting[n].price, Resting[id].price)
      BY <1>1, <1>5, <2>2
    <3> QED
      BY <2>1, <2>2, <3>1
  <2>3. CASE node[orders[id]].data.price # p
    <3>1. PICK n \in DOMAIN orders : n \in IdsOf(node, orders, s, p)
      BY <1>3
    <3>2. n \in LB!Opposite(t) /\ Resting[n].side = s /\ Resting[n].price = p
      BY <1>1, <1>5, <3>1 DEF IdsOf
    <3>3. node[orders[id]].data.price \in DOMAIN level[s] /\ node[orders[id]].data.price \in Prices
      BY <1>1, <1>6
    <3>4. Better(s, p, node[orders[id]].data.price)
      <4>1. ~Better(s, node[orders[id]].data.price, p)
        BY <3>3
      <4> QED
        BY <1>3, <2>3, <3>3, <4>1, BetterOrders
    <3> QED
      BY <1>1, <2>1, <2>3, <3>2, <3>4
  <2> QED
    BY <2>2, <2>3
<1>7. \A id : id \in LB!Eligible(t) <=>
        /\ id \in LB!AtBest(t) /\ Crosses(t.side, t.price, Resting[id].price)
        /\ Resting[id].user # t.user
  BY DEF LB!Eligible, LB!Crosses, Crosses
<1>8. \A id : id \in LB!AtBest(t) => id \in LB!Opposite(t)
  BY DEF LB!AtBest
<1> QED
  BY <1>1, <1>5, <1>6, <1>7, <1>8 DEF IdsOf

\* There is nobody to trade with if the other side is empty.
LEMMA NoMakers ==
    ASSUME Shape, NEW t, t.side \in Sides, DOMAIN level[Opposite(t.side)] = {}
    PROVE  LB!Eligible(t) = {}
<1>1. \A id \in DOMAIN orders :
        /\ Resting[id].side = node[orders[id]].data.side
        /\ Resting[id].side \in Sides
        /\ node[orders[id]].data.price \in DOMAIN level[node[orders[id]].data.side]
  <2> TAKE id \in DOMAIN orders
  <2>1. AtLevel(id, orders[id], node[orders[id]].data.side, node[orders[id]].data.price)
    BY Neighbours
  <2> QED
    BY <2>1 DEF AtLevel, Resting, AsResting
<1>2. \A r \in Sides : r # t.side => r = Opposite(t.side)
  BY DEF Opposite, Sides
<1>3. DOMAIN Resting = DOMAIN orders
  BY DEF Resting
<1> QED
  BY <1>1, <1>2, <1>3 DEF LB!Eligible, LB!AtBest, LB!Opposite

\* A step that only moves the walk.
Walking == UNCHANGED <<node, level, index, orders, pool, taker, trades, used, open>>

LEMMA WalkingInv ==
    ASSUME IInv, Walking, pc # "idle", pc' \in {"level", "walk", "rest"}, WalkInv',
           best' \in Prices \cup {0}, maker' \in Pointer, matched' \in BOOLEAN
    PROVE  IInv' /\ Resting' = Resting /\ Taken' = Taken
<1>1. Shape /\ TakerInv /\ WalkInv /\ OthersInv /\ PoolIsDisjoint
  BY DEF IInv
<1>2. Shape'
  BY <1>1 DEF Shape, Walking
<1>3. Taken' = Taken
  BY DEF Taken, Walking
<1>4. TakerInv'
  BY <1>1, <1>3 DEF TakerInv, Walking
<1>5. OthersInv'
  BY <1>1 DEF OthersInv, Walking
<1>6. PoolIsDisjoint'
  BY <1>1 DEF PoolIsDisjoint, Walking
<1>7. Resting' = Resting
  BY DEF Resting, Walking
<1> QED
  BY <1>2, <1>3, <1>4, <1>5, <1>6, <1>7 DEF IInv

\* What the invariant says of the order being placed.
LEMMA TakenFacts ==
    ASSUME IInv, pc # "idle"
    PROVE  /\ Shape /\ taker \in Nodes /\ taker \notin Range(orders) /\ open
           /\ Taken \in OrderData /\ Taken.side \in Sides /\ Opposite(Taken.side) \in Sides
           /\ Taken.rem \in Nat /\ Taken.id \notin DOMAIN orders
           /\ node[taker].prev = Nil /\ node[taker].next = Nil /\ node[taker].parent = Nil
           /\ SideOK(node, orders, level, index, Opposite(Taken.side))
<1>1. Shape /\ TakerInv /\ PoolIsDisjoint
  BY DEF IInv
<1>2. /\ taker \in Nodes /\ open /\ Taken \in OrderData /\ Taken.id \notin DOMAIN orders
      /\ taker # Nil
  BY <1>1 DEF TakerInv
<1>3. Taken.side \in Sides /\ Taken.rem \in Nat
  BY <1>2, DataTypes
<1>4. Opposite(Taken.side) \in Sides
  BY DEF Opposite, Sides
<1>5. /\ taker \notin Range(orders)
      /\ node[taker].prev = Nil /\ node[taker].next = Nil /\ node[taker].parent = Nil
  BY <1>1, <1>2 DEF PoolIsDisjoint
<1>6. SideOK(node, orders, level, index, Opposite(Taken.side))
  BY <1>1, <1>4, BookFacts
<1> QED
  BY <1>1, <1>2, <1>3, <1>4, <1>5, <1>6

LEMMA PickInv ==
    ASSUME IInv, PickLevel
    PROVE  IInv' /\ Resting' = Resting /\ Taken' = Taken
<1> DEFINE s == Opposite(Taken.side)
<1>1. pc = "level" /\ Walking
  BY DEF PickLevel, Walking
<1>2. /\ Shape /\ OthersInv /\ Taken.side \in Sides /\ s \in Sides
      /\ SideOK(node, orders, level, index, s)
  BY <1>1, TakenFacts DEF IInv
<1>3. Taken' = Taken
  BY <1>1 DEF Taken, Walking
<1>4. /\ DOMAIN level[s] = {p \in Prices : QueueOf(node, orders, s, p) # {}}
      /\ Indexes(index[s], s, DOMAIN level[s])
      /\ \A p \in DOMAIN level[s] :
           level[s][p] \in LevelState /\ IsLevel(node, orders, s, p, level[s][p])
  BY <1>2 DEF SideOK
<1>5. /\ index[s] = <<>> => DOMAIN level[s] = {}
      /\ index[s] # <<>> => /\ Head(index[s]) \in DOMAIN level[s] /\ Head(index[s]) \in Prices
                            /\ \A p \in DOMAIN level[s] : ~Better(s, p, Head(index[s]))
  BY <1>4, IndexHead
<1>6. CASE /\ Taken.rem > 0 /\ index[s] # <<>>
           /\ Crosses(Taken.side, Taken.price, Head(index[s]))
  <2> DEFINE b == Head(index[s])
             Q == QueueOf(node, orders, s, b)
  <2>1. best' = b /\ maker' = level[s][b].head /\ matched' = FALSE /\ pc' = "walk"
    BY <1>6 DEF PickLevel
  <2>2. b \in DOMAIN level[s] /\ b \in Prices /\ \A p \in DOMAIN level[s] : ~Better(s, p, b)
    BY <1>5, <1>6
  <2>3. First(node, maker', Q) /\ Q # {} /\ Q \subseteq Nodes
    <3>1. First(node, level[s][b].head, Q) /\ Q # {}
      BY <1>4, <2>2 DEF IsLevel, List
    <3>2. Q \subseteq Nodes
      BY <1>2, BookFacts, QueueOrdered
    <3> QED
      BY <2>1, <3>1, <3>2
  <2>4. /\ maker' \in Q /\ maker' \in Nodes /\ maker' # Nil
        /\ \A n \in Q : node[maker'].data.seq <= node[n].data.seq
    BY <2>3, AddressAssumption DEF First
  <2>5. QueueOf(node', orders', s, b) = Q /\ node' = node /\ level' = level
    BY <1>1 DEF Walking
  <2>6. WalkInv'
    <3> HIDE DEF Q, b
    <3>1. s = Opposite(Taken'.side) /\ Crosses(Taken'.side, Taken'.price, b)
      BY <1>3, <1>6 DEF b
    <3> HIDE DEF s
    <3> QED
      BY <1>3, <2>1, <2>2, <2>4, <2>5, <3>1 DEF WalkInv
  <2> HIDE DEF b
  <2>7. best' \in Prices \cup {0} /\ maker' \in Pointer /\ matched' \in BOOLEAN
    BY <2>1, <2>2, <2>4 DEF Pointer
  <2> QED
    BY <1>1, <2>1, <2>6, <2>7, WalkingInv
<1>7. CASE ~(/\ Taken.rem > 0 /\ index[s] # <<>>
             /\ Crosses(Taken.side, Taken.price, Head(index[s])))
  <2>1. pc' = "rest" /\ UNCHANGED <<best, maker, matched>>
    BY <1>7 DEF PickLevel
  <2>2. Taken.rem = 0 \/ LB!Eligible(Taken) = {}
    <3>1. CASE ~(Taken.rem > 0)
      BY <1>1, <3>1, TakenFacts
    <3>2. CASE index[s] = <<>>
      BY <1>2, <1>5, <3>2, NoMakers
    <3>3. CASE index[s] # <<>> /\ ~Crosses(Taken.side, Taken.price, Head(index[s]))
      <4>1. /\ Head(index[s]) \in DOMAIN level[s]
            /\ \A p \in DOMAIN level[s] : ~Better(s, p, Head(index[s]))
        BY <1>5, <3>3
      <4>2. LB!Eligible(Taken) = {id \in IdsOf(node, orders, s, Head(index[s])) :
                                /\ Crosses(Taken.side, Taken.price, Head(index[s]))
                                /\ node[orders[id]].data.user # Taken.user}
        BY <1>2, <4>1, MakersAtBest
      <4> QED
        BY <3>3, <4>2
    <3> QED
      BY <1>7, <3>1, <3>2, <3>3
  <2>3. LB!Eligible(Taken)' = LB!Eligible(Taken)
    BY <1>1 DEF Walking, LB!Eligible, LB!AtBest, LB!Opposite, Resting, Taken
  <2>4. WalkInv'
    BY <1>3, <2>1, <2>2, <2>3 DEF WalkInv
  <2> QED
    BY <1>1, <1>2, <2>1, <2>4, WalkingInv DEF OthersInv
<1> QED
  BY <1>6, <1>7

\* The order a walk stands at, and those behind it.
LEMMA Cursor ==
    ASSUME IInv, pc = "walk", maker # Nil, NEW s, s = Opposite(Taken.side)
    PROVE  /\ maker \in QueueOf(node, orders, s, best) /\ maker \in Nodes /\ maker # taker
           /\ \E id \in DOMAIN orders : maker = orders[id]
           /\ s = node[maker].data.side /\ best = node[maker].data.price
           /\ node[maker].next \in Pointer
           /\ node[maker].next # Nil => node[maker].next \in QueueOf(node, orders, s, best) \ {maker}
           /\ \A n \in QueueOf(node, orders, s, best) :
                node[maker].data.seq <= node[n].data.seq /\ n # maker =>
                   node[maker].next # Nil /\ node[node[maker].next].data.seq <= node[n].data.seq
<1> DEFINE Q == QueueOf(node, orders, s, best)
<1>1. Shape /\ WalkInv
  BY DEF IInv
<1>2. maker \in Q
  BY <1>1 DEF WalkInv
<1>3. maker \in Range(orders) /\ s = node[maker].data.side /\ best = node[maker].data.price
  BY <1>2 DEF QueueOf
<1>4. PICK id \in DOMAIN orders : maker = orders[id]
  BY <1>1, <1>3, BookFacts
<1>5. AtLevel(id, maker, s, best)
  <2>1. AtLevel(id, orders[id], node[orders[id]].data.side, node[orders[id]].data.price)
    BY <1>1, Neighbours
  <2> QED
    BY <1>3, <1>4, <2>1
<1>6. /\ First(node, node[maker].next, After(node, maker, Q))
      /\ node[maker].next # Nil => node[maker].next \in Q \ {maker}
  BY <1>5 DEF AtLevel
<1>7. Ordered(node, Q) /\ Q \subseteq Nodes
  BY <1>1, BookFacts, QueueOrdered
<1>8. ASSUME NEW n \in Q, node[maker].data.seq <= node[n].data.seq, n # maker
      PROVE  node[maker].next # Nil /\ node[node[maker].next].data.seq <= node[n].data.seq
  <2>1. n \in After(node, maker, Q)
    BY <1>2, <1>7, <1>8 DEF After, Ordered
  <2>2. After(node, maker, Q) \subseteq Q /\ Nil \notin Q
    BY <1>7, AddressAssumption DEF After
  <2> QED
    BY <1>6, <2>1, <2>2 DEF First
<1>9. maker \in Nodes /\ maker # taker
  BY <1>2, <1>3, <1>7, TakenFacts
<1> QED
  BY <1>2, <1>3, <1>4, <1>6, <1>7, <1>8, <1>9 DEF Pointer

LEMMA SkipInv ==
    ASSUME IInv, SkipOwn
    PROVE  IInv' /\ Resting' = Resting /\ Taken' = Taken
<1> DEFINE s == Opposite(Taken.side)
           Q == QueueOf(node, orders, s, best)
<1>1. /\ pc = "walk" /\ maker # Nil /\ Taken.rem > 0
      /\ node[maker].data.user = Taken.user /\ maker' = node[maker].next
      /\ UNCHANGED <<pc, best, matched>> /\ Walking
  BY DEF SkipOwn, Walking
<1>2. /\ maker' \in Pointer /\ maker \in Q
      /\ maker' # Nil => maker' \in Q
      /\ \A n \in Q : node[maker].data.seq <= node[n].data.seq /\ n # maker =>
              maker' # Nil /\ node[maker'].data.seq <= node[n].data.seq
  BY <1>1, Cursor
<1>3. WalkInv /\ OthersInv
  BY DEF IInv
<1>4. /\ best \in Prices /\ Crosses(Taken.side, Taken.price, best)
      /\ \A p \in DOMAIN level[s] : ~Better(s, p, best)
      /\ \A n \in Q : node[n].data.user # Taken.user => node[maker].data.seq <= node[n].data.seq
      /\ ~matched => best \in DOMAIN level[s]
  BY <1>1, <1>3 DEF WalkInv
<1>5. \A n \in Q : node[n].data.user # Taken.user =>
              maker' # Nil /\ node[maker'].data.seq <= node[n].data.seq
  BY <1>1, <1>2, <1>4
<1>6. Taken' = Taken /\ Opposite(Taken.side)' = s /\ QueueOf(node, orders, s, best)' = Q
  BY <1>1 DEF Taken, Walking
<1>7. node' = node /\ level' = level /\ best' = best /\ matched' = matched /\ pc' = "walk"
  BY <1>1 DEF Walking
<1>8. WalkInv'
  <2>1. QueueOf(node', orders', s, best') = Q /\ Opposite(Taken'.side) = s
    BY <1>6, <1>7
  <2> HIDE DEF Q, s
  <2> QED
    BY <1>2, <1>4, <1>5, <1>6, <1>7, <2>1 DEF WalkInv
<1> QED
  BY <1>1, <1>2, <1>3, <1>7, <1>8, WalkingInv DEF OthersInv

LEMMA EndWalkInv ==
    ASSUME IInv, EndWalk
    PROVE  IInv' /\ Resting' = Resting /\ Taken' = Taken
<1> DEFINE s == Opposite(Taken.side)
           Q == QueueOf(node, orders, s, best)
<1>1. /\ pc = "walk" /\ (maker = Nil \/ Taken.rem = 0)
      /\ pc' = IF matched THEN "level" ELSE "rest"
      /\ best' = 0 /\ maker' = Nil /\ matched' = FALSE /\ Walking
  BY DEF EndWalk, Walking
<1>2. WalkInv /\ Shape /\ Taken.side \in Sides /\ Taken.rem \in Nat
  BY <1>1, TakenFacts DEF IInv
<1>3. Taken' = Taken /\ LB!Eligible(Taken)' = LB!Eligible(Taken)
  BY <1>1 DEF Walking, LB!Eligible, LB!AtBest, LB!Opposite, Resting, Taken
<1>4. ~matched => Taken.rem = 0 \/ LB!Eligible(Taken) = {}
  <2>1. SUFFICES ASSUME ~matched, Taken.rem > 0 PROVE LB!Eligible(Taken) = {}
    BY <1>2
  <2>2. /\ best \in DOMAIN level[s] /\ \A p \in DOMAIN level[s] : ~Better(s, p, best)
        /\ \A n \in Q : node[n].data.user = Taken.user
    BY <1>1, <1>2, <2>1 DEF WalkInv
  <2>3. LB!Eligible(Taken) = {id \in IdsOf(node, orders, s, best) :
                                /\ Crosses(Taken.side, Taken.price, best)
                                /\ node[orders[id]].data.user # Taken.user}
    BY <1>2, <2>2, MakersAtBest
  <2>4. \A id \in IdsOf(node, orders, s, best) : orders[id] \in Q
    BY <1>2, BookFacts DEF IdsOf, QueueOf
  <2> QED
    BY <2>2, <2>3, <2>4
<1>5. WalkInv'
  BY <1>1, <1>3, <1>4 DEF WalkInv
<1> QED
  BY <1>1, <1>5, WalkingInv DEF Pointer

LEMMA EndPlaceInv ==
    ASSUME IInv, EndPlace
    PROVE  /\ IInv'
           /\ Resting' = IF Taken.rem = 0 THEN Resting
                         ELSE Bind(Resting, Taken.id, AsResting(Taken, Taken.rem))
<1> DEFINE d == Taken
<1>1. /\ pc = "rest" /\ pc' = "idle" /\ taker' = Nil
      /\ UNCHANGED <<pool, best, maker, matched, trades, used, open>>
  BY DEF EndPlace
<1>2. /\ Shape /\ TakerInv /\ OthersInv /\ PoolIsDisjoint
      /\ taker \in Nodes /\ taker \notin Range(orders)
      /\ d \in OrderData /\ d.rem \in Nat /\ d.id \notin DOMAIN orders
      /\ node[taker].prev = Nil /\ node[taker].next = Nil
      /\ d.id \in used /\ d.seq <= Cardinality(used)
      /\ \A id \in DOMAIN orders : node[orders[id]].data.seq < d.seq
      /\ node \in [Nodes -> NodeState] /\ Range(orders) \subseteq Nodes /\ Nil \notin Nodes
  <2>1. TakerInv /\ taker # Nil
    BY <1>1 DEF IInv, TakerInv
  <2> QED
    BY <1>1, <2>1, TakenFacts, BookFacts DEF IInv, TakerInv
<1>3. WalkInv'
  BY <1>1 DEF WalkInv
<1>4. \A m \in pool : m \in Nodes \ {taker} /\ m \notin Range(orders) /\ m # Nil
  BY <1>2 DEF PoolIsDisjoint, OthersInv
<1>5. CASE Taken.rem > 0
  <2> HIDE DEF d
  <2>1. AddOrder(taker, d)
    BY <1>5 DEF EndPlace, d
  <2>2. d.rem > 0
    BY <1>5 DEF d
  <2>3. /\ Shape' /\ Resting' = Bind(Resting, d.id, AsResting(d, d.rem))
        /\ node'[taker].data = d
        /\ \A m \in Nodes \ {taker} : m \notin Range(orders) => node'[m] = node[m]
        /\ \A m \in Nodes \ {taker} : node'[m].data = node[m].data
    BY <1>2, <2>1, <2>2, AddShape
  <2>4. /\ DOMAIN orders' = DOMAIN orders \cup {d.id} /\ orders'[d.id] = taker
        /\ \A i \in DOMAIN orders : orders'[i] = orders[i]
        /\ Range(orders') = Range(orders) \cup {taker}
    <3>1. orders' = Bind(orders, d.id, taker)
      BY <2>1 DEF AddOrder
    <3>2. /\ DOMAIN orders' = DOMAIN orders \cup {d.id} /\ orders'[d.id] = taker
          /\ \A i \in DOMAIN orders : orders'[i] = orders[i]
      BY <1>2, <3>1 DEF Bind
    <3> QED
      BY <3>2 DEF Range
  <2>5. TakerInv'
    <3>1. \A i \in DOMAIN orders : orders[i] \in Nodes \ {taker}
      BY <1>2, BookFacts
    <3>2. \A i \in DOMAIN orders : node'[orders'[i]].data.seq <= Cardinality(used')
      BY <1>1, <1>2, <2>3, <2>4, <3>1 DEF TakerInv
    <3>3. node'[orders'[d.id]].data.seq <= Cardinality(used')
      BY <1>1, <1>2, <2>3, <2>4
    <3>4. \A i \in DOMAIN orders' : node'[orders'[i]].data.seq <= Cardinality(used')
      BY <2>4, <3>2, <3>3
    <3> QED
      BY <1>1, <3>4 DEF TakerInv
  <2>6. OthersInv'
    <3>1. \A m \in Nodes \ Range(orders') :
            node'[m].prev = Nil /\ node'[m].next = Nil /\ node'[m].parent = Nil
      BY <1>2, <2>3, <2>4 DEF OthersInv
    <3>2. DOMAIN orders' \subseteq used'
      BY <1>1, <1>2, <2>4 DEF OthersInv
    <3> QED
      BY <1>1, <1>2, <3>1, <3>2 DEF OthersInv
  <2>7. PoolIsDisjoint'
    <3>1. \A m \in pool : node'[m].prev = Nil /\ node'[m].next = Nil /\ node'[m].parent = Nil
      BY <1>2, <1>4, <2>3 DEF OthersInv
    <3>2. pool' = pool /\ pool \cap (Range(orders') \cup {Nil}) = {} /\ Nil \notin Range(orders')
      BY <1>1, <1>2, <1>4, <2>4
    <3> QED
      BY <1>1, <3>1, <3>2 DEF PoolIsDisjoint
  <2>8. Taken.rem # 0
    BY <1>5
  <2> QED
    BY <1>3, <2>3, <2>5, <2>6, <2>7, <2>8 DEF IInv, d
<1>6. CASE ~(Taken.rem > 0)
  <2>1. Taken.rem = 0
    BY <1>2, <1>6
  <2>2. /\ node' = [node EXCEPT ![taker] = Detached(NoData)]
        /\ UNCHANGED <<level, index, orders>>
    BY <1>6 DEF EndPlace
  <2>3. /\ node'[taker] = Detached(NoData) /\ \A m \in Nodes \ {taker} : node'[m] = node[m]
        /\ DOMAIN node' = Nodes /\ node' = [m \in Nodes |-> node'[m]]
    BY <1>2, <2>2
  <2>4. /\ node'[taker].prev = Nil /\ node'[taker].next = Nil /\ node'[taker].parent = Nil
        /\ node'[taker] \in NodeState
    BY <2>3 DEF Detached, NodeState, Pointer
  <2>5. node' \in [Nodes -> NodeState]
    <3>1. \A m \in Nodes : node'[m] \in NodeState
      BY <1>2, <2>3, <2>4
    <3> QED
      BY <2>3, <3>1
  <2>6. Shape' /\ Resting' = Resting
    <3>1. BookOK(node, orders, level, index)
      BY <1>2 DEF Shape
    <3>2. \A m \in Range(orders) : node'[m] = node[m]
      BY <1>2, <2>3
    <3>3. BookOK(node', orders, level, index) /\ RestingOf(node', orders) = RestingOf(node, orders)
      BY <2>5, <3>1, <3>2, BookFrame
    <3> QED
      BY <2>2, <3>3 DEF Shape, Resting, RestingOf
  <2>7. TakerInv'
    <3>1. \A i \in DOMAIN orders : orders[i] \in Nodes \ {taker}
      BY <1>2, BookFacts
    <3>2. \A i \in DOMAIN orders' : node'[orders'[i]].data.seq <= Cardinality(used')
      BY <1>1, <1>2, <2>2, <2>3, <3>1 DEF TakerInv
    <3> QED
      BY <1>1, <3>2 DEF TakerInv
  <2>8. OthersInv'
    <3>1. \A m \in Nodes \ Range(orders') :
            node'[m].prev = Nil /\ node'[m].next = Nil /\ node'[m].parent = Nil
      BY <1>2, <2>2, <2>3, <2>4 DEF OthersInv
    <3> QED
      BY <1>1, <1>2, <2>2, <3>1 DEF OthersInv
  <2>9. PoolIsDisjoint'
    <3>1. \A m \in pool : node'[m].prev = Nil /\ node'[m].next = Nil /\ node'[m].parent = Nil
      BY <1>2, <1>4, <2>3 DEF OthersInv
    <3>2. pool' = pool /\ pool \cap (Range(orders') \cup {Nil}) = {} /\ Nil \notin Range(orders')
      BY <1>1, <1>2, <1>4, <2>2
    <3> QED
      BY <1>1, <3>1, <3>2 DEF PoolIsDisjoint
  <2> QED
    BY <1>3, <2>1, <2>6, <2>7, <2>8, <2>9 DEF IInv
<1> QED
  BY <1>5, <1>6

LEMMA CancelInv ==
    ASSUME IInv, NEW id \in DOMAIN orders, CancelOrder(id)
    PROVE  IInv' /\ Resting' = Unbind(Resting, id)
<1> DEFINE n == orders[id]
           s == node[n].data.side
           p == node[n].data.price
           v == level[s][p].total - node[n].data.rem
<1>1. /\ pc = "idle" /\ open /\ RemoveOrder(n, node, v)
      /\ UNCHANGED <<pc, taker, best, maker, matched, trades, used, open>>
  BY DEF CancelOrder
<1>2. Shape /\ TakerInv /\ OthersInv /\ PoolIsDisjoint /\ taker = Nil
  BY <1>1 DEF IInv, TakerInv
<1>3. SameBook(node, n)
  BY <1>2, BookFacts DEF SameBook
<1>4. IsRemoval(id, n, s, p, v)
  BY DEF IsRemoval
<1>5. /\ node \in [Nodes -> NodeState] /\ Range(orders) \subseteq Nodes /\ Nil \notin Nodes
      /\ n \in Nodes
      /\ \A i \in DOMAIN orders : orders[i] \in Nodes
  BY <1>2, BookFacts
<1> HIDE DEF n, s, p, v
<1>6. /\ Shape' /\ Resting' = Unbind(Resting, id)
      /\ orders' = Unbind(orders, id) /\ Range(orders') = Range(orders) \ {n}
      /\ pool' = pool \cup {n}
      /\ node'[n] = Detached(node[n].data)
      /\ \A m \in Nodes \ {n} : m \notin Range(orders) => node'[m] = node[m]
      /\ \A m \in Nodes \ {n} : node'[m].data = node[m].data
  BY <1>1, <1>2, <1>3, <1>4, RemoveShape
<1>7. /\ DOMAIN orders' = DOMAIN orders \ {id}
      /\ \A i \in DOMAIN orders' : orders'[i] = orders[i]
  BY <1>6 DEF Unbind, Restrict
<1>8. \A m \in Nodes : node'[m].data = node[m].data
  BY <1>6 DEF Detached
<1>9. /\ node'[n].prev = Nil /\ node'[n].next = Nil /\ node'[n].parent = Nil
  BY <1>6 DEF Detached
<1>10. TakerInv'
  <2>1. \A i \in DOMAIN orders' : i \in DOMAIN orders /\ orders'[i] = orders[i] /\ orders[i] \in Nodes
    BY <1>5, <1>7
  <2>2. \A i \in DOMAIN orders' : node'[orders'[i]].data.seq <= Cardinality(used')
    BY <1>1, <1>2, <1>8, <2>1 DEF TakerInv
  <2> QED
    BY <1>1, <1>2, <2>2 DEF TakerInv
<1>11. WalkInv'
  BY <1>1 DEF WalkInv
<1>12. \A m \in Nodes \ Range(orders') :
         node'[m].prev = Nil /\ node'[m].next = Nil /\ node'[m].parent = Nil
  BY <1>2, <1>6, <1>9 DEF OthersInv
<1>13. OthersInv'
  <2>1. DOMAIN orders' \subseteq used' /\ pool' \subseteq Nodes
    BY <1>1, <1>2, <1>5, <1>6, <1>7 DEF OthersInv
  <2> QED
    BY <1>1, <1>2, <1>12, <2>1 DEF OthersInv
<1>14. PoolIsDisjoint'
  <2>1. \A m \in pool' : m \in Nodes \ Range(orders')
    BY <1>2, <1>5, <1>6 DEF PoolIsDisjoint, OthersInv
  <2>2. taker' = Nil /\ Nil \notin Range(orders') /\ pool' \cap (Range(orders') \cup {taker'}) = {}
    BY <1>1, <1>2, <1>5, <1>6, <2>1
  <2> QED
    BY <1>12, <2>1, <2>2 DEF PoolIsDisjoint
<1> QED
  BY <1>6, <1>10, <1>11, <1>13, <1>14 DEF IInv

\* The order d with q less left.
Less(d, q) == [d EXCEPT !.rem = @ - q]

LEMMA LessData ==
    ASSUME NEW d \in OrderData, NEW q \in Nat, q <= d.rem
    PROVE  /\ Less(d, q) \in OrderData /\ Less(d, q).rem = d.rem - q
           /\ Less(d, q).id = d.id /\ Less(d, q).user = d.user /\ Less(d, q).side = d.side
           /\ Less(d, q).price = d.price /\ Less(d, q).qty = d.qty /\ Less(d, q).seq = d.seq
<1>1. d.rem \in Nat
  BY DataTypes
<1>2. d.rem - q \in Nat
  BY <1>1
<1> QED
  BY <1>2 DEF Less, OrderData

\* The heap h after a trade of q between the taker and the maker.
Traded(q) == [node EXCEPT ![taker].data.rem = @ - q, ![maker].data.rem = @ - q]

\* m and e are the maker before and after, q what is traded.
LEMMA TradedHeap ==
    ASSUME IInv, pc = "walk", maker # Nil, NEW q \in Nat,
           q <= Taken.rem, q <= node[maker].data.rem, NEW h, h = Traded(q)
    PROVE  /\ SameBook(h, maker)
           /\ h[taker].data = Less(Taken, q) /\ h[maker].data = Less(node[maker].data, q)
           /\ h[taker].prev = Nil /\ h[taker].next = Nil /\ h[taker].parent = Nil
           /\ \A m \in Nodes \ {taker, maker} : h[m] = node[m]
<1> DEFINE d == node[maker].data
<1>1. /\ Shape /\ taker \in Nodes /\ taker \notin Range(orders) /\ Taken \in OrderData
      /\ node[taker].prev = Nil /\ node[taker].next = Nil /\ node[taker].parent = Nil
  BY TakenFacts
<1>2. /\ node \in [Nodes -> NodeState] /\ Range(orders) \subseteq Nodes
  BY <1>1, BookFacts
<1>3. maker \in Nodes /\ maker # taker
  BY Cursor
<1>4. PICK id \in DOMAIN orders : maker = orders[id]
  BY Cursor
<1>5. d \in OrderData
  BY <1>1, <1>4, BookFacts
<1>6. node[taker] \in NodeState /\ node[maker] \in NodeState
  BY <1>1, <1>2, <1>3
<1>7. /\ h[taker] = [node[taker] EXCEPT !.data.rem = @ - q]
      /\ h[maker] = [node[maker] EXCEPT !.data.rem = @ - q]
      /\ \A m \in Nodes \ {taker, maker} : h[m] = node[m]
      /\ DOMAIN h = Nodes /\ h = [m \in Nodes |-> h[m]]
  BY <1>1, <1>2, <1>3 DEF Traded
<1>8. /\ Less(Taken, q) \in OrderData /\ Less(d, q) \in OrderData
      /\ Less(d, q).side = d.side /\ Less(d, q).price = d.price /\ Less(d, q).id = d.id
  BY <1>1, <1>5, LessData
<1>9. ASSUME NEW x \in NodeState, NEW y, y = [x EXCEPT !.data.rem = @ - q], Less(x.data, q) \in OrderData
      PROVE  /\ y.data = Less(x.data, q) /\ y.next = x.next /\ y.prev = x.prev
             /\ y.parent = x.parent /\ y \in NodeState
  <2>1. y = [x EXCEPT !.data = Less(x.data, q)]
    BY <1>9 DEF Less, NodeState
  <2>2. /\ y.data = Less(x.data, q) /\ y.next = x.next /\ y.prev = x.prev
        /\ y.parent = x.parent
    BY <2>1 DEF NodeState
  <2>3. y \in NodeState
    BY <1>9, <2>1 DEF NodeState
  <2> QED
    BY <2>2, <2>3
<1>10. /\ h[taker].data = Less(Taken, q) /\ h[taker].next = node[taker].next
       /\ h[taker].prev = node[taker].prev /\ h[taker].parent = node[taker].parent
       /\ h[taker] \in NodeState
  BY <1>6, <1>7, <1>8, <1>9 DEF Taken
<1>11. /\ h[maker].data = Less(d, q) /\ h[maker].next = node[maker].next
       /\ h[maker].prev = node[maker].prev /\ h[maker].parent = node[maker].parent
       /\ h[maker] \in NodeState
  BY <1>6, <1>7, <1>8, <1>9
<1>12. h \in [Nodes -> NodeState]
  <2>1. \A m \in Nodes : h[m] \in NodeState
    BY <1>2, <1>7, <1>10, <1>11
  <2> QED
    BY <1>7, <2>1
<1>13. \A m \in Range(orders) \ {maker} : h[m] = node[m]
  BY <1>1, <1>2, <1>7
<1> QED
  BY <1>1, <1>7, <1>8, <1>10, <1>11, <1>12, <1>13 DEF SameBook

\* What a trade does to the book.
LEMMA TradeBook ==
    ASSUME IInv, Trade, NEW q, q = Lesser(Taken.rem, node[maker].data.rem)
    PROVE  \E id \in DOMAIN orders :
              /\ maker = orders[id]
              /\ q \in Nat /\ q > 0 /\ q <= Taken.rem /\ q <= node[maker].data.rem
              /\ q = Taken.rem \/ q = node[maker].data.rem
              /\ Shape' /\ Taken' = Less(Taken, q)
              /\ Resting' = IF Resting[id].rem = q THEN Unbind(Resting, id)
                            ELSE [Resting EXCEPT ![id].rem = @ - q]
              /\ \/ pool' = pool /\ orders' = orders
                 \/ /\ pool' = pool \cup {maker} /\ orders' = Unbind(orders, id)
                    /\ Range(orders') = Range(orders) \ {maker}
              /\ q # Taken.rem => orders' = Unbind(orders, id)
              /\ \A m \in Nodes : m # taker /\ m # maker => node'[m].data = node[m].data
              /\ node'[maker].data = Less(node[maker].data, q)
              /\ \A m \in Nodes \ Range(orders') :
                   node'[m].prev = Nil /\ node'[m].next = Nil /\ node'[m].parent = Nil
<1> DEFINE s == Opposite(Taken.side)
           d == node[maker].data
           h == Traded(q)
           v == level[s][best].total - q
<1>1. /\ pc = "walk" /\ maker # Nil /\ Taken.rem > 0
      /\ IF d.rem = q THEN RemoveOrder(maker, h, v)
         ELSE /\ node' = h /\ level' = [level EXCEPT ![s][best].total = v]
              /\ UNCHANGED <<index, orders, pool>>
      /\ taker' = taker
  BY DEF Trade, Traded
<1>2. /\ Shape /\ OthersInv /\ taker \in Nodes /\ taker \notin Range(orders) /\ Taken \in OrderData
      /\ Taken.rem \in Nat
      /\ node[taker].prev = Nil /\ node[taker].next = Nil /\ node[taker].parent = Nil
  BY <1>1, TakenFacts DEF IInv
<1>3. PICK id \in DOMAIN orders : maker = orders[id]
  BY <1>1, Cursor
<1>4. maker \in Nodes /\ maker # taker /\ s = d.side /\ best = d.price /\ maker \in Range(orders)
  BY <1>1, Cursor DEF QueueOf
<1>5. OrdersOK(node, orders) /\ Range(orders) \subseteq Nodes
  BY <1>2, BookFacts
<1>6. d \in OrderData /\ d.id = id /\ d.rem \in Nat /\ d.rem > 0
  BY <1>3, <1>5, BookedTypes
<1>7. /\ q \in Nat /\ q > 0 /\ q <= Taken.rem /\ q <= d.rem
      /\ q = Taken.rem \/ q = d.rem
  BY <1>1, <1>2, <1>6 DEF Lesser
<1>8. /\ SameBook(h, maker)
      /\ h[taker].data = Less(Taken, q) /\ h[maker].data = Less(d, q)
      /\ h[taker].prev = Nil /\ h[taker].next = Nil /\ h[taker].parent = Nil
      /\ \A m \in Nodes \ {taker, maker} : h[m] = node[m]
  <2> HIDE DEF h
  <2>1. h = Traded(q)
    BY DEF h
  <2> QED
    BY <1>1, <1>7, <2>1, TradedHeap
<1>9. Resting[id].rem = d.rem
  BY <1>3 DEF Resting, AsResting
<1> HIDE DEF h, v, s
<1>10. CASE d.rem = q
  <2>1. RemoveOrder(maker, h, v)
    BY <1>1, <1>10
  <2>2. IsRemoval(id, maker, s, best, v)
    BY <1>3, <1>4, <1>10 DEF IsRemoval, v
  <2>3. /\ Shape' /\ Resting' = Unbind(Resting, id)
        /\ orders' = Unbind(orders, id) /\ Range(orders') = Range(orders) \ {maker}
        /\ pool' = pool \cup {maker}
        /\ node'[maker] = Detached(h[maker].data)
        /\ \A m \in Nodes \ {maker} : m \notin Range(orders) => node'[m] = h[m]
        /\ \A m \in Nodes \ {maker} : node'[m].data = h[m].data
    BY <1>2, <1>8, <2>1, <2>2, RemoveShape
  <2>4. Taken' = Less(Taken, q)
    <3>1. node'[taker].data = h[taker].data
      BY <1>2, <1>4, <2>3
    <3> QED
      BY <1>1, <1>8, <3>1 DEF Taken
  <2>5. \A m \in Nodes : m # taker /\ m # maker => node'[m].data = node[m].data
    BY <1>8, <2>3
  <2>6. node'[maker].data = Less(d, q) /\ node'[maker].prev = Nil /\ node'[maker].next = Nil
        /\ node'[maker].parent = Nil
    BY <1>8, <2>3 DEF Detached
  <2>7. \A m \in Nodes \ Range(orders') :
          node'[m].prev = Nil /\ node'[m].next = Nil /\ node'[m].parent = Nil
    <3> TAKE m \in Nodes \ Range(orders')
    <3>1. CASE m = maker
      BY <2>6, <3>1
    <3>2. CASE m = taker
      BY <1>2, <1>4, <1>8, <2>3, <3>2
    <3>3. CASE m # maker /\ m # taker
      <4>1. m \notin Range(orders) /\ node'[m] = h[m] /\ h[m] = node[m]
        BY <1>8, <2>3, <3>3
      <4> QED
        BY <1>2, <4>1 DEF OthersInv
    <3> QED
      BY <3>1, <3>2, <3>3
  <2> QED
    BY <1>3, <1>7, <1>9, <1>10, <2>3, <2>4, <2>5, <2>6, <2>7
<1>11. CASE d.rem # q
  <2>1. /\ node' = h /\ level' = [level EXCEPT ![s][best].total = v]
        /\ UNCHANGED <<index, orders, pool>>
    BY <1>1, <1>11
  <2>2. AtLevel(id, maker, s, best)
    <3>1. AtLevel(id, orders[id], node[orders[id]].data.side, node[orders[id]].data.price)
      BY <1>2, Neighbours
    <3> QED
      BY <1>3, <1>4, <3>1
  <2>3. level' = [level EXCEPT ![s][best].total = @ - q]
    BY <2>1 DEF v
  <2>4. IsReduction(id, maker, s, best, q, h)
    <3>1. d.rem - q \in Nat \ {0}
      BY <1>6, <1>7, <1>11
    <3>2. h[maker].data = [node[maker].data EXCEPT !.rem = @ - q]
      BY <1>8 DEF Less
    <3> QED
      BY <1>3, <1>4, <1>7, <3>1, <3>2 DEF IsReduction
  <2>5. Shape' /\ Resting' = [Resting EXCEPT ![id].rem = @ - q]
    <3>1. Reduces(s, best, q, h)
      BY <2>1, <2>3 DEF Reduces
    <3>2. Shape /\ SameBook(h, maker)
      BY <1>2, <1>8
    <3> QED
      BY <2>4, <3>1, <3>2, ReduceShape
  <2>6. Taken' = Less(Taken, q)
    BY <1>1, <1>8, <2>1 DEF Taken
  <2>7. \A m \in Nodes \ Range(orders') :
          node'[m].prev = Nil /\ node'[m].next = Nil /\ node'[m].parent = Nil
    BY <1>2, <1>4, <1>8, <2>1 DEF OthersInv
  <2>8. q = Taken.rem
    BY <1>7, <1>11
  <2> QED
    BY <1>3, <1>7, <1>8, <1>9, <1>11, <2>1, <2>5, <2>6, <2>7, <2>8
<1> QED
  BY <1>10, <1>11

LEMMA TradeInv == ASSUME IInv, Trade PROVE IInv'
<1> DEFINE s == Opposite(Taken.side)
           Q == QueueOf(node, orders, s, best)
           q == Lesser(Taken.rem, node[maker].data.rem)
<1>1. /\ pc = "walk" /\ maker # Nil /\ Taken.rem > 0
      /\ node[maker].data.user # Taken.user
      /\ maker' = node[maker].next /\ matched' = TRUE
      /\ trades' = Append(trades,
                [side |-> Taken.side, price |-> best, qty |-> q,
                 takerId |-> Taken.id, makerId |-> node[maker].data.id,
                 takerUser |-> Taken.user, makerUser |-> node[maker].data.user])
      /\ UNCHANGED <<pc, taker, best, used, open>>
  BY DEF Trade
<1>2. PICK id \in DOMAIN orders :
              /\ maker = orders[id]
              /\ q \in Nat /\ q > 0 /\ q <= Taken.rem /\ q <= node[maker].data.rem
              /\ Shape' /\ Taken' = Less(Taken, q)
              /\ \/ pool' = pool /\ orders' = orders
                 \/ /\ pool' = pool \cup {maker} /\ orders' = Unbind(orders, id)
                    /\ Range(orders') = Range(orders) \ {maker}
              /\ q # Taken.rem => orders' = Unbind(orders, id)
              /\ \A m \in Nodes : m # taker /\ m # maker => node'[m].data = node[m].data
              /\ node'[maker].data = Less(node[maker].data, q)
              /\ \A m \in Nodes \ Range(orders') :
                   node'[m].prev = Nil /\ node'[m].next = Nil /\ node'[m].parent = Nil
  <2> HIDE DEF q
  <2>1. q = Lesser(Taken.rem, node[maker].data.rem)
    BY DEF q
  <2> QED
    BY <2>1, TradeBook
<1>3. /\ Shape /\ TakerInv /\ WalkInv /\ OthersInv /\ PoolIsDisjoint
      /\ taker \in Nodes /\ taker \notin Range(orders) /\ Taken \in OrderData /\ Taken.rem \in Nat
      /\ s \in Sides /\ SideOK(node, orders, level, index, s)
  BY <1>1, TakenFacts DEF IInv
<1>4. /\ maker \in Q /\ maker \in Nodes /\ maker # taker
      /\ node[maker].next \in Pointer
      /\ node[maker].next # Nil => node[maker].next \in Q \ {maker}
      /\ \A n \in Q : node[maker].data.seq <= node[n].data.seq /\ n # maker =>
              node[maker].next # Nil /\ node[node[maker].next].data.seq <= node[n].data.seq
  BY <1>1, Cursor
<1>5. /\ Range(orders) \subseteq Nodes /\ node[maker].data \in OrderData /\ Nil \notin Nodes
      /\ \A i \in DOMAIN orders : orders[i] \in Nodes /\ orders[i] \in Range(orders)
  BY <1>2, <1>3, BookFacts
<1>6. /\ Taken'.rem = Taken.rem - q /\ Taken' \in OrderData
      /\ Taken'.id = Taken.id /\ Taken'.user = Taken.user /\ Taken'.side = Taken.side
      /\ Taken'.price = Taken.price /\ Taken'.seq = Taken.seq
  BY <1>2, <1>3, LessData
<1>7. \A m \in Range(orders) :
        /\ node'[m].data.seq = node[m].data.seq /\ node'[m].data.user = node[m].data.user
        /\ node'[m].data.side = node[m].data.side /\ node'[m].data.price = node[m].data.price
  <2> TAKE m \in Range(orders)
  <2>1. CASE m = maker
    BY <1>2, <1>5, <2>1, LessData
  <2>2. CASE m # maker
    BY <1>2, <1>3, <1>5, <2>2
  <2> QED
    BY <2>1, <2>2
<1>8. /\ \A i \in DOMAIN orders' : i \in DOMAIN orders /\ orders'[i] = orders[i]
      /\ Range(orders') \subseteq Range(orders)
      /\ q # Taken.rem => Range(orders') = Range(orders) \ {maker}
      /\ pool' \subseteq pool \cup {maker} /\ pool' \cap Range(orders') = {}
      /\ Range(orders) \ {maker} \subseteq Range(orders')
  <2>1. pool \cap Range(orders) = {}
    BY <1>3 DEF PoolIsDisjoint
  <2>2. CASE pool' = pool /\ orders' = orders
    <3>1. q = Taken.rem
      <4>1. SUFFICES ASSUME q # Taken.rem PROVE FALSE
        OBVIOUS
      <4>2. orders = Unbind(orders, id)
        BY <1>2, <2>2, <4>1
      <4>3. id \notin DOMAIN Unbind(orders, id)
        BY DEF Unbind, Restrict
      <4> QED
        BY <4>2, <4>3
    <3> HIDE DEF q
    <3> QED
      BY <2>1, <2>2, <3>1
  <2>3. CASE /\ pool' = pool \cup {maker} /\ orders' = Unbind(orders, id)
             /\ Range(orders') = Range(orders) \ {maker}
    <3>1. \A i \in DOMAIN orders' : i \in DOMAIN orders /\ orders'[i] = orders[i]
      BY <2>3 DEF Unbind, Restrict
    <3> HIDE DEF q
    <3> QED
      BY <2>1, <2>3, <3>1
  <2> QED
    BY <1>2, <2>2, <2>3
<1> HIDE DEF s, Q, q
<1>9. TakerInv'
  <2>1. \A i \in DOMAIN orders' : node'[orders'[i]].data.seq = node[orders[i]].data.seq
    BY <1>5, <1>7, <1>8
  <2>2. \A i \in DOMAIN orders' : /\ node'[orders'[i]].data.seq <= Cardinality(used')
                                  /\ node'[orders'[i]].data.seq < Taken'.seq
    BY <1>1, <1>3, <1>5, <1>6, <1>8, <2>1 DEF TakerInv
  <2>3. /\ Taken'.id \in used' /\ Taken'.id \notin DOMAIN orders' /\ Taken'.seq <= Cardinality(used')
        /\ open'
    BY <1>1, <1>3, <1>5, <1>6, <1>8 DEF TakerInv
  <2> QED
    BY <1>1, <1>3, <1>6, <2>2, <2>3 DEF TakerInv
<1>10. Opposite(Taken'.side) = s
  BY <1>6 DEF s
<1>11. /\ Q \subseteq Range(orders)
       /\ \A n : n \in QueueOf(node', orders', s, best') <=> n \in Q /\ n \in Range(orders')
  BY <1>1, <1>7, <1>8 DEF Q, QueueOf
<1>12. maker' # Nil => maker' \in QueueOf(node', orders', s, best')
  <2>1. SUFFICES ASSUME maker' # Nil PROVE maker' \in QueueOf(node', orders', s, best')
    OBVIOUS
  <2>2. maker' \in Q \ {maker}
    BY <1>1, <1>4, <2>1
  <2>3. maker' \in Range(orders')
    BY <1>8, <1>11, <2>2
  <2> QED
    BY <1>11, <2>2, <2>3
<1>13. ASSUME Taken'.rem > 0, NEW n \in QueueOf(node', orders', s, best'),
              node'[n].data.user # Taken'.user
       PROVE  maker' # Nil /\ node'[maker'].data.seq <= node'[n].data.seq
  <2>1. q # Taken.rem
    BY <1>2, <1>3, <1>6, <1>13
  <2>2. n \in Q /\ n \in Range(orders) /\ n # maker
    BY <1>8, <1>11, <1>13, <2>1
  <2>3. node[n].data.user # Taken.user
    BY <1>6, <1>7, <1>13, <2>2
  <2>4. node[maker].data.seq <= node[n].data.seq
    BY <1>1, <1>3, <2>2, <2>3 DEF WalkInv, Q, s
  <2>5. maker' # Nil /\ node[maker'].data.seq <= node[n].data.seq
    BY <1>1, <1>4, <2>2, <2>4
  <2>6. maker' \in Range(orders)
    BY <1>11, <1>12, <2>5
  <2> QED
    BY <1>7, <2>2, <2>5, <2>6
<1>14. ASSUME NEW p \in DOMAIN level'[s] PROVE ~Better(s, p, best')
  <2>1. SideOK(node', orders', level', index', s)
    BY <1>2, <1>3 DEF Shape, BookOK
  <2>2. p \in Prices /\ QueueOf(node', orders', s, p) # {}
    BY <2>1 DEF SideOK
  <2>3. QueueOf(node', orders', s, p) \subseteq QueueOf(node, orders, s, p)
    BY <1>7, <1>8 DEF QueueOf
  <2>4. p \in DOMAIN level[s]
    BY <1>3, <2>2, <2>3 DEF SideOK
  <2> QED
    BY <1>1, <1>3, <2>4 DEF WalkInv, s
<1>15. WalkInv'
  <2>1. best' \in Prices /\ Crosses(Taken'.side, Taken'.price, best')
    BY <1>1, <1>3, <1>6 DEF WalkInv
  <2> QED
    BY <1>1, <1>10, <1>12, <1>13, <1>14, <2>1 DEF WalkInv
<1>16. OthersInv'
  <2>1. trades' \in Seq(LB!Trade)
    <3> DEFINE t == [side |-> Taken.side, price |-> best, qty |-> q,
                 takerId |-> Taken.id, makerId |-> node[maker].data.id,
                 takerUser |-> Taken.user, makerUser |-> node[maker].data.user]
    <3>1. /\ Taken.side \in Sides /\ Taken.id \in OrderIds /\ Taken.user \in Users
          /\ node[maker].data.id \in OrderIds /\ node[maker].data.user \in Users
      BY <1>3, <1>5, DataTypes
    <3>2. best \in Prices /\ q \in Nat \ {0}
      BY <1>1, <1>2, <1>3 DEF WalkInv
    <3>3. t \in LB!Trade
      BY <3>1, <3>2 DEF LB!Trade, LB!Sides, Sides
    <3>4. trades \in Seq(LB!Trade)
      BY <1>3 DEF OthersInv
    <3>5. trades' = Append(trades, t)
      BY <1>1 DEF q
    <3> HIDE DEF t
    <3> QED
      BY <3>3, <3>4, <3>5
  <2>2. DOMAIN orders' \subseteq used' /\ used' \subseteq OrderIds /\ pool' \subseteq Nodes
    BY <1>1, <1>3, <1>4, <1>8 DEF OthersInv
  <2>3. best' \in Prices \cup {0} /\ maker' \in Pointer /\ matched' \in BOOLEAN /\ open' \in BOOLEAN
    BY <1>1, <1>3, <1>4 DEF OthersInv
  <2> QED
    BY <1>2, <2>1, <2>2, <2>3 DEF OthersInv
<1>17. PoolIsDisjoint'
  <2>1. taker' = taker /\ taker' \notin Range(orders') /\ taker' \notin pool'
    BY <1>1, <1>3, <1>4, <1>8 DEF PoolIsDisjoint
  <2>2. \A m \in pool' \cup {taker'} : m \in Nodes \ Range(orders')
    BY <1>3, <1>4, <1>8, <2>1 DEF OthersInv
  <2>3. \A m \in pool' \cup {taker'} :
          node'[m].prev = Nil /\ node'[m].next = Nil /\ node'[m].parent = Nil
    BY <1>2, <2>2
  <2>4. pool' \cap (Range(orders') \cup {taker'}) = {}
    BY <1>8, <2>1
  <2> QED
    BY <2>1, <2>3, <2>4 DEF PoolIsDisjoint
<1> QED
  BY <1>2, <1>9, <1>15, <1>16, <1>17 DEF IInv

\* The market opens: nothing of the book changes.
LEMMA OpenInv == ASSUME IInv, OpenMarket PROVE IInv' /\ Resting' = Resting
<1>1. /\ UNCHANGED <<node, level, index, orders, pool, pc, taker, best, maker, matched,
                     trades, used>>
      /\ ~open /\ open' = TRUE
  BY DEF OpenMarket
<1>2. Resting' = Resting /\ Taken' = Taken
  BY <1>1 DEF Resting, Taken
<1>3. Shape'
  BY <1>1 DEF IInv, Shape
<1>4. taker = Nil /\ pc = "idle" /\ TakerInv'
  BY <1>1, <1>2 DEF IInv, TakerInv
<1>5. WalkInv'
  BY <1>1, <1>4 DEF WalkInv
<1>6. OthersInv'
  BY <1>1 DEF IInv, OthersInv
<1>7. PoolIsDisjoint'
  BY <1>1 DEF IInv, PoolIsDisjoint
<1> QED
  BY <1>2, <1>3, <1>4, <1>5, <1>6, <1>7 DEF IInv

\* Nothing happens.
LEMMA StutterInv == ASSUME IInv, UNCHANGED vars PROVE IInv' /\ Resting' = Resting
<1>1. UNCHANGED <<node, level, index, orders, pool, pc, taker, best, maker, matched,
                  trades, used, open>>
  BY DEF vars
<1>2. Resting' = Resting /\ Taken' = Taken
  BY <1>1 DEF Resting, Taken
<1>3. Shape'
  BY <1>1 DEF IInv, Shape
<1>4. TakerInv'
  BY <1>1, <1>2 DEF IInv, TakerInv
<1>5. LB!Eligible(Taken)' = LB!Eligible(Taken)
  BY <1>2 DEF LB!Eligible, LB!AtBest, LB!Opposite
<1>6. WalkInv'
  BY <1>1, <1>2, <1>5 DEF IInv, WalkInv
<1>7. OthersInv'
  BY <1>1 DEF IInv, OthersInv
<1>8. PoolIsDisjoint'
  BY <1>1 DEF IInv, PoolIsDisjoint
<1> QED
  BY <1>2, <1>3, <1>4, <1>6, <1>7, <1>8 DEF IInv

\* Every step preserves the invariant.
LEMMA StepInv == IInv /\ [Next]_vars => IInv'
<1> SUFFICES ASSUME IInv, [Next]_vars PROVE IInv'
  OBVIOUS
<1>1. ASSUME NEW id \in OrderIds, NEW u \in Users, NEW s \in Sides, NEW p \in Prices,
             NEW q \in Quantities, RestoreOrder(id, u, s, p, q) \/ BeginPlace(id, u, s, p, q)
      PROVE  IInv'
  BY <1>1, RestoreInv, BeginInv
<1>2. CASE OpenMarket
  BY <1>2, OpenInv
<1>3. CASE PickLevel
  BY <1>3, PickInv
<1>4. CASE SkipOwn
  BY <1>4, SkipInv
<1>5. CASE Trade
  BY <1>5, TradeInv
<1>6. CASE EndWalk
  BY <1>6, EndWalkInv
<1>7. CASE EndPlace
  BY <1>7, EndPlaceInv
<1>8. ASSUME NEW id \in DOMAIN orders, CancelOrder(id) PROVE IInv'
  BY <1>8, CancelInv
<1>9. CASE UNCHANGED vars
  BY <1>9, StutterInv
<1> QED
  BY <1>1, <1>2, <1>3, <1>4, <1>5, <1>6, <1>7, <1>8, <1>9 DEF Next

\* The invariant holds in every state.
LEMMA Invariant == Spec => []IInv
BY InitInv, StepInv, PTL DEF Spec

-----------------------------------------------------------------------------
(* What it implies *)

\* The types of the levels and of the heap.
LEMMA TypesFromInv == IInv => TypeOK
<1> SUFFICES ASSUME IInv PROVE TypeOK
  OBVIOUS
<1>1. Shape /\ TakerInv /\ OthersInv
  BY DEF IInv
<1>2. /\ node \in [Nodes -> NodeState] /\ Range(orders) \subseteq Nodes
      /\ \A s \in Sides : SideOK(node, orders, level, index, s)
  BY <1>1, BookFacts
<1>3. ASSUME NEW s \in Sides
      PROVE  /\ index[s] \in Seq(Prices)
             /\ DOMAIN level[s] \subseteq Prices
             /\ \A p \in DOMAIN level[s] :
                  level[s][p] \in [total : Nat, head : Nodes, tail : Nodes]
  BY <1>2 DEF SideOK, Indexes, LevelState
<1>4. /\ DOMAIN orders \subseteq used /\ pool \subseteq Nodes
      /\ best \in Prices \cup {0} /\ maker \in Pointer /\ matched \in BOOLEAN
      /\ trades \in Seq(LB!Trade) /\ used \subseteq OrderIds /\ open \in BOOLEAN
  BY <1>1 DEF OthersInv
<1>5. /\ pc \in {"idle", "level", "walk", "rest"}
      /\ taker \in Pointer /\ (taker = Nil <=> pc = "idle")
  BY <1>1 DEF TakerInv, Pointer
<1>6. node \in [Nodes -> [data : OrderData \cup {NoData}, prev : Pointer,
                          next : Pointer, parent : (Sides \X Prices) \cup {Nil}]]
  BY <1>2 DEF NodeState
<1> QED
  BY <1>2, <1>3, <1>4, <1>5, <1>6 DEF TypeOK

\* The lists as their levels describe them.
LEMMA QueuesFromInv == IInv => LevelsAreQueues
<1> SUFFICES ASSUME IInv, NEW s \in Sides, NEW p \in DOMAIN level[s]
             PROVE  /\ Queue(s, p) # {}
                    /\ Earliest(level[s][p].head, Queue(s, p))
                    /\ Latest(level[s][p].tail, Queue(s, p))
                    /\ \A n \in Queue(s, p) :
                         /\ node[n].parent = <<s, p>>
                         /\ Earliest(node[n].next, {m \in Queue(s, p) : Arrival(m) > Arrival(n)})
                         /\ Latest(node[n].prev, {m \in Queue(s, p) : Arrival(m) < Arrival(n)})
  BY DEF LevelsAreQueues
<1> DEFINE q == Queue(s, p)
<1>1. SideOK(node, orders, level, index, s)
  BY BookFacts DEF IInv
<1>2. q = QueueOf(node, orders, s, p)
  BY DEF Queue, QueueOf
<1>3. q # {} /\ List(node, q, level[s][p].head, level[s][p].tail)
      /\ \A n \in q : node[n].parent = <<s, p>>
  BY <1>1, <1>2 DEF SideOK, IsLevel
<1> HIDE DEF q
<1>4. ASSUME NEW S, NEW n
      PROVE  (First(node, n, S) <=> Earliest(n, S)) /\ (Last(node, n, S) <=> Latest(n, S))
  BY DEF First, Last, Earliest, Latest, Arrival
<1>5. Earliest(level[s][p].head, q) /\ Latest(level[s][p].tail, q)
  BY <1>3, <1>4 DEF List
<1>6. ASSUME NEW n \in q
      PROVE  /\ Earliest(node[n].next, {m \in q : Arrival(m) > Arrival(n)})
             /\ Latest(node[n].prev, {m \in q : Arrival(m) < Arrival(n)})
  <2>1. /\ After(node, n, q) = {m \in q : Arrival(m) > Arrival(n)}
        /\ Ahead(node, n, q) = {m \in q : Arrival(m) < Arrival(n)}
    BY DEF After, Ahead, Arrival
  <2>2. First(node, node[n].next, After(node, n, q)) /\ Last(node, node[n].prev, Ahead(node, n, q))
    BY <1>3 DEF List
  <2> QED
    BY <1>4, <2>1, <2>2
<1> QED
  BY <1>3, <1>5, <1>6 DEF q

\* The depth as the indexes and the levels give it.
LEMMA SnapshotFromInv == IInv => SnapshotShowsTheBook
<1> DEFINE at(s, p) == {id \in DOMAIN Resting : Resting[id].side = s /\ Resting[id].price = p}
<1> SUFFICES ASSUME IInv, NEW s \in Sides
             PROVE  /\ {Snapshot[s][i].price : i \in DOMAIN Snapshot[s]} = {p \in Prices : at(s, p) # {}}
                    /\ \A i \in DOMAIN Snapshot[s] :
                         /\ i > 1 => Better(s, Snapshot[s][i - 1].price, Snapshot[s][i].price)
                         /\ Snapshot[s][i].total =
                              Sum([id \in at(s, Snapshot[s][i].price) |-> Resting[id].rem])
  BY DEF SnapshotShowsTheBook
<1>1. SideOK(node, orders, level, index, s) /\ OrdersOK(node, orders)
  BY BookFacts DEF IInv
<1>2. /\ DOMAIN Resting = DOMAIN orders
      /\ \A id \in DOMAIN orders : /\ Resting[id].side = node[orders[id]].data.side
                                   /\ Resting[id].price = node[orders[id]].data.price
                                   /\ Resting[id].rem = node[orders[id]].data.rem
  BY DEF Resting, AsResting
<1>3. \A p \in Prices : at(s, p) = IdsOf(node, orders, s, p)
  BY <1>2 DEF IdsOf
<1>4. \A p \in Prices : IdsOf(node, orders, s, p) # {} <=> QueueOf(node, orders, s, p) # {}
  BY DEF IdsOf, QueueOf, Range
<1>5. /\ index[s] \in Seq(Prices)
      /\ \A i, j \in 1 .. Len(index[s]) : i < j => Better(s, index[s][i], index[s][j])
      /\ {index[s][i] : i \in 1 .. Len(index[s])} = DOMAIN level[s]
      /\ DOMAIN index[s] = 1 .. Len(index[s]) /\ Len(index[s]) \in Nat
  BY <1>1 DEF SideOK, Indexes
<1>6. /\ DOMAIN Snapshot[s] = DOMAIN index[s]
      /\ \A i \in DOMAIN index[s] : /\ Snapshot[s][i].price = index[s][i]
                                    /\ Snapshot[s][i].total = level[s][index[s][i]].total
  BY DEF Snapshot
<1>7. DOMAIN level[s] = {p \in Prices : at(s, p) # {}}
  BY <1>1, <1>3, <1>4 DEF SideOK
<1>8. \A p \in DOMAIN level[s] : level[s][p].total = Sum([id \in at(s, p) |-> Resting[id].rem])
  <2> TAKE p \in DOMAIN level[s]
  <2>1. p \in Prices /\ level[s][p].total = Volume(node, orders, s, p)
    BY <1>1 DEF SideOK, IsLevel
  <2>2. [id \in at(s, p) |-> Resting[id].rem]
          = [id \in IdsOf(node, orders, s, p) |-> node[orders[id]].data.rem]
    BY <1>2, <1>3, <2>1
  <2> QED
    BY <2>1, <2>2 DEF Volume
<1> HIDE DEF at
<1>9. {Snapshot[s][i].price : i \in DOMAIN Snapshot[s]} = DOMAIN level[s]
  BY <1>5, <1>6
<1>10. ASSUME NEW i \in DOMAIN Snapshot[s]
       PROVE  /\ i > 1 => Better(s, Snapshot[s][i - 1].price, Snapshot[s][i].price)
              /\ Snapshot[s][i].total = Sum([id \in at(s, Snapshot[s][i].price) |-> Resting[id].rem])
  <2>1. i \in 1 .. Len(index[s]) /\ index[s][i] \in DOMAIN level[s]
    BY <1>5, <1>6
  <2>2. ASSUME i > 1 PROVE Better(s, Snapshot[s][i - 1].price, Snapshot[s][i].price)
    <3>1. i - 1 \in 1 .. Len(index[s]) /\ i - 1 < i
      BY <1>5, <2>1, <2>2
    <3> QED
      BY <1>5, <1>6, <2>1, <3>1
  <2> QED
    BY <1>6, <1>8, <2>1, <2>2
<1> QED
  BY <1>7, <1>9, <1>10

\* The heap, the levels, the indexes and the pool keep their types: no level
\* is left with a nil head or tail, and no price outside the index has one.
\* Code: addOrderInternal, removeOrderInternal.
THEOREM TypeCorrect == Spec => []TypeOK
BY Invariant, TypesFromInv, PTL

\* Whatever is placed and cancelled, every level stays a doubly linked list of
\* exactly its orders, in the order they came.
THEOREM QueuesAreKept == Spec => []LevelsAreQueues
BY Invariant, QueuesFromInv, PTL

\* The depth that is published is the book, at every step of the loop.
THEOREM DepthIsTheBook == Spec => []SnapshotShowsTheBook
BY Invariant, SnapshotFromInv, PTL

\* The pool never hands out a node that is on the book, nor one whose pointers
\* still lead there.
THEOREM PoolIsKept == Spec => []PoolIsDisjoint
<1>1. IInv => PoolIsDisjoint
  BY DEF IInv
<1> QED
  BY <1>1, Invariant, PTL

-----------------------------------------------------------------------------
(* The refinement of LimitBook *)

\* The taker of LimitBook: the order being placed, if there is one.
Placing == IF pc = "idle" THEN NoOrder ELSE Taken

\* LimitBook reads the same definitions.
LEMMA SameWords ==
    /\ \A f, k, v : LB!Bind(f, k, v) = Bind(f, k, v)
    /\ \A f, k : LB!Unbind(f, k) = Unbind(f, k)
    /\ \A t, r : LB!AsResting(t, r) = AsResting(t, r)
    /\ \A a, b : LB!Lesser(a, b) = Lesser(a, b)
    /\ LB!Sides = Sides
    /\ LB!Cardinality(used) = Cardinality(used)
<1>1. \A f, S : LB!Restrict(f, S) = Restrict(f, S)
  BY DEF LB!Restrict, Restrict
<1>2. \A f, k : LB!Unbind(f, k) = Unbind(f, k)
  BY <1>1 DEF LB!Unbind, Unbind
<1> QED
  BY <1>2 DEF LB!Bind, Bind, LB!AsResting, AsResting, LB!Lesser, Lesser, LB!Sides, Sides, LB!Cardinality, Cardinality

\* The order being placed is an order.
LEMMA PlacingTaken == ASSUME IInv, pc # "idle" PROVE Placing = Taken /\ Placing # NoOrder
BY TakenFacts, AddressAssumption DEF Placing

\* A step that leaves the book and the taker alone.
LEMMA Stutters ==
    ASSUME Resting' = Resting, Placing' = Placing, UNCHANGED <<used, trades, open>>
    PROVE  UNCHANGED LB!bookVars
<1>1. (IF pc = "idle" THEN NoOrder ELSE Taken)' = (IF pc = "idle" THEN NoOrder ELSE Taken)
  BY DEF Placing
<1> QED
  BY <1>1 DEF LB!bookVars

LEMMA RestoreRefines ==
    ASSUME IInv, NEW id \in OrderIds, NEW u \in Users, NEW s \in Sides, NEW p \in Prices,
           NEW q \in Quantities, RestoreOrder(id, u, s, p, q)
    PROVE  LB!RestoreOrder(id, u, s, p, q)
<1>1. /\ ~open /\ id \notin used /\ used' = used \cup {id}
      /\ UNCHANGED <<pc, trades, open>>
  BY DEF RestoreOrder, IsNextId
<1>2. pc = "idle"
  BY <1>1 DEF IInv, TakerInv
<1>3. Resting' = LB!Bind(Resting, id, [user |-> u, side |-> s, price |-> p, qty |-> q,
                              rem |-> q, seq |-> Cardinality(used) + 1])
  <2>1. Resting' = Bind(Resting, id, AsResting(Data(id, u, s, p, q), q))
    BY RestoreInv
  <2>2. AsResting(Data(id, u, s, p, q), q) = [user |-> u, side |-> s, price |-> p, qty |-> q,
                              rem |-> q, seq |-> Cardinality(used) + 1]
    BY DEF AsResting, Data
  <2> QED
    BY <2>1, <2>2, SameWords
<1> QED
  BY <1>1, <1>2, <1>3, SameWords DEF LB!RestoreOrder

LEMMA BeginRefines ==
    ASSUME IInv, NEW id \in OrderIds, NEW u \in Users, NEW s \in Sides, NEW p \in Prices,
           NEW q \in Quantities, BeginPlace(id, u, s, p, q)
    PROVE  LB!BeginPlace(id, u, s, p, q)
<1>1. /\ open /\ pc = "idle" /\ id \notin used /\ used' = used \cup {id}
      /\ trades' = <<>> /\ pc' = "level" /\ open' = open
  BY DEF BeginPlace, IsNextId
<1>2. Resting' = Resting /\ Taken' = Data(id, u, s, p, q)
  BY BeginInv
<1>3. Taken' = [id |-> id, user |-> u, side |-> s, price |-> p,
                 qty |-> q, rem |-> q, seq |-> Cardinality(used) + 1]
  BY <1>2 DEF Data
<1> QED
  BY <1>1, <1>2, <1>3, SameWords DEF LB!BeginPlace

\* The order under the cursor is the next maker of LimitBook.
LEMMA CursorIsNext ==
    ASSUME IInv, Trade, NEW id \in DOMAIN orders, maker = orders[id]
    PROVE  /\ id \in LB!Eligible(Taken)
           /\ \A n \in LB!Eligible(Taken) : Resting[id].seq <= Resting[n].seq
           /\ Resting[id].price = best /\ Resting[id].user = node[maker].data.user
           /\ Resting[id].rem = node[maker].data.rem /\ node[maker].data.id = id
<1> DEFINE s == Opposite(Taken.side)
<1>1. /\ pc = "walk" /\ maker # Nil /\ Taken.rem > 0
      /\ node[maker].data.user # Taken.user
  BY DEF Trade
<1>2. Shape /\ WalkInv /\ Taken.side \in Sides /\ s \in Sides
      /\ SideOK(node, orders, level, index, s)
  BY <1>1, TakenFacts DEF IInv
<1>3. maker \in QueueOf(node, orders, s, best)
  BY <1>1, Cursor
<1>4. /\ best \in Prices /\ Crosses(Taken.side, Taken.price, best)
      /\ \A p \in DOMAIN level[s] : ~Better(s, p, best)
      /\ \A n \in QueueOf(node, orders, s, best) :
            node[n].data.user # Taken.user => node[maker].data.seq <= node[n].data.seq
  BY <1>1, <1>2 DEF WalkInv
<1>5. best \in DOMAIN level[s]
  BY <1>2, <1>3, <1>4 DEF SideOK
<1>6. LB!Eligible(Taken) = {i \in IdsOf(node, orders, s, best) :
                                /\ Crosses(Taken.side, Taken.price, best)
                                /\ node[orders[i]].data.user # Taken.user}
  BY <1>2, <1>4, <1>5, MakersAtBest
<1>7. \A i \in IdsOf(node, orders, s, best) :
        i \in DOMAIN orders /\ orders[i] \in QueueOf(node, orders, s, best)
  BY BookFacts, <1>2 DEF IdsOf, QueueOf
<1>8. id \in IdsOf(node, orders, s, best) /\ node[maker].data.price = best
  BY <1>3 DEF IdsOf, QueueOf
<1>9. \A i \in DOMAIN orders : /\ Resting[i].seq = node[orders[i]].data.seq
                               /\ Resting[i].price = node[orders[i]].data.price
                               /\ Resting[i].user = node[orders[i]].data.user
                               /\ Resting[i].rem = node[orders[i]].data.rem
  BY DEF Resting, AsResting
<1>10. node[maker].data.id = id
  BY <1>2, BookFacts
<1> HIDE DEF s
<1> QED
  BY <1>1, <1>4, <1>6, <1>7, <1>8, <1>9, <1>10

LEMMA TradeRefines ==
    ASSUME IInv, Trade
    PROVE  \E id \in DOMAIN orders : LB!MatchMaker(id)
<1> DEFINE q == Lesser(Taken.rem, node[maker].data.rem)
<1>1. /\ pc = "walk" /\ maker # Nil /\ Taken.rem > 0
      /\ trades' = Append(trades,
                [side |-> Taken.side, price |-> best, qty |-> q,
                 takerId |-> Taken.id, makerId |-> node[maker].data.id,
                 takerUser |-> Taken.user, makerUser |-> node[maker].data.user])
      /\ UNCHANGED <<pc, used, open>>
  BY DEF Trade
<1>2. PICK id \in DOMAIN orders :
         /\ maker = orders[id] /\ Taken' = Less(Taken, q)
         /\ Resting' = IF Resting[id].rem = q THEN Unbind(Resting, id)
                            ELSE [Resting EXCEPT ![id].rem = @ - q]
  <2> HIDE DEF q
  <2>1. q = Lesser(Taken.rem, node[maker].data.rem)
    BY DEF q
  <2> QED
    BY <2>1, TradeBook
<1>3. /\ id \in LB!Eligible(Taken)
      /\ \A n \in LB!Eligible(Taken) : Resting[id].seq <= Resting[n].seq
      /\ Resting[id].price = best /\ Resting[id].user = node[maker].data.user
      /\ Resting[id].rem = node[maker].data.rem /\ node[maker].data.id = id
  BY <1>2, CursorIsNext
<1>4. Taken # NoOrder
  BY <1>1, PlacingTaken
<1>5. q = LB!Lesser(Taken.rem, Resting[id].rem)
  BY <1>3, SameWords
<1>6. Taken' = [Taken EXCEPT !.rem = @ - q]
  BY <1>2 DEF Less
<1>7. Resting' = IF Resting[id].rem = q THEN LB!Unbind(Resting, id)
                 ELSE [Resting EXCEPT ![id].rem = @ - q]
  BY <1>2, SameWords
<1>8. trades' = Append(trades,
                [side |-> Taken.side, price |-> Resting[id].price, qty |-> q,
                 takerId |-> Taken.id, makerId |-> id,
                 takerUser |-> Taken.user, makerUser |-> Resting[id].user])
  BY <1>1, <1>3
<1> HIDE DEF q
<1>9. LB!IsNextMaker(id)
  BY <1>1, <1>3 DEF LB!IsNextMaker
<1>10. LB!MatchMaker(id)
  BY <1>1, <1>4, <1>5, <1>6, <1>7, <1>8, <1>9 DEF LB!MatchMaker
<1> QED
  BY <1>10

LEMMA EndRefines ==
    ASSUME IInv, EndPlace
    PROVE  LB!EndPlace
<1>1. /\ pc = "rest" /\ pc' = "idle" /\ UNCHANGED <<used, trades, open>>
  BY DEF EndPlace
<1>2. Taken # NoOrder
  BY <1>1, PlacingTaken
<1>3. Taken.rem = 0 \/ LB!Eligible(Taken) = {}
  BY <1>1 DEF IInv, WalkInv
<1>4. Resting' = IF Taken.rem = 0 THEN Resting
                 ELSE LB!Bind(Resting, Taken.id, LB!AsResting(Taken, Taken.rem))
  BY EndPlaceInv, SameWords
<1> QED
  BY <1>1, <1>2, <1>3, <1>4 DEF LB!EndPlace

LEMMA CancelRefines ==
    ASSUME IInv, NEW id \in DOMAIN orders, CancelOrder(id)
    PROVE  LB!CancelOrder(id)
<1>1. /\ pc = "idle" /\ pc' = "idle" /\ open /\ UNCHANGED <<used, trades, open>>
  BY DEF CancelOrder
<1>2. Resting' = LB!Unbind(Resting, id) /\ id \in DOMAIN Resting
  BY CancelInv, SameWords DEF Resting
<1> QED
  BY <1>1, <1>2 DEF LB!CancelOrder

\* The iterations that only move the walk do nothing to the book; every other
\* step is one of LimitBook.
LEMMA StepRefines == IInv /\ [Next]_vars => [LB!BookNext]_LB!bookVars
<1> SUFFICES ASSUME IInv, [Next]_vars PROVE [LB!BookNext]_LB!bookVars
  OBVIOUS
<1>0. DOMAIN Resting = DOMAIN orders /\ LB!Sides = Sides
  BY SameWords DEF Resting
<1>1. ASSUME NEW id \in OrderIds, NEW u \in Users, NEW s \in Sides, NEW p \in Prices,
             NEW q \in Quantities, RestoreOrder(id, u, s, p, q) \/ BeginPlace(id, u, s, p, q)
      PROVE  LB!BookNext
  BY <1>0, <1>1, RestoreRefines, BeginRefines DEF LB!BookNext
<1>2. CASE OpenMarket
  <2>1. /\ ~open /\ open' = TRUE /\ UNCHANGED <<used, trades, pc>>
        /\ Resting' = Resting /\ Taken' = Taken
    BY <1>2 DEF OpenMarket, Resting, Taken
  <2>2. LB!OpenMarket
    BY <2>1 DEF LB!OpenMarket
  <2> QED
    BY <2>2 DEF LB!BookNext
<1>3. CASE PickLevel
  <2>1. pc # "idle" /\ pc' # "idle" /\ UNCHANGED <<used, trades, open>>
    BY <1>3 DEF PickLevel
  <2> QED
    BY <1>3, <2>1, PickInv, Stutters DEF Placing
<1>4. CASE SkipOwn
  <2>1. pc # "idle" /\ pc' # "idle" /\ UNCHANGED <<used, trades, open>>
    BY <1>4 DEF SkipOwn
  <2> QED
    BY <1>4, <2>1, SkipInv, Stutters DEF Placing
<1>5. CASE Trade
  BY <1>0, <1>5, TradeRefines DEF LB!BookNext
<1>6. CASE EndWalk
  <2>1. pc # "idle" /\ pc' # "idle" /\ UNCHANGED <<used, trades, open>>
    BY <1>6 DEF EndWalk
  <2> QED
    BY <1>6, <2>1, EndWalkInv, Stutters DEF Placing
<1>7. CASE EndPlace
  BY <1>7, EndRefines DEF LB!BookNext
<1>8. ASSUME NEW id \in DOMAIN orders, CancelOrder(id) PROVE LB!BookNext
  BY <1>0, <1>8, CancelRefines DEF LB!BookNext
<1>9. CASE UNCHANGED vars
  <2>1. Resting' = Resting /\ Placing' = Placing /\ UNCHANGED <<used, trades, open>>
    BY <1>9, StutterInv DEF vars, Placing, Taken
  <2> QED
    BY <2>1, Stutters
<1> QED
  BY <1>1, <1>2, <1>3, <1>4, <1>5, <1>6, <1>7, <1>8, <1>9 DEF Next

\* The lists, the indexes and the early exits of both loops of matchInternal
\* implement the book of LimitBook, trade for trade, for any orders.
THEOREM ListsImplementLimitBook == Spec => ImplementsLimitBook
<1>1. Init => LB!InitBook
  <2> SUFFICES ASSUME Init PROVE LB!InitBook
    OBVIOUS
  <2>1. /\ orders = <<>> /\ used = {} /\ pc = "idle" /\ trades = <<>> /\ open = FALSE
    BY DEF Init
  <2>2. Resting = <<>>
    BY <2>1 DEF Resting
  <2> QED
    BY <2>1, <2>2 DEF LB!InitBook, LB!EmptyBook
<1> QED
  BY <1>1, Invariant, StepRefines, PTL DEF Spec, ImplementsLimitBook, LB!BookSpec
=============================================================================
