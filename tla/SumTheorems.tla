---------------------------- MODULE SumTheorems ----------------------------
(***************************************************************************)
(* Facts about Sum for functions from a finite set into the naturals.      *)
(***************************************************************************)
EXTENDS Sums, FiniteSetTheorems, WellFoundedInduction, TLAPS

\* A value n contributes n units.
LEMMA UnitsOfOne ==
    ASSUME NEW x, NEW n \in Nat
    PROVE  IsFiniteSet({x} \X (1 .. n)) /\ Cardinality({x} \X (1 .. n)) = n
<1>1. IsFiniteSet(1 .. n)
  BY FS_Interval
<1>2. Cardinality(1 .. n) = IF 1 > n THEN 0 ELSE n - 1 + 1
  BY FS_Interval
<1>3. Cardinality(1 .. n) = n
  BY <1>2
<1>4. IsFiniteSet({x}) /\ Cardinality({x}) = 1
  BY FS_Singleton
<1>5. /\ IsFiniteSet({x} \X (1 .. n))
      /\ Cardinality({x} \X (1 .. n)) = Cardinality({x}) * Cardinality(1 .. n)
  BY <1>1, <1>4, FS_Product
<1>6. QED
  BY <1>3, <1>4, <1>5

\* The units of a function over a finite set are finitely many.
LEMMA UnitsFinite ==
    ASSUME NEW S, IsFiniteSet(S), NEW f \in [S -> Nat]
    PROVE  IsFiniteSet(Units(f))
<1>1. \A x \in S : IsFiniteSet({x} \X (1 .. f[x]))
  BY UnitsOfOne
<1>2. PICK g \in [S -> {{x} \X (1 .. f[x]) : x \in S}] :
        \A x \in S : g[x] = {x} \X (1 .. f[x])
  <2> WITNESS [x \in S |-> {x} \X (1 .. f[x])] \in [S -> {{x} \X (1 .. f[x]) : x \in S}]
  <2> QED OBVIOUS
<1>3. g \in Surjection(S, {{x} \X (1 .. f[x]) : x \in S})
  BY <1>2 DEF Surjection
<1>4. IsFiniteSet({{x} \X (1 .. f[x]) : x \in S})
  BY <1>3, FS_Surjection
<1>5. QED
  BY <1>1, <1>4, FS_UNION DEF Units

\* A sum of naturals is a natural.
LEMMA SumType ==
    ASSUME NEW S, IsFiniteSet(S), NEW f \in [S -> Nat]
    PROVE  Sum(f) \in Nat
BY UnitsFinite, FS_CardinalityType DEF Sum

\* Two functions that agree outside x differ in their sums as at x; either
\* may be undefined at x, which counts as 0.
LEMMA SumSplit ==
    ASSUME NEW S, IsFiniteSet(S), NEW f \in [S -> Nat], NEW x \in S
    PROVE  Sum(f) = Sum([y \in S \ {x} |-> f[y]]) + f[x]
<1> DEFINE h == [y \in S \ {x} |-> f[y]]
           B == {x} \X (1 .. f[x])
<1>1. h \in [S \ {x} -> Nat] /\ IsFiniteSet(S \ {x})
  BY FS_RemoveElement
<1>2. IsFiniteSet(B) /\ Cardinality(B) = f[x]
  BY UnitsOfOne
<1>3. IsFiniteSet(Units(h))
  BY <1>1, UnitsFinite
<1>4. Units(f) = Units(h) \cup B
  BY DEF Units
<1>5. Units(h) \cap B = {}
  BY DEF Units
<1>6. Cardinality(Units(f)) = Cardinality(Units(h)) + Cardinality(B) - Cardinality(Units(h) \cap B)
  BY <1>2, <1>3, <1>4, FS_Union
<1>7. Cardinality(Units(h)) \in Nat
  BY <1>3, FS_CardinalityType
<1>8. Cardinality(Units(h) \cap B) = 0
  BY <1>5, FS_EmptySet
<1>9. Cardinality(Units(f)) = Cardinality(Units(h)) + f[x]
  BY <1>2, <1>6, <1>7, <1>8
<1>10. QED
  BY <1>9 DEF Sum

\* Changing a function at one point changes its sum by the difference.
THEOREM SumUpdate ==
    ASSUME NEW S, IsFiniteSet(S), NEW f \in [S -> Nat], NEW g \in [S -> Nat],
           NEW x \in S, \A y \in S \ {x} : g[y] = f[y]
    PROVE  Sum(g) = Sum(f) - f[x] + g[x]
<1>1. [y \in S \ {x} |-> f[y]] = [y \in S \ {x} |-> g[y]]
  OBVIOUS
<1>2. IsFiniteSet(S \ {x}) /\ [y \in S \ {x} |-> f[y]] \in [S \ {x} -> Nat]
  BY FS_RemoveElement
<1>3. Sum([y \in S \ {x} |-> f[y]]) \in Nat
  BY <1>2, SumType
<1>4. Sum(f) = Sum([y \in S \ {x} |-> f[y]]) + f[x]
  BY SumSplit
<1>5. Sum(g) = Sum([y \in S \ {x} |-> g[y]]) + g[x]
  BY SumSplit
<1>6. QED
  BY <1>1, <1>3, <1>4, <1>5

\* Extending a function by one point adds its value there.
THEOREM SumExtend ==
    ASSUME NEW S, IsFiniteSet(S), NEW x \in S,
           NEW f \in [S \ {x} -> Nat], NEW g \in [S -> Nat],
           \A y \in S \ {x} : g[y] = f[y]
    PROVE  Sum(g) = Sum(f) + g[x]
<1>1. f = [y \in S \ {x} |-> g[y]]
  OBVIOUS
<1>2. QED
  BY <1>1, SumSplit

\* No value exceeds the sum.
THEOREM SumMember ==
    ASSUME NEW S, IsFiniteSet(S), NEW f \in [S -> Nat], NEW x \in S
    PROVE  f[x] <= Sum(f)
<1>1. IsFiniteSet(S \ {x}) /\ [y \in S \ {x} |-> f[y]] \in [S \ {x} -> Nat]
  BY FS_RemoveElement
<1>2. Sum([y \in S \ {x} |-> f[y]]) \in Nat
  BY <1>1, SumType
<1>3. Sum(f) = Sum([y \in S \ {x} |-> f[y]]) + f[x]
  BY SumSplit
<1>4. QED
  BY <1>2, <1>3

\* The sum of zeros is zero.
THEOREM SumZero ==
    ASSUME NEW S, NEW f \in [S -> {0}]
    PROVE  Sum(f) = 0
<1>1. Units(f) = {}
  BY DEF Units
<1>2. QED
  BY <1>1, FS_EmptySet DEF Sum

\* A larger domain gives a larger sum.
THEOREM SumSubset ==
    ASSUME NEW S, IsFiniteSet(S), NEW f \in [S -> Nat], NEW T \in SUBSET S
    PROVE  Sum([x \in T |-> f[x]]) <= Sum(f)
<1> DEFINE g == [x \in T |-> f[x]]
<1>1. Units(g) \in SUBSET Units(f)
  BY DEF Units
<1>2. QED
  BY <1>1, UnitsFinite, FS_Subset DEF Sum

\* The sum of two functions is the sum of their sums: the units of the second
\* are counted on after those of the first.
THEOREM SumAdd ==
    ASSUME NEW S, IsFiniteSet(S), NEW f \in [S -> Nat], NEW g \in [S -> Nat]
    PROVE  Sum([x \in S |-> f[x] + g[x]]) = Sum(f) + Sum(g)
<1> DEFINE h == [x \in S |-> f[x] + g[x]]
           On(e) == <<e[1], f[e[1]] + e[2]>>
           phi == [e \in Units(g) |-> On(e)]
           G == {On(e) : e \in Units(g)}
<1>1. \A e \in Units(g) : /\ e = <<e[1], e[2]>>
                          /\ e[1] \in S /\ e[2] \in 1 .. g[e[1]]
  BY DEF Units
<1>2. phi \in Bijection(Units(g), G)
  <2>1. phi \in Surjection(Units(g), G)
    BY DEF Surjection
  <2>2. ASSUME NEW d \in Units(g), NEW e \in Units(g), phi[d] = phi[e] PROVE d = e
    <3>1. On(d) = On(e)
      BY <2>2
    <3>2. d[1] = e[1] /\ f[d[1]] + d[2] = f[e[1]] + e[2]
      BY <3>1
    <3>3. f[e[1]] \in Nat /\ d[2] \in Nat /\ e[2] \in Nat
      BY <1>1, <3>2
    <3>4. d[2] = e[2]
      BY <3>2, <3>3
    <3>5. QED
      BY <1>1, <3>2, <3>4
  <2>3. QED
    BY <2>1, <2>2 DEF Bijection, Injection, IsInjective, Surjection
<1>3. IsFiniteSet(G) /\ Cardinality(G) = Sum(g)
  BY <1>2, UnitsFinite, FS_Bijection DEF ExistsBijection, Sum
<1>4. Units(h) = Units(f) \cup G
  <2>1. ASSUME NEW x \in S, NEW i \in 1 .. h[x] PROVE <<x, i>> \in Units(f) \cup G
    <3>1. CASE i <= f[x]
      BY <3>1 DEF Units
    <3>2. CASE i > f[x]
      <4>1. i - f[x] \in 1 .. g[x]
        BY <3>2
      <4>2. <<x, i - f[x]>> \in Units(g)
        BY <4>1 DEF Units
      <4>3. On(<<x, i - f[x]>>) = <<x, i>>
        OBVIOUS
      <4>4. QED
        BY <4>2, <4>3
    <3>3. QED
      BY <3>1, <3>2
  <2>2. ASSUME NEW x \in S, NEW i \in 1 .. f[x] PROVE <<x, i>> \in Units(h)
    <3>1. i \in 1 .. h[x]
      OBVIOUS
    <3>2. QED
      BY <3>1 DEF Units
  <2>3. ASSUME NEW e \in Units(g) PROVE On(e) \in Units(h)
    <3>1. f[e[1]] + e[2] \in 1 .. h[e[1]]
      BY <1>1
    <3>2. QED
      BY <1>1, <3>1 DEF Units
  <2>4. Units(h) \subseteq Units(f) \cup G
    BY <2>1 DEF Units
  <2>5. Units(f) \cup G \subseteq Units(h)
    BY <2>2, <2>3 DEF Units
  <2>6. QED
    BY <2>4, <2>5
<1>5. Units(f) \cap G = {}
  <2>1. ASSUME NEW e \in Units(g), On(e) \in Units(f) PROVE FALSE
    <3>1. f[e[1]] + e[2] \in 1 .. f[e[1]]
      BY <1>1, <2>1 DEF Units
    <3>2. QED
      BY <1>1, <3>1
  <2>2. QED
    BY <2>1
<1>6. Cardinality(Units(h)) = Cardinality(Units(f)) + Cardinality(G) - Cardinality(Units(f) \cap G)
  BY <1>3, <1>4, UnitsFinite, FS_Union
<1>7. Cardinality(Units(f) \cap G) = 0
  BY <1>5, FS_EmptySet
<1>8. Sum(f) \in Nat /\ Sum(g) \in Nat
  BY SumType
<1>9. QED
  BY <1>3, <1>6, <1>7, <1>8 DEF Sum

\* What comes to some places and goes from others leaves the sum as it was.
THEOREM SumMoved ==
    ASSUME NEW S, IsFiniteSet(S), NEW old \in [S -> Nat], NEW new \in [S -> Nat],
           NEW came \in [S -> Nat], NEW went \in [S -> Nat],
           \A x \in S : new[x] + went[x] = old[x] + came[x],
           Sum(came) = Sum(went)
    PROVE  Sum(new) = Sum(old)
<1>1. [x \in S |-> new[x] + went[x]] = [x \in S |-> old[x] + came[x]]
  OBVIOUS
<1>2. Sum([x \in S |-> new[x] + went[x]]) = Sum(new) + Sum(went)
  BY SumAdd
<1>3. Sum([x \in S |-> old[x] + came[x]]) = Sum(old) + Sum(came)
  BY SumAdd
<1>4. Sum(old) \in Nat /\ Sum(new) \in Nat /\ Sum(came) \in Nat
  BY SumType
<1>5. QED
  BY <1>1, <1>2, <1>3, <1>4

\* A set, grouped by g: the sizes of the groups add up to its size.
THEOREM CountPartition ==
    ASSUME NEW S, IsFiniteSet(S), NEW T, IsFiniteSet(T), NEW g \in [S -> T]
    PROVE  /\ [t \in T |-> Cardinality({s \in S : g[s] = t})] \in [T -> Nat]
           /\ Sum([t \in T |-> Cardinality({s \in S : g[s] = t})]) = Cardinality(S)
<1> DEFINE F == [t \in T |-> Cardinality({s \in S : g[s] = t})]
<1>1. \A t \in T : F[t] \in Nat /\ \E b : b \in Bijection(1 .. F[t], {s \in S : g[s] = t})
  <2> TAKE t \in T
  <2>1. {s \in S : g[s] = t} \in SUBSET S
    OBVIOUS
  <2>2. IsFiniteSet({s \in S : g[s] = t})
    BY <2>1, FS_Subset
  <2>3. F[t] \in Nat /\ ExistsBijection(1 .. F[t], {s \in S : g[s] = t})
    BY <2>2, FS_CardinalityType
  <2>4. QED
    BY <2>3 DEF ExistsBijection
<1>2. PICK N : \A t \in T : N[t] \in Bijection(1 .. F[t], {s \in S : g[s] = t})
  <2> DEFINE M == [t \in T |-> CHOOSE b : b \in Bijection(1 .. F[t], {s \in S : g[s] = t})]
  <2>1. \A t \in T : M[t] \in Bijection(1 .. F[t], {s \in S : g[s] = t})
    BY <1>1
  <2>2. QED
    BY <2>1
<1>3. F \in [T -> Nat]
  BY <1>1
<1> HIDE DEF F
<1>4. ASSUME NEW t \in T
      PROVE  /\ \A i \in 1 .. F[t] : N[t][i] \in S /\ g[N[t][i]] = t
             /\ \A i, j \in 1 .. F[t] : N[t][i] = N[t][j] => i = j
             /\ \A s \in S : g[s] = t => \E i \in 1 .. F[t] : N[t][i] = s
  <2>1. N[t] \in Injection(1 .. F[t], {s \in S : g[s] = t})
    BY <1>2 DEF Bijection
  <2>2. N[t] \in Surjection(1 .. F[t], {s \in S : g[s] = t})
    BY <1>2 DEF Bijection
  <2>3. /\ N[t] \in [1 .. F[t] -> {s \in S : g[s] = t}]
        /\ DOMAIN N[t] = 1 .. F[t]
    BY <2>1 DEF Injection
  <2>4. \A i, j \in 1 .. F[t] : N[t][i] = N[t][j] => i = j
    BY <2>1, <2>3 DEF Injection, IsInjective
  <2>5. \A s \in {s \in S : g[s] = t} : \E i \in 1 .. F[t] : N[t][i] = s
    BY <2>2 DEF Surjection
  <2>6. QED
    BY <2>3, <2>4, <2>5
<1>5. ASSUME NEW e \in Units(F)
      PROVE  e = <<e[1], e[2]>> /\ e[1] \in T /\ e[2] \in 1 .. F[e[1]]
  BY <1>3 DEF Units
<1> DEFINE phi == [e \in Units(F) |-> N[e[1]][e[2]]]
<1>6. phi \in Injection(Units(F), S)
  <2>1. phi \in [Units(F) -> S]
    BY <1>4, <1>5
  <2>2. ASSUME NEW d \in Units(F), NEW e \in Units(F), phi[d] = phi[e] PROVE d = e
    <3>1. N[d[1]][d[2]] = N[e[1]][e[2]]
      BY <2>2
    <3>2. d[1] = e[1]
      BY <1>4, <1>5, <3>1
    <3>3. d[2] = e[2]
      BY <1>4, <1>5, <3>1, <3>2
    <3>4. QED
      BY <1>5, <3>2, <3>3
  <2>3. QED
    BY <2>1, <2>2 DEF Injection, IsInjective
<1>7. phi \in Surjection(Units(F), S)
  <2>1. ASSUME NEW s \in S PROVE \E e \in Units(F) : phi[e] = s
    <3>1. PICK i \in 1 .. F[g[s]] : N[g[s]][i] = s
      BY <1>4
    <3>2. <<g[s], i>> \in Units(F)
      BY <1>3, <3>1 DEF Units
    <3>3. QED
      BY <3>1, <3>2
  <2>2. QED
    BY <1>6, <2>1 DEF Injection, Surjection
<1>8. Cardinality(S) = Cardinality(Units(F))
  BY <1>3, <1>6, <1>7, UnitsFinite, FS_Bijection DEF Bijection, ExistsBijection
<1>9. QED
  BY <1>3, <1>8 DEF Sum, F

\* The values of a function, grouped by g: the sums of the groups add up to
\* the sum.
THEOREM SumPartition ==
    ASSUME NEW S, IsFiniteSet(S), NEW f \in [S -> Nat],
           NEW T, IsFiniteSet(T), NEW g \in [S -> T]
    PROVE  /\ [t \in T |-> Sum([s \in {s \in S : g[s] = t} |-> f[s]])] \in [T -> Nat]
           /\ Sum([t \in T |-> Sum([s \in {s \in S : g[s] = t} |-> f[s]])]) = Sum(f)
<1> DEFINE h == [e \in Units(f) |-> g[e[1]]]
<1>1. h \in [Units(f) -> T] /\ IsFiniteSet(Units(f))
  BY UnitsFinite DEF Units
<1>2. ASSUME NEW t \in T
      PROVE  Units([s \in {s \in S : g[s] = t} |-> f[s]]) = {e \in Units(f) : h[e] = t}
  <2> DEFINE P == [s \in {s \in S : g[s] = t} |-> f[s]]
  <2>1. ASSUME NEW s \in S, NEW i \in 1 .. f[s]
        PROVE  <<s, i>> \in Units(f) /\ h[<<s, i>>] = g[s] /\ (g[s] = t => <<s, i>> \in Units(P))
    <3>1. <<s, i>> \in Units(f)
      BY DEF Units
    <3>2. h[<<s, i>>] = g[s]
      BY <3>1
    <3>3. g[s] = t => <<s, i>> \in Units(P)
      BY DEF Units
    <3>4. QED
      BY <3>1, <3>2, <3>3
  <2>2. \A e \in Units(f) : \E s \in S : \E i \in 1 .. f[s] : e = <<s, i>>
    BY DEF Units
  <2>3. ASSUME NEW e \in Units(P)
        PROVE  \E s \in S : g[s] = t /\ \E i \in 1 .. f[s] : e = <<s, i>>
    <3>1. PICK s \in DOMAIN P : e \in {s} \X (1 .. P[s])
      BY DEF Units
    <3>2. s \in S /\ g[s] = t /\ P[s] = f[s]
      BY <3>1
    <3>3. QED
      BY <3>1, <3>2
  <2> HIDE DEF h, P
  <2>4. Units(P) \subseteq {e \in Units(f) : h[e] = t}
    BY <2>1, <2>3
  <2>5. {e \in Units(f) : h[e] = t} \subseteq Units(P)
    BY <2>1, <2>2
  <2>6. QED
    BY <2>4, <2>5 DEF P
<1>3. [t \in T |-> Sum([s \in {s \in S : g[s] = t} |-> f[s]])]
        = [t \in T |-> Cardinality({e \in Units(f) : h[e] = t})]
  BY <1>2 DEF Sum
<1> HIDE DEF h
<1>4. /\ [t \in T |-> Cardinality({e \in Units(f) : h[e] = t})] \in [T -> Nat]
      /\ Sum([t \in T |-> Cardinality({e \in Units(f) : h[e] = t})]) = Cardinality(Units(f))
  BY <1>1, CountPartition
<1>5. QED
  BY <1>3, <1>4 DEF Sum

\* What is mapped one to one to something no smaller has no greater sum.
THEOREM SumInjected ==
    ASSUME NEW S, NEW f \in [S -> Nat], NEW T, IsFiniteSet(T), NEW g \in [T -> Nat],
           NEW b \in Injection(S, T), \A x \in S : f[x] <= g[b[x]]
    PROVE  IsFiniteSet(S) /\ Sum(f) <= Sum(g)
<1> DEFINE phi == [e \in Units(f) |-> <<b[e[1]], e[2]>>]
<1>1. \A e \in Units(f) : e = <<e[1], e[2]>> /\ e[1] \in S /\ e[2] \in 1 .. f[e[1]]
  BY DEF Units
<1>2. b \in [S -> T] /\ \A x, y \in S : b[x] = b[y] => x = y
  BY DEF Injection, IsInjective
<1>3. ASSUME NEW e \in Units(f) PROVE phi[e] \in Units(g)
  <2>1. b[e[1]] \in T /\ e[2] \in 1 .. g[b[e[1]]]
    BY <1>1, <1>2
  <2> QED
    BY <2>1 DEF Units
<1>4. \A d, e \in Units(f) : phi[d] = phi[e] => d = e
  BY <1>1, <1>2
<1>5. phi \in Injection(Units(f), Units(g))
  BY <1>3, <1>4 DEF Injection, IsInjective
<1>6. IsFiniteSet(S)
  BY FS_Injection
<1> QED
  BY <1>5, <1>6, UnitsFinite, FS_Injection DEF Sum

\* What is smaller everywhere has no greater sum.
THEOREM SumBelow ==
    ASSUME NEW S, IsFiniteSet(S), NEW f \in [S -> Nat], NEW g \in [S -> Nat],
           \A x \in S : f[x] <= g[x]
    PROVE  Sum(f) <= Sum(g)
<1> DEFINE b == [x \in S |-> x]
<1>1. b \in Injection(S, S) /\ \A x \in S : b[x] = x
  BY DEF Injection, IsInjective
<1> QED
  BY <1>1, SumInjected

\* Zeros do not count.
THEOREM SumZeros ==
    ASSUME NEW S, NEW f \in [S -> Nat], NEW T \in SUBSET S, \A x \in S \ T : f[x] = 0
    PROVE  Sum(f) = Sum([x \in T |-> f[x]])
<1>1. Units(f) = Units([x \in T |-> f[x]])
  <2>1. \A e : e \in Units(f) <=> \E x \in S : \E n \in 1 .. f[x] : e = <<x, n>>
    BY DEF Units
  <2>2. \A e : e \in Units([x \in T |-> f[x]]) <=> \E x \in T : \E n \in 1 .. f[x] : e = <<x, n>>
    BY DEF Units
  <2>3. \A x \in S : \A n \in 1 .. f[x] : x \in T
    OBVIOUS
  <2> QED
    BY <2>1, <2>2, <2>3
<1> QED
  BY <1>1 DEF Sum

\* A common factor can be taken out of a sum: the least k of which this were
\* false is not 0, and k - 1 is smaller.
THEOREM SumScale ==
    ASSUME NEW S, IsFiniteSet(S), NEW f \in [S -> Nat], NEW k \in Nat
    PROVE  Sum([x \in S |-> k * f[x]]) = k * Sum(f)
<1> DEFINE Times(n) == [x \in S |-> n * f[x]]
           Bad == {n \in Nat : Sum(Times(n)) # n * Sum(f)}
<1>1. SUFFICES ASSUME k \in Bad PROVE FALSE
  OBVIOUS
<1>2. PICK m \in Bad : \A n \in Bad : ~(n < m)
  <2>1. PICK m \in Bad : \A n \in Bad : <<n, m>> \notin OpToRel(<, Nat)
    BY <1>1, WFMin, NatLessThanWellFounded
  <2> QED
    BY <2>1 DEF OpToRel
<1>3. Sum(f) \in Nat /\ \A x \in S : f[x] \in Nat
  BY SumType
<1>4. m # 0
  <2>1. Times(0) \in [S -> {0}]
    BY <1>3
  <2>2. Sum(Times(0)) = 0 * Sum(f)
    BY <1>3, <2>1, SumZero
  <2> QED
    BY <1>2, <2>2
<1>5. PICK n \in Nat : m = n + 1
  <2>1. m - 1 \in Nat /\ m = (m - 1) + 1
    BY <1>2, <1>4
  <2> QED
    BY <2>1
<1>6. Sum(Times(n)) = n * Sum(f)
  BY <1>2, <1>5
<1>7. \A x \in S : n * f[x] \in Nat /\ m * f[x] = n * f[x] + f[x]
  BY <1>3, <1>5
<1>8. Times(n) \in [S -> Nat] /\ Times(m) = [x \in S |-> Times(n)[x] + f[x]]
  BY <1>7
<1>9. Sum(Times(m)) = Sum(Times(n)) + Sum(f)
  <2> HIDE DEF Times
  <2> QED
    BY <1>8, SumAdd
<1>10. m * Sum(f) = n * Sum(f) + Sum(f)
  BY <1>3, <1>5
<1> QED
  BY <1>2, <1>6, <1>9, <1>10

-----------------------------------------------------------------------------
(* Quotients, rounded down.                                                *)

\* The quotient is the greatest k with k * d <= x.
LEMMA DivBound ==
    ASSUME NEW x \in Nat, NEW d \in Nat \ {0}
    PROVE  /\ x \div d \in Nat
           /\ (x \div d) * d <= x
           /\ \A k \in Nat : k * d <= x => k <= x \div d
<1>1. x \div d \in Nat
  BY Z3
<1>2. (x \div d) * d <= x
  BY Z3
<1>3. ASSUME NEW k \in Nat, k * d <= x PROVE k <= x \div d
  BY <1>3, Z3
<1> QED
  BY <1>1, <1>2, <1>3

\* What is smaller has no greater quotient.
LEMMA DivMonotone ==
    ASSUME NEW x \in Nat, NEW y \in Nat, x <= y, NEW d \in Nat \ {0}
    PROVE  x \div d <= y \div d
<1>1. PICK j \in Nat : j = x \div d /\ j * d <= x
  BY DivBound
<1>2. j * d <= y
  <2>1. j * d \in Nat
    BY <1>1
  <2> QED
    BY <1>1, <2>1
<1> QED
  BY <1>1, <1>2, DivBound

\* Rounded apart, two numbers come to no more than their sum rounded.
LEMMA DivAdd ==
    ASSUME NEW x \in Nat, NEW y \in Nat, NEW d \in Nat \ {0}
    PROVE  (x \div d) + (y \div d) <= (x + y) \div d
<1>1. PICK j \in Nat : j = x \div d /\ j * d <= x
  BY DivBound
<1>2. PICK k \in Nat : k = y \div d /\ k * d <= y
  BY DivBound
<1>3. (j + k) * d <= x + y
  <2>1. (j + k) * d = j * d + k * d /\ j * d \in Nat /\ k * d \in Nat
    OBVIOUS
  <2> QED
    BY <1>1, <1>2, <2>1
<1>4. j + k \in Nat /\ x + y \in Nat
  OBVIOUS
<1>5. j + k <= (x + y) \div d
  BY <1>3, <1>4, DivBound
<1> QED
  BY <1>1, <1>2, <1>5

\* Rounded one by one, the parts of a sum come to no more than the sum rounded.
THEOREM SumDiv ==
    ASSUME NEW S, IsFiniteSet(S), NEW f \in [S -> Nat], NEW d \in Nat \ {0}
    PROVE  Sum([x \in S |-> f[x] \div d]) <= Sum(f) \div d
<1> DEFINE q == [x \in S |-> f[x] \div d]
           g == [x \in S |-> d * q[x]]
<1>1. \A x \in S : f[x] \div d \in Nat /\ (f[x] \div d) * d <= f[x]
  <2> TAKE x \in S
  <2>1. f[x] \in Nat
    OBVIOUS
  <2> QED
    BY <2>1, DivBound
<1>2. q \in [S -> Nat] /\ \A x \in S : q[x] * d <= f[x]
  BY <1>1
<1> HIDE DEF q
<1>3. \A x \in S : d * q[x] \in Nat /\ d * q[x] <= f[x]
  <2> TAKE x \in S
  <2>1. PICK k \in Nat : k = q[x] /\ k * d <= f[x]
    BY <1>2
  <2>2. d * k = k * d /\ d * k \in Nat
    OBVIOUS
  <2> QED
    BY <2>1, <2>2
<1>4. Sum(g) = d * Sum(q)
  BY <1>2, SumScale
<1>5. PICK m \in Nat : m = Sum(q)
  BY <1>2, SumType
<1>6. PICK n \in Nat : n = Sum(f)
  BY SumType
<1>7. Sum(g) <= n
  <2>1. g \in [S -> Nat] /\ \A x \in S : g[x] <= f[x]
    BY <1>3
  <2> HIDE DEF g
  <2> QED
    BY <1>6, <2>1, SumBelow
<1> HIDE DEF g
<1>8. m * d <= n
  <2>1. m * d = d * m
    OBVIOUS
  <2> QED
    BY <1>4, <1>5, <1>7, <2>1
<1>9. m <= n \div d
  BY <1>6, <1>8, DivBound
<1> QED
  BY <1>5, <1>6, <1>9 DEF q
=============================================================================
