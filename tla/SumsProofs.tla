------------------------------ MODULE SumsProofs ------------------------------
(* Sums over finite sets, without induction: two sums are compared by comparing *)
(* their units. NatMin, the least member of a set of naturals, stands in where  *)
(* a proof would go by induction.                                              *)
EXTENDS Sums, TLAPS, FiniteSetTheorems

\* Any set of naturals has a least member.
LEMMA NatMin ==
  ASSUME NEW S, S \subseteq Nat, S # {}
  PROVE  \E n \in S : \A m \in S : n <= m
<1>1. IsWellFoundedOn(OpToRel(<, Nat), Nat)
  BY NatLessThanWellFounded
<1>2. PICK n \in S : \A m \in S : ~(<<m, n>> \in OpToRel(<, Nat))
  BY <1>1, WFMin
<1>3. \A m \in S : ~(m < n)
  BY <1>2 DEF OpToRel
<1> QED
  BY <1>3

\* Of the members of a set some has the least value.
LEMMA LeastOf ==
  ASSUME NEW S, S # {}, NEW f, \A x \in S : f[x] \in Nat
  PROVE  \E x \in S : \A y \in S : f[x] <= f[y]
<1> DEFINE values == {f[x] : x \in S}
<1>1. PICK n \in values : \A m \in values : n <= m
  BY NatMin
<1> QED
  BY <1>1

\* A sum over a finite set is a number, ...
LEMMA TotalType ==
  ASSUME NEW S, IsFiniteSet(S), NEW f, \A x \in S : f[x] \in Int
  PROVE  IsFiniteSet(Units(f, S)) /\ Total(f, S) \in Nat
<1> DEFINE heights == {f[x] : x \in S}
           column == [x \in S |-> {x} \X (1..f[x])]
           columns == {column[x] : x \in S}
<1>1. column \in Surjection(S, columns)
  BY DEF Surjection
<1>2. IsFiniteSet(columns)
  BY <1>1, FS_Surjection
<1>3. \A T \in columns : IsFiniteSet(T)
  <2> SUFFICES ASSUME NEW x \in S
               PROVE  IsFiniteSet({x} \X (1..f[x]))
    OBVIOUS
  <2>1. f[x] \in Int
    OBVIOUS
  <2>2. IsFiniteSet(1..f[x])
    BY <2>1, FS_Interval
  <2> QED
    BY <2>2, FS_Singleton, FS_Product
<1>4. Units(f, S) = UNION columns
  BY DEF Units
<1>5. IsFiniteSet(Units(f, S))
  BY <1>2, <1>3, <1>4, FS_UNION
<1> QED
  BY <1>5, FS_CardinalityType DEF Total

\* ... no less than any of its terms, ...
LEMMA TotalAtLeast ==
  ASSUME NEW S, IsFiniteSet(S), NEW f, \A x \in S : f[x] \in Nat, NEW x \in S
  PROVE  f[x] <= Total(f, S)
<1> DEFINE g == [i \in 1..f[x] |-> <<x, i>>]
<1>1. g \in Injection(1..f[x], Units(f, S))
  BY DEF Injection, IsInjective, Units
<1>2. IsFiniteSet(Units(f, S))
  BY TotalType
<1>3. Cardinality(1..f[x]) <= Cardinality(Units(f, S))
  BY <1>1, <1>2, FS_Injection
<1>4. Cardinality(1..f[x]) = f[x]
  BY FS_Interval
<1> QED
  BY <1>3, <1>4 DEF Total

\* ... and of nothing it is 0. It depends on no value outside the set.
LEMMA TotalEmpty == \A f : Total(f, {}) = 0
BY FS_EmptySet DEF Total, Units

\* Equal terms give equal sums.
LEMMA TotalSame ==
  ASSUME NEW S, NEW f, NEW g, \A x \in S : f[x] = g[x]
  PROVE  Total(f, S) = Total(g, S)
<1>1. Units(f, S) = Units(g, S)
  BY DEF Units
<1> QED
  BY <1>1 DEF Total

\* Sums add up: the units of g stand on top of those of f.
LEMMA TotalAdd ==
  ASSUME NEW S, IsFiniteSet(S), NEW f, NEW g, \A x \in S : f[x] \in Nat /\ g[x] \in Nat
  PROVE  Total([x \in S |-> f[x] + g[x]], S) = Total(f, S) + Total(g, S)
<1> DEFINE h == [x \in S |-> f[x] + g[x]]
           raised == [u \in Units(g, S) |-> <<u[1], f[u[1]] + u[2]>>]
           top == {raised[u] : u \in Units(g, S)}
<1>1. \A x \in S : h[x] = f[x] + g[x] /\ h[x] \in Nat
  OBVIOUS
<1>2. IsFiniteSet(Units(f, S)) /\ IsFiniteSet(Units(g, S)) /\ Total(f, S) \in Nat
  BY TotalType
<1>3. \A u \in Units(g, S) : u[1] \in S /\ u[2] \in 1..g[u[1]] /\ u = <<u[1], u[2]>>
  BY DEF Units
<1>4. raised \in Surjection(Units(g, S), top)
  BY DEF Surjection
<1>5. raised \in Injection(Units(g, S), top)
  <2>1. \A u, v \in Units(g, S) : raised[u] = raised[v] => u = v
    <3> SUFFICES ASSUME NEW u \in Units(g, S), NEW v \in Units(g, S),
                        raised[u] = raised[v]
                 PROVE  u = v
      OBVIOUS
    <3>1. u[1] = v[1] /\ f[u[1]] + u[2] = f[u[1]] + v[2]
      OBVIOUS
    <3>2. u[2] \in Int /\ v[2] \in Int /\ f[u[1]] \in Nat
      BY <1>3
    <3> QED
      BY <1>3, <3>1, <3>2
  <2> QED
    BY <2>1 DEF Injection, IsInjective
<1>6. IsFiniteSet(top) /\ Cardinality(top) = Cardinality(Units(g, S))
  BY <1>2, <1>4, <1>5, FS_Surjection
<1>7. Units(f, S) \cap top = {}
  <2> SUFFICES ASSUME NEW u \in Units(g, S), raised[u] \in Units(f, S)
               PROVE  FALSE
    OBVIOUS
  <2>1. u[1] \in S /\ u[2] \in 1..g[u[1]]
    BY <1>3
  <2>2. f[u[1]] + u[2] \in 1..f[u[1]]
    BY <2>1 DEF Units
  <2> QED
    BY <2>1, <2>2
<1>8. Units(h, S) = Units(f, S) \cup top
  <2>1. ASSUME NEW x \in S, NEW i \in 1..(f[x] + g[x])
        PROVE  <<x, i>> \in Units(f, S) \cup top
    <3>1. CASE i <= f[x]
      <4>1. i \in 1..f[x]
        BY <3>1
      <4>2. <<x, i>> \in Units(f, S)
        BY <4>1 DEF Units
      <4> QED
        BY <4>2
    <3>2. CASE i > f[x]
      <4>1. i - f[x] \in 1..g[x] /\ f[x] + (i - f[x]) = i
        BY <3>2
      <4>2. <<x, i - f[x]>> \in Units(g, S)
        BY <4>1 DEF Units
      <4> QED
        BY <4>1, <4>2
    <3> QED
      BY <3>1, <3>2
  <2>2. ASSUME NEW u \in Units(g, S)
        PROVE  raised[u] \in Units(h, S)
    <3>1. u[1] \in S /\ u[2] \in 1..g[u[1]]
      BY <1>3
    <3>2. f[u[1]] + u[2] \in 1..h[u[1]]
      BY <1>1, <3>1
    <3> QED
      BY <3>1, <3>2 DEF Units
  <2>3. Units(f, S) \subseteq Units(h, S)
    <3> SUFFICES ASSUME NEW x \in S, NEW i \in 1..f[x]
                 PROVE  <<x, i>> \in Units(h, S)
      BY DEF Units
    <3>1. i \in 1..h[x]
      BY <1>1
    <3> QED
      BY <3>1 DEF Units
  <2>4. Units(h, S) \subseteq Units(f, S) \cup top
    <3> SUFFICES ASSUME NEW u \in Units(h, S)
                 PROVE  u \in Units(f, S) \cup top
      OBVIOUS
    <3>1. PICK x \in S : u \in {x} \X (1..h[x])
      BY DEF Units
    <3>2. PICK i \in 1..h[x] : u = <<x, i>>
      BY <3>1
    <3>3. i \in 1..(f[x] + g[x])
      BY <1>1
    <3> QED
      BY <2>1, <3>2, <3>3
  <2> QED
    BY <2>2, <2>3, <2>4
<1>9. Cardinality(Units(f, S) \cup top) = Cardinality(Units(f, S)) + Cardinality(top) - 0
  BY <1>2, <1>6, <1>7, FS_Union, FS_EmptySet
<1>10. Cardinality(Units(f, S)) \in Nat /\ Cardinality(Units(g, S)) \in Nat
  BY <1>2, FS_CardinalityType
<1> HIDE DEF h, raised, top
<1>11. Cardinality(Units(h, S)) = Cardinality(Units(f, S)) + Cardinality(Units(g, S))
  BY <1>6, <1>8, <1>9, <1>10
<1> QED
  BY <1>11 DEF Total, h

\* A factor comes out of a sum.
LEMMA TotalTimes ==
  ASSUME NEW S, IsFiniteSet(S), NEW f, \A x \in S : f[x] \in Nat, NEW q \in Nat
  PROVE  Total([x \in S |-> q * f[x]], S) = q * Total(f, S)
<1> DEFINE times(n) == [x \in S |-> n * f[x]]
           wrong == {n \in Nat : Total(times(n), S) # n * Total(f, S)}
<1>1. Total(f, S) \in Nat
  BY TotalType
<1>2. \A n \in Nat : \A x \in S : times(n)[x] \in Nat
  OBVIOUS
<1> SUFFICES ASSUME wrong # {}
             PROVE  FALSE
  OBVIOUS
<1>3. PICK n \in wrong : \A m \in wrong : n <= m
  BY NatMin
<1>4. CASE n = 0
  <2>1. Units(times(0), S) = {}
    BY DEF Units
  <2>2. Total(times(0), S) = 0
    BY <2>1, FS_EmptySet DEF Total
  <2> QED
    BY <1>1, <1>4, <2>2
<1>5. CASE n # 0
  <2>1. n - 1 \in Nat /\ n - 1 \notin wrong
    BY <1>3, <1>5
  <2>2. Total(times(n - 1), S) = (n - 1) * Total(f, S)
    BY <2>1
  <2>3. \A x \in S : n * f[x] = times(n - 1)[x] + f[x]
    <3> SUFFICES ASSUME NEW x \in S
                 PROVE  n * f[x] = (n - 1) * f[x] + f[x]
      OBVIOUS
    <3> QED
      BY <2>1
  <2>4. times(n) = [x \in S |-> times(n - 1)[x] + f[x]]
    BY <2>3
  <2> HIDE DEF times
  <2>5. Total(times(n), S) = Total(times(n - 1), S) + Total(f, S)
    BY <1>2, <2>1, <2>4, TotalAdd
  <2>6. n * Total(f, S) = (n - 1) * Total(f, S) + Total(f, S)
    BY <1>1, <2>1
  <2> QED
    BY <2>2, <2>5, <2>6
<1> QED
  BY <1>4, <1>5

\* A sum is at most the largest term for each term that is not 0.
LEMMA TotalAtMost ==
  ASSUME NEW S, IsFiniteSet(S), NEW f, NEW c \in Nat, \A x \in S : f[x] \in 0..c
  PROVE  Total(f, S) <= Cardinality({x \in S : f[x] > 0}) * c
<1> DEFINE some == {x \in S : f[x] > 0}
<1>1. some \in SUBSET S /\ IsFiniteSet(some)
  BY FS_Subset
<1>2. IsFiniteSet(1..c) /\ Cardinality(1..c) = c
  BY FS_Interval
<1>3. IsFiniteSet(some \X (1..c)) /\ Cardinality(some \X (1..c)) = Cardinality(some) * c
  BY <1>1, <1>2, FS_Product
<1>4. Units(f, S) \in SUBSET (some \X (1..c))
  BY DEF Units
<1> QED
  BY <1>3, <1>4, FS_Subset DEF Total

\* A sum of ones counts them.
LEMMA TotalOfOnes ==
  ASSUME NEW S, IsFiniteSet(S), NEW f, \A x \in S : f[x] \in {0, 1}
  PROVE  Total(f, S) = Cardinality({x \in S : f[x] = 1})
<1> DEFINE ones == {x \in S : f[x] = 1}
           g == [x \in ones |-> <<x, 1>>]
<1>1. g \in Injection(ones, Units(f, S))
  BY DEF Injection, IsInjective, Units
<1>2. g \in Surjection(ones, Units(f, S))
  <2> SUFFICES ASSUME NEW u \in Units(f, S)
               PROVE  \E x \in ones : g[x] = u
    BY <1>1 DEF Surjection, Injection
  <2>1. PICK x \in S : u \in {x} \X (1..f[x])
    BY DEF Units
  <2>2. PICK i \in 1..f[x] : u = <<x, i>>
    BY <2>1
  <2>3. f[x] = 1 /\ i = 1
    OBVIOUS
  <2> QED
    BY <2>2, <2>3
<1>3. IsFiniteSet(Units(f, S))
  BY TotalType
<1> QED
  BY <1>1, <1>2, <1>3, FS_Injection DEF Total
=============================================================================
