---------------------------- MODULE ParseProofs ----------------------------
(***************************************************************************)
(* Proofs about the parsers, for lines of any length over any characters.  *)
(***************************************************************************)
EXTENDS Parse, Parser, FiniteSetTheorems, SequenceTheorems,
        WellFoundedInduction, TLAPS

-----------------------------------------------------------------------------
(* Numbers.                                                                *)

\* A set of naturals that is not empty has a least element.
LEMMA Least ==
  ASSUME NEW S \in SUBSET Nat, S # {}
  PROVE  \E m \in S : \A i \in S : m <= i
<1>1. PICK m \in S : \A i \in S : ~(<<i, m>> \in OpToRel(<, Nat))
  BY NatLessThanWellFounded, WFMin
<1>2. \A i \in S : ~(i < m)
  BY <1>1 DEF OpToRel
<1> QED BY <1>2

\* Induction up to N, over a set: there is no least number outside it.
LEMMA UpTo ==
  ASSUME NEW N \in Nat, NEW P, 0 \in P,
         \A n \in 1 .. N : n - 1 \in P => n \in P
  PROVE  \A n \in 0 .. N : n \in P
<1> DEFINE Bad == {n \in 0 .. N : n \notin P}
<1> SUFFICES ASSUME Bad # {} PROVE FALSE
  OBVIOUS
<1>1. PICK m \in Bad : \A i \in Bad : m <= i
  <2>1. Bad \in SUBSET Nat
    OBVIOUS
  <2> QED BY <2>1, Least
<1>2. m \in 1 .. N /\ m - 1 \in 0 .. N
  BY <1>1
<1>3. m - 1 \notin Bad
  BY <1>1, <1>2
<1> QED BY <1>1, <1>2, <1>3

\* A set of numbers with a bound that is not empty has a greatest element.
LEMMA Greatest ==
  ASSUME NEW n \in Nat, NEW S \in SUBSET (0 .. n), S # {}
  PROVE  \E m \in S : \A i \in S : i <= m
<1> DEFINE Bounds == {b \in Nat : \A i \in S : i <= b}
<1>1. n \in Bounds /\ Bounds \in SUBSET Nat
  OBVIOUS
<1>2. PICK b \in Bounds : \A c \in Bounds : b <= c
  BY <1>1, Least
<1>3. b \in Nat /\ \A i \in S : i \in Nat /\ i <= b
  BY <1>1
<1>4. ASSUME b \notin S PROVE FALSE
  <2>1. \A i \in S : i <= b - 1
    BY <1>3, <1>4
  <2>2. b # 0
    <3>1. PICK i \in S : i \in Nat /\ i <= b - 1
      BY <1>3, <2>1
    <3> QED BY <1>3, <3>1
  <2>3. b - 1 \in Bounds
    BY <1>3, <2>1, <2>2
  <2> QED BY <1>2, <1>3, <2>3
<1> QED BY <1>3, <1>4

\* An element that is below all others is what Min chooses.
LEMMA MinIs ==
  ASSUME NEW S \in SUBSET Int, NEW m \in S, \A i \in S : m <= i
  PROVE  Min(S) = m
<1>1. \A x \in S : (\A y \in S : x =< y) => x = m
  OBVIOUS
<1>2. Min(S) \in S /\ \A y \in S : Min(S) =< y
  BY DEF Min
<1> QED BY <1>1, <1>2

\* An element that is above all others is what Max chooses.
LEMMA MaxIs ==
  ASSUME NEW S \in SUBSET Int, NEW m \in S, \A i \in S : i <= m
  PROVE  Max(S) = m
<1>1. \A x \in S : (\A y \in S : x >= y) => x = m
  OBVIOUS
<1>2. Max(S) \in S /\ \A y \in S : Max(S) >= y
  BY DEF Max
<1> QED BY <1>1, <1>2

\* The least element of a set of naturals is found by Min.
LEMMA MinFacts ==
  ASSUME NEW S \in SUBSET Nat, S # {}
  PROVE  Min(S) \in S /\ \A i \in S : Min(S) <= i
BY Least, MinIs

\* The greatest element of a bounded set of naturals is found by Max.
LEMMA MaxFacts ==
  ASSUME NEW n \in Nat, NEW S \in SUBSET (0 .. n), S # {}
  PROVE  Max(S) \in S /\ \A i \in S : i <= Max(S)
<1>1. PICK m \in S : \A i \in S : i <= m
  BY Greatest
<1>2. Max(S) = m
  BY <1>1, MaxIs
<1> QED BY <1>1, <1>2

-----------------------------------------------------------------------------
(* InOrder.                                                                *)

\* How many elements of S there are up to i.
Rank(S, i) == Cardinality({j \in S : j <= i})

\* A set of numbers up to n is finite.
LEMMA SubsetsFinite ==
  ASSUME NEW n \in Nat, NEW S \in SUBSET (1 .. n)
  PROVE  IsFiniteSet(S) /\ Cardinality(S) \in Nat
<1>1. IsFiniteSet(1 .. n)
  BY FS_Interval
<1>2. IsFiniteSet(S)
  BY <1>1, FS_Subset
<1> QED BY <1>2, FS_CardinalityType

\* 1 .. m has m elements.
LEMMA SizeOfInterval ==
  ASSUME NEW m \in Nat
  PROVE  IsFiniteSet(1 .. m) /\ Cardinality(1 .. m) = m
BY FS_Interval

\* A subset that misses an element is smaller.
LEMMA CardinalityGrows ==
  ASSUME NEW T, IsFiniteSet(T), NEW S \in SUBSET T, NEW x \in T, x \notin S
  PROVE  /\ Cardinality(S) \in Nat /\ Cardinality(T) \in Nat
         /\ Cardinality(S) < Cardinality(T)
<1>1. IsFiniteSet(S)
  BY FS_Subset
<1>2. Cardinality(S) \in Nat /\ Cardinality(T) \in Nat
  BY <1>1, FS_CardinalityType
<1>3. Cardinality(S \cup {x}) = Cardinality(S) + 1
  BY <1>1, FS_AddElement
<1>4. S \cup {x} \in SUBSET T
  OBVIOUS
<1>5. Cardinality(S \cup {x}) <= Cardinality(T)
  BY <1>4, FS_Subset
<1> QED BY <1>2, <1>3, <1>5

\* The ranks of the elements are the numbers from 1, each once.
LEMMA RankFacts ==
  ASSUME NEW n \in Nat, NEW S \in SUBSET (1 .. n)
  PROVE  /\ \A i \in S : Rank(S, i) \in 1 .. Cardinality(S)
         /\ \A i, j \in S : i < j => Rank(S, i) < Rank(S, j)
         /\ \A k \in 1 .. Cardinality(S) : \E i \in S : Rank(S, i) = k
<1> DEFINE Below(i) == {j \in S : j <= i}
<1>1. PICK size \in Nat : IsFiniteSet(S) /\ Cardinality(S) = size
  BY SubsetsFinite
<1>2. ASSUME NEW i \in S
      PROVE  Rank(S, i) \in 1 .. size
  <2>1. Below(i) \in SUBSET S /\ i \in Below(i) /\ {} \in SUBSET Below(i)
    OBVIOUS
  <2>2. IsFiniteSet(Below(i))
    BY <1>1, <2>1, FS_Subset
  <2>3. Cardinality(Below(i)) \in Nat /\ Cardinality(Below(i)) <= size
    BY <1>1, <2>1, <2>2, FS_Subset, FS_CardinalityType
  <2>4. Cardinality({}) < Cardinality(Below(i))
    BY <2>1, <2>2, CardinalityGrows
  <2>5. Cardinality({}) = 0
    BY FS_EmptySet
  <2> QED BY <1>1, <2>3, <2>4, <2>5 DEF Rank
<1>3. ASSUME NEW i \in S, NEW j \in S, i < j
      PROVE  Rank(S, i) < Rank(S, j)
  <2>1. IsFiniteSet(Below(j))
    <3>1. Below(j) \in SUBSET S
      OBVIOUS
    <3> QED BY <1>1, <3>1, FS_Subset
  <2>2. Below(i) \in SUBSET Below(j) /\ j \in Below(j) /\ j \notin Below(i)
    <3>1. \A k \in S : k \in Int
      OBVIOUS
    <3>2. \A k \in S : k <= i => k <= j
      BY <1>3, <3>1
    <3>3. j <= j /\ ~(j <= i)
      BY <1>3, <3>1
    <3> QED BY <3>2, <3>3
  <2>3. Cardinality(Below(i)) < Cardinality(Below(j))
    BY <2>1, <2>2, CardinalityGrows
  <2> QED BY <2>3 DEF Rank
<1> DEFINE f == [i \in S |-> Rank(S, i)]
<1>4. f \in Injection(S, 1 .. size)
  <2>1. f \in [S -> 1 .. size]
    BY <1>2
  <2>2. ASSUME NEW i \in S, NEW j \in S, f[i] = f[j] PROVE i = j
    <3>1. Rank(S, i) = Rank(S, j) /\ Rank(S, i) \in 1 .. size
      BY <1>2, <2>2
    <3>2. i \in Int /\ j \in Int
      OBVIOUS
    <3>3. ~(i < j) /\ ~(j < i)
      BY <1>1, <1>3, <3>1
    <3> QED BY <3>2, <3>3
  <2> HIDE DEF f
  <2> QED BY <2>1, <2>2 DEF Injection, IsInjective
<1>5. f \in Surjection(S, 1 .. size)
  <2>1. IsFiniteSet(1 .. size) /\ Cardinality(1 .. size) = size
    BY <1>1, FS_Interval
  <2> HIDE DEF f
  <2> QED BY <1>1, <1>4, <2>1, FS_Injection
<1>6. \A k \in 1 .. size : \E i \in S : f[i] = k
  <2> HIDE DEF f
  <2> QED BY <1>5 DEF Surjection
<1>7. \A k \in 1 .. size : \E i \in S : Rank(S, i) = k
  BY <1>6
<1> QED BY <1>1, <1>2, <1>3, <1>7

\* f lists the elements of S, all of them, in increasing order.
Lists(f, S) ==
  /\ f \in [1 .. Cardinality(S) -> S]
  /\ \A k, l \in 1 .. Cardinality(S) : k < l => f[k] < f[l]
  /\ \A i \in S : \E k \in 1 .. Cardinality(S) : f[k] = i

\* InOrder is this list, and its length is the size of the set.
LEMMA InOrderLists ==
  ASSUME NEW n \in Nat, NEW S \in SUBSET (1 .. n)
  PROVE  Lists(InOrder(S), S)
<1>1. PICK size \in Nat : Cardinality(S) = size
  BY SubsetsFinite
<1>2. /\ \A i \in S : i \in Int
      /\ \A i \in S : Rank(S, i) \in 1 .. size
  <2>1. \A i \in S : i \in Int
    OBVIOUS
  <2> QED BY <1>1, <2>1, RankFacts
<1> DEFINE rank == [i \in S |-> Cardinality({j \in S : j <= i})]
<1> DEFINE Nth(k) == CHOOSE i \in S : rank[i] = k
<1>3. InOrder(S) = [k \in 1 .. size |-> Nth(k)]
  BY <1>1 DEF InOrder
<1>4. \A i \in S : rank[i] = Rank(S, i)
  BY DEF Rank
<1> HIDE DEF rank
<1>5. \A k \in 1 .. size : Nth(k) \in S /\ Rank(S, Nth(k)) = k
  <2> TAKE k \in 1 .. size
  <2>1. \E i \in S : rank[i] = k
    BY <1>1, <1>4, RankFacts
  <2>2. Nth(k) \in S /\ rank[Nth(k)] = k
    BY <2>1
  <2> QED BY <1>4, <2>2
<1> HIDE DEF Nth
<1>6. ASSUME NEW k \in 1 .. size, NEW l \in 1 .. size, k < l
      PROVE  Nth(k) < Nth(l)
  <2>1. Nth(l) < Nth(k) => Rank(S, Nth(l)) < Rank(S, Nth(k))
    BY <1>5, RankFacts
  <2>2. Nth(k) \in Int /\ Nth(l) \in Int
    BY <1>2, <1>5
  <2>3. ASSUME Nth(k) = Nth(l) PROVE FALSE
    <3>1. Rank(S, Nth(k)) = k /\ Rank(S, Nth(l)) = l
      BY <1>5
    <3>2. k = l
      BY <2>3, <3>1
    <3> QED BY <1>6, <3>2
  <2>4. ~(Rank(S, Nth(l)) < Rank(S, Nth(k)))
    BY <1>5, <1>6
  <2> QED BY <2>1, <2>2, <2>3, <2>4
<1>7. ASSUME NEW i \in S
      PROVE  \E k \in 1 .. size : Nth(k) = i
  <2>1. PICK k \in 1 .. size : k = Rank(S, i)
    BY <1>2
  <2>2. Nth(k) \in S /\ Rank(S, Nth(k)) = Rank(S, i)
    BY <1>5, <2>1
  <2>3. ~(Nth(k) < i) /\ ~(i < Nth(k))
    <3>1. Nth(k) < i => Rank(S, Nth(k)) < Rank(S, i)
      BY <2>2, RankFacts
    <3>2. i < Nth(k) => Rank(S, i) < Rank(S, Nth(k))
      BY <2>2, RankFacts
    <3>3. Rank(S, i) \in Int
      BY <1>2
    <3> QED BY <2>2, <3>1, <3>2, <3>3
  <2>4. Nth(k) \in Int /\ i \in Int
    BY <1>2, <2>2
  <2> QED BY <2>3, <2>4
<1>8. [k \in 1 .. size |-> Nth(k)] \in [1 .. size -> S]
  BY <1>5
<1> QED BY <1>1, <1>3, <1>6, <1>7, <1>8 DEF Lists

\* There is no other such list, whatever length it is given.
LEMMA InOrderIs ==
  ASSUME NEW n \in Nat, NEW S \in SUBSET (1 .. n), NEW m \in Nat,
         NEW f \in [1 .. m -> S],
         \A k, l \in 1 .. m : k < l => f[k] < f[l],
         \A i \in S : \E k \in 1 .. m : f[k] = i
  PROVE  Cardinality(S) = m /\ InOrder(S) = f
<1>1. \A k, l \in 1 .. m : f[k] = f[l] => k = l
  <2> SUFFICES ASSUME NEW k \in 1 .. m, NEW l \in 1 .. m, k < l
               PROVE  f[k] # f[l]
    OBVIOUS
  <2>1. f[k] < f[l] /\ f[k] \in S /\ f[l] \in S
    OBVIOUS
  <2>2. \A i \in S : i \in Int
    OBVIOUS
  <2>3. f[k] \in Int /\ f[l] \in Int
    BY <2>1, <2>2
  <2> QED BY <2>1, <2>3
<1>2. f \in Injection(1 .. m, S) /\ f \in Surjection(1 .. m, S)
  BY <1>1 DEF Injection, IsInjective, Surjection
<1>3. IsFiniteSet(1 .. m) /\ Cardinality(1 .. m) = m
  BY FS_Interval
<1>4. Cardinality(S) = m
  BY <1>2, <1>3, FS_Surjection
<1> DEFINE g == InOrder(S)
<1>5. /\ g \in [1 .. m -> S]
      /\ \A k, l \in 1 .. m : k < l => g[k] < g[l]
      /\ \A i \in S : \E k \in 1 .. m : g[k] = i
  BY <1>4, InOrderLists DEF Lists
<1> HIDE DEF g
<1> DEFINE P == {k \in 0 .. m : \A l \in 1 .. k : f[l] = g[l]}
<1>6. 0 \in P
  OBVIOUS
<1>7. ASSUME NEW k \in 1 .. m, k - 1 \in P PROVE k \in P
  <2>1. \A l \in 1 .. k - 1 : f[l] = g[l]
    BY <1>7
  <2>2. PICK a \in 1 .. m : f[a] = g[k]
    BY <1>5
  <2>3. PICK b \in 1 .. m : g[b] = f[k]
    BY <1>5
  <2>4. f[k] \in Int /\ g[k] \in Int
    <3>1. f[k] \in S /\ g[k] \in S
      BY <1>5
    <3>2. \A i \in S : i \in Int
      OBVIOUS
    <3> QED BY <3>1, <3>2
  <2>5. ~(a < k)
    <3>1. a < k => g[a] = g[k] /\ g[a] < g[k]
      BY <1>5, <2>1, <2>2
    <3> QED BY <2>4, <3>1
  <2>6. ~(b < k)
    <3>1. b < k => f[b] = f[k] /\ f[b] < f[k]
      BY <2>1, <2>3
    <3> QED BY <2>4, <3>1
  <2>7. f[k] <= g[k]
    <3>1. k < a => f[k] < f[a]
      OBVIOUS
    <3> QED BY <2>2, <2>4, <2>5, <3>1
  <2>8. g[k] <= f[k]
    <3>1. k < b => g[k] < g[b]
      BY <1>5
    <3> QED BY <2>3, <2>4, <2>6, <3>1
  <2>9. f[k] = g[k]
    BY <2>4, <2>7, <2>8
  <2>10. \A l \in 1 .. k : l = k \/ l \in 1 .. k - 1
    OBVIOUS
  <2> QED BY <2>1, <2>9, <2>10
<1>8. m \in P
  <2> HIDE DEF P
  <2>1. \A k \in 0 .. m : k \in P
    BY <1>6, <1>7, UpTo
  <2> QED BY <2>1
<1>9. \A l \in 1 .. m : f[l] = g[l]
  BY <1>8
<1>10. f = g
  BY <1>5, <1>9
<1> QED BY <1>4, <1>10 DEF g

\* The empty set has nothing to list.
LEMMA InOrderEmpty == Cardinality({}) = 0 /\ InOrder({}) = <<>>
<1>1. Cardinality({}) = 0
  BY FS_EmptySet
<1>2. DOMAIN InOrder({}) = {} /\ InOrder({}) = [k \in {} |-> 0]
  BY <1>1 DEF InOrder
<1> QED BY <1>1, <1>2

\* The numbers a .. b in order are a, a + 1, ...
LEMMA InOrderOfInterval ==
  ASSUME NEW a \in Nat \ {0}, NEW b \in Nat, a <= b + 1
  PROVE  /\ Cardinality(a .. b) = b - a + 1
         /\ InOrder(a .. b) = [k \in 1 .. b - a + 1 |-> a + k - 1]
<1> DEFINE m == b - a + 1
<1> DEFINE f == [k \in 1 .. m |-> a + k - 1]
<1>1. m \in Nat /\ a .. b \in SUBSET (1 .. b)
  OBVIOUS
<1>2. f \in [1 .. m -> a .. b]
  OBVIOUS
<1>3. \A k, l \in 1 .. m : k < l => f[k] < f[l]
  OBVIOUS
<1>4. \A i \in a .. b : \E k \in 1 .. m : f[k] = i
  <2> TAKE i \in a .. b
  <2>1. i - a + 1 \in 1 .. m /\ f[i - a + 1] = i
    OBVIOUS
  <2> QED BY <2>1
<1> HIDE DEF f, m
<1>5. Cardinality(a .. b) = m /\ InOrder(a .. b) = f
  BY <1>1, <1>2, <1>3, <1>4, InOrderIs
<1> QED BY <1>5 DEF f, m

\* A greater element goes to the end.
LEMMA InOrderGrows ==
  ASSUME NEW n \in Nat, NEW S \in SUBSET (1 .. n), NEW x \in 1 .. n,
         \A i \in S : i < x
  PROVE  /\ Cardinality(S \cup {x}) = Cardinality(S) + 1
         /\ InOrder(S \cup {x}) =
              [k \in 1 .. Cardinality(S) + 1 |->
                 IF k = Cardinality(S) + 1 THEN x ELSE InOrder(S)[k]]
<1>1. PICK size \in Nat : Cardinality(S) = size
  BY SubsetsFinite
<1> DEFINE g == InOrder(S)
<1>2. /\ g \in [1 .. size -> S]
      /\ \A k, l \in 1 .. size : k < l => g[k] < g[l]
      /\ \A i \in S : \E k \in 1 .. size : g[k] = i
  BY <1>1, InOrderLists DEF Lists
<1> HIDE DEF g
<1> DEFINE m == size + 1
<1> DEFINE f == [k \in 1 .. m |-> IF k = m THEN x ELSE g[k]]
<1> DEFINE T == S \cup {x}
<1>3. \A k \in 1 .. m : k = m \/ k \in 1 .. size
  BY <1>1
<1>4. f \in [1 .. m -> T]
  BY <1>2, <1>3
<1>5. ASSUME NEW k \in 1 .. m, NEW l \in 1 .. m, k < l PROVE f[k] < f[l]
  <2>1. k \in 1 .. size /\ k # m /\ f[k] = g[k] /\ g[k] \in S
    BY <1>1, <1>2, <1>5
  <2>2. CASE l = m
    BY <2>1, <2>2
  <2>3. CASE l # m
    <3>1. l \in 1 .. size /\ f[l] = g[l]
      BY <1>3, <2>3
    <3> QED BY <1>2, <1>5, <2>1, <3>1
  <2> QED BY <2>2, <2>3
<1>6. ASSUME NEW i \in T PROVE \E k \in 1 .. m : f[k] = i
  <2>1. CASE i = x
    <3>1. m \in 1 .. m /\ f[m] = x
      BY <1>1
    <3> QED BY <2>1, <3>1
  <2>2. CASE i \in S
    <3>1. PICK k \in 1 .. size : g[k] = i
      BY <1>2, <2>2
    <3>2. k \in 1 .. m /\ f[k] = i
      BY <1>1, <3>1
    <3> QED BY <3>2
  <2> QED BY <2>1, <2>2
<1>7. T \in SUBSET (1 .. n) /\ m \in Nat
  BY <1>1
<1> HIDE DEF f, m, T
<1>8. Cardinality(T) = m /\ InOrder(T) = f
  BY <1>4, <1>5, <1>6, <1>7, InOrderIs
<1> QED BY <1>1, <1>8 DEF f, m, T, g

-----------------------------------------------------------------------------
(* Intervals.                                                              *)

Bounded(n) == Seq((1 .. n) \X (1 .. n))

\* The intervals of I are those of S, all of them, from left to right.
Tiles(I, S) ==
  /\ \A k \in 1 .. Len(I) :
       /\ I[k][1] <= I[k][2]
       /\ \A i \in I[k][1] .. I[k][2] : i \in S
       /\ I[k][1] - 1 \notin S /\ I[k][2] + 1 \notin S
  /\ \A k, l \in 1 .. Len(I) : k < l => I[k][2] + 1 < I[l][1]
  /\ \A i \in S : \E k \in 1 .. Len(I) : i \in I[k][1] .. I[k][2]

\* Where the interval that begins at i ends.
IntervalEnd(S, i) == Min({j \in S : j >= i /\ j + 1 \notin S})

\* From i to its end all numbers are in S, and the next is not.
LEMMA IntervalEnds ==
  ASSUME NEW n \in Nat, NEW S \in SUBSET (1 .. n), NEW i \in S
  PROVE  /\ IntervalEnd(S, i) \in S /\ i <= IntervalEnd(S, i)
         /\ IntervalEnd(S, i) + 1 \notin S
         /\ \A j \in i .. IntervalEnd(S, i) : j \in S
<1> DEFINE E == {j \in S : j >= i /\ j + 1 \notin S}
<1>1. \A j \in S : j \in Nat /\ 0 < j /\ j <= n
  OBVIOUS
<1>2. E # {}
  <2>1. PICK m \in S : \A j \in S : j <= m
    <3>1. S \in SUBSET (0 .. n) /\ S # {}
      BY <1>1
    <3> QED BY <3>1, Greatest
  <2>2. m \in Nat /\ m >= i /\ ~(m + 1 <= m)
    BY <1>1, <2>1
  <2> QED BY <2>1, <2>2
<1>3. /\ \A j \in E : j \in S /\ j >= i /\ j + 1 \notin S
      /\ \A j \in S : j >= i /\ j + 1 \notin S => j \in E
  OBVIOUS
<1> DEFINE e == Min(E)
<1>4. IntervalEnd(S, i) = e
  BY DEF IntervalEnd
<1> HIDE DEF E
<1>5. e \in E /\ \A j \in E : e <= j
  <2>1. E \in SUBSET Nat
    BY <1>1, <1>3
  <2> QED BY <1>2, <2>1, MinFacts
<1> HIDE DEF e
<1>6. e \in S /\ e >= i /\ e + 1 \notin S /\ e \in Nat /\ i \in Nat /\ i > 0
  BY <1>1, <1>3, <1>5
<1>7. ASSUME NEW j \in i .. e, j \notin S PROVE FALSE
  <2> DEFINE Gaps == {k \in i .. e : k \notin S}
  <2>1. Gaps # {} /\ Gaps \in SUBSET Nat
    BY <1>6, <1>7
  <2>2. PICK k \in Gaps : \A l \in Gaps : k <= l
    BY <2>1, Least
  <2>3. k \in Nat /\ k # i /\ k - 1 \in i .. e
    BY <1>6, <2>2
  <2>4. k - 1 \notin Gaps
    BY <2>2, <2>3
  <2>5. k - 1 \in S /\ (k - 1) + 1 = k /\ k \notin S /\ k - 1 >= i
    BY <2>2, <2>3, <2>4
  <2>6. k - 1 \in E
    BY <1>3, <2>5
  <2> QED BY <1>5, <1>6, <2>2, <2>3, <2>6
<1> QED BY <1>6, <1>7, <1>4

\* Intervals gives the maximal intervals of S, from left to right.
LEMMA IntervalsTile ==
  ASSUME NEW n \in Nat, NEW S \in SUBSET (1 .. n)
  PROVE  Intervals(S) \in Bounded(n) /\ Tiles(Intervals(S), S)
<1> DEFINE F == {i \in S : i - 1 \notin S}
<1> DEFINE first == InOrder(F)
<1>1. \A i \in S : i \in 1 .. n /\ i \in Nat
  OBVIOUS
<1>2. PICK m \in Nat : Cardinality(F) = m
  <2>1. F \in SUBSET (1 .. n)
    OBVIOUS
  <2> QED BY <2>1, SubsetsFinite
<1>3. /\ first \in [1 .. m -> F]
      /\ \A k, l \in 1 .. m : k < l => first[k] < first[l]
      /\ \A i \in F : \E k \in 1 .. m : first[k] = i
  <2>1. F \in SUBSET (1 .. n)
    OBVIOUS
  <2> HIDE DEF F
  <2> QED BY <1>2, <2>1, InOrderLists DEF Lists
<1> DEFINE I == [k \in 1 .. m |-> <<first[k], IntervalEnd(S, first[k])>>]
<1>4. Intervals(S) = I
  BY <1>3 DEF Intervals, IntervalEnd
<1> HIDE DEF first
<1>5. \A k \in 1 .. m :
        /\ first[k] \in S /\ first[k] - 1 \notin S
        /\ first[k] \in Nat /\ IntervalEnd(S, first[k]) \in Nat
        /\ IntervalEnd(S, first[k]) \in S /\ first[k] <= IntervalEnd(S, first[k])
        /\ IntervalEnd(S, first[k]) + 1 \notin S
        /\ \A j \in first[k] .. IntervalEnd(S, first[k]) : j \in S
  <2> TAKE k \in 1 .. m
  <2>1. first[k] \in S /\ first[k] - 1 \notin S
    BY <1>3
  <2>2. IntervalEnd(S, first[k]) \in S
    BY <2>1, IntervalEnds
  <2>3. PICK i \in S : i = first[k]
    BY <2>1
  <2>4. /\ IntervalEnd(S, i) \in S /\ i <= IntervalEnd(S, i)
        /\ IntervalEnd(S, i) + 1 \notin S
        /\ \A j \in i .. IntervalEnd(S, i) : j \in S
    BY IntervalEnds
  <2>5. i \in Nat /\ IntervalEnd(S, i) \in Nat
    BY <1>1, <2>4
  <2> QED BY <2>1, <2>3, <2>4, <2>5
<1>6. I \in Bounded(n) /\ Len(I) = m /\ DOMAIN I = 1 .. m
  <2>1. I \in [1 .. m -> (1 .. n) \X (1 .. n)]
    BY <1>1, <1>5
  <2> QED BY <1>2, <2>1 DEF Bounded
<1>7. \A k \in 1 .. m : I[k][1] = first[k] /\ I[k][2] = IntervalEnd(S, first[k])
  OBVIOUS
<1> HIDE DEF I
<1>8. ASSUME NEW k \in 1 .. m, NEW l \in 1 .. m, k < l
      PROVE  I[k][2] + 1 < I[l][1]
  <2>1. first[k] < first[l] /\ first[l] - 1 \notin S
    BY <1>3, <1>5, <1>8
  <2>2. ~(first[l] - 1 \in first[k] .. IntervalEnd(S, first[k]))
    BY <1>5, <2>1
  <2> QED BY <1>5, <1>7, <2>1, <2>2
<1>9. ASSUME NEW i \in S
      PROVE  \E k \in 1 .. m : i \in I[k][1] .. I[k][2]
  <2> DEFINE Back == {x \in 1 .. i : \A j \in x .. i : j \in S}
  <2>1. i \in Back /\ Back \in SUBSET Nat
    BY <1>1
  <2>2. PICK x \in Back : \A y \in Back : x <= y
    BY <2>1, Least
  <2>3. x \in 1 .. i /\ x \in S /\ \A j \in x .. i : j \in S
    BY <1>1, <2>2
  <2>4. x - 1 \notin S
    <3>1. ASSUME x - 1 \in S PROVE FALSE
      <4>1. x - 1 \in 1 .. i
        BY <1>1, <2>3, <3>1
      <4>2. \A j \in x - 1 .. i : j \in S
        BY <2>3, <3>1
      <4>3. x - 1 \in Back
        BY <4>1, <4>2
      <4> QED BY <2>2, <2>3, <4>3
    <3> QED BY <3>1
  <2>5. PICK k \in 1 .. m : first[k] = x
    BY <1>3, <2>3, <2>4
  <2>6. ~(IntervalEnd(S, x) + 1 \in x .. i)
    BY <1>5, <2>3, <2>5
  <2>7. i \in first[k] .. IntervalEnd(S, first[k])
    BY <1>1, <1>5, <2>3, <2>5, <2>6
  <2> QED BY <1>7, <2>7
<1>10. \A k \in 1 .. m :
         /\ I[k][1] <= I[k][2]
         /\ \A i \in I[k][1] .. I[k][2] : i \in S
         /\ I[k][1] - 1 \notin S /\ I[k][2] + 1 \notin S
  BY <1>5, <1>7
<1> QED BY <1>4, <1>6, <1>8, <1>9, <1>10 DEF Tiles

\* There is no other list of the maximal intervals of S.
LEMMA TilesAreIntervals ==
  ASSUME NEW n \in Nat, NEW S \in SUBSET (1 .. n), NEW I \in Bounded(n),
         Tiles(I, S)
  PROVE  Intervals(S) = I
<1>1. PICK m \in Nat : Len(I) = m /\ I \in [1 .. m -> (1 .. n) \X (1 .. n)]
  BY LenProperties DEF Bounded
<1> DEFINE F == {i \in S : i - 1 \notin S}
<1> DEFINE f == [k \in 1 .. m |-> I[k][1]]
<1>2. \A k \in 1 .. m :
        /\ I[k][1] \in Nat /\ I[k][2] \in Nat /\ I[k] = <<I[k][1], I[k][2]>>
        /\ I[k][1] <= I[k][2]
        /\ \A i \in I[k][1] .. I[k][2] : i \in S
        /\ I[k][1] - 1 \notin S /\ I[k][2] + 1 \notin S
  BY <1>1 DEF Tiles
<1>3. f \in [1 .. m -> F]
  BY <1>2
<1>4. \A k, l \in 1 .. m : k < l => f[k] < f[l]
  <2> TAKE k, l \in 1 .. m
  <2>1. k < l => I[k][2] + 1 < I[l][1]
    BY <1>1 DEF Tiles
  <2> QED BY <1>2, <2>1
<1>5. ASSUME NEW i \in F PROVE \E k \in 1 .. m : f[k] = i
  <2>1. PICK k \in 1 .. m : i \in I[k][1] .. I[k][2]
    BY <1>1 DEF Tiles
  <2>2. ~(i - 1 \in I[k][1] .. I[k][2])
    BY <1>2
  <2>3. i = I[k][1]
    BY <1>2, <2>1, <2>2
  <2> QED BY <2>3
<1>6. F \in SUBSET (1 .. n)
  OBVIOUS
<1>7. InOrder(F) = f
  <2> HIDE DEF F, f
  <2> QED BY <1>1, <1>3, <1>4, <1>5, <1>6, InOrderIs
<1>8. ASSUME NEW k \in 1 .. m
      PROVE  IntervalEnd(S, f[k]) = I[k][2]
  <2> DEFINE E == {j \in S : j >= f[k] /\ j + 1 \notin S}
  <2>1. E \in SUBSET Int
    OBVIOUS
  <2>2. I[k][2] \in E
    BY <1>2
  <2>3. ASSUME NEW j \in E PROVE I[k][2] <= j
    <3>1. ~(j + 1 \in I[k][1] .. I[k][2])
      BY <1>2
    <3> QED BY <1>2, <2>1, <3>1
  <2>4. Min(E) = I[k][2]
    <3> HIDE DEF E
    <3> QED BY <2>1, <2>2, <2>3, MinIs
  <2> QED BY <2>4 DEF IntervalEnd
<1>9. Intervals(S) = [k \in 1 .. m |-> <<f[k], IntervalEnd(S, f[k])>>]
  BY <1>7 DEF Intervals, IntervalEnd
<1>10. Intervals(S) = [k \in 1 .. m |-> I[k]]
  BY <1>2, <1>8, <1>9
<1> QED BY <1>1, <1>10

-----------------------------------------------------------------------------
(* A list that is cut at the positions P.                                  *)

\* The part that position k lies in, and those of a part up to k.
Part(P, k) == Cardinality({l \in P : l < k}) + 1
Members(P, n, k) == {l \in (1 .. k) \ P : Part(P, l) = n}

\* Numbers are dealt to the parts in order: a cut begins the next part.
LEMMA PartFacts ==
  ASSUME NEW m \in Nat, NEW P \in SUBSET (1 .. m)
  PROVE  /\ \A k \in Nat : Part(P, k) \in Nat /\ Part(P, k) >= 1
         /\ Part(P, 1) = 1
         /\ \A k \in P : Part(P, k + 1) = Part(P, k) + 1
         /\ \A k \in Nat : k \notin P => Part(P, k + 1) = Part(P, k)
         /\ \A j, k \in Nat : j <= k => Part(P, j) <= Part(P, k)
         /\ \A k \in Nat : m < k => Part(P, k) = Cardinality(P) + 1
<1> DEFINE Before(k) == {l \in P : l < k}
<1>1. \A l \in P : l \in Nat /\ 1 <= l /\ l <= m
  OBVIOUS
<1>2. \A k : IsFiniteSet(Before(k)) /\ Cardinality(Before(k)) \in Nat
  <2> TAKE k
  <2>1. Before(k) \in SUBSET (1 .. m)
    OBVIOUS
  <2> QED BY <2>1, SubsetsFinite
<1>3. \A k : Part(P, k) = Cardinality(Before(k)) + 1
  BY DEF Part
<1>4. Part(P, 1) = 1
  <2>1. Before(1) = {}
    <3>1. \A l \in P : ~(l < 1)
      BY <1>1
    <3> QED BY <3>1
  <2> QED BY <1>3, <2>1, FS_EmptySet
<1>5. ASSUME NEW k \in P PROVE Part(P, k + 1) = Part(P, k) + 1
  <2>1. Before(k + 1) = Before(k) \cup {k} /\ k \notin Before(k)
    <3>1. \A l \in P : l < k + 1 <=> l < k \/ l = k
      BY <1>1
    <3>2. ~(k < k)
      BY <1>1
    <3> QED BY <3>1, <3>2
  <2> HIDE DEF Before
  <2>2. Cardinality(Before(k + 1)) = Cardinality(Before(k)) + 1
    BY <1>2, <2>1, FS_AddElement
  <2> QED BY <1>2, <1>3, <2>2
<1>6. ASSUME NEW k \in Nat, k \notin P PROVE Part(P, k + 1) = Part(P, k)
  <2>1. Before(k + 1) = Before(k)
    <3>1. \A l \in P : l < k + 1 <=> l < k
      BY <1>1, <1>6
    <3> QED BY <3>1
  <2> QED BY <1>3, <2>1
<1>7. ASSUME NEW j \in Nat, NEW k \in Nat, j <= k PROVE Part(P, j) <= Part(P, k)
  <2>1. Before(j) \in SUBSET Before(k)
    <3>1. \A l \in P : l < j => l < k
      BY <1>1, <1>7
    <3> QED BY <3>1
  <2> HIDE DEF Before
  <2>2. Cardinality(Before(j)) <= Cardinality(Before(k))
    BY <1>2, <2>1, FS_Subset
  <2> QED BY <1>2, <1>3, <2>2
<1>8. ASSUME NEW k \in Nat, m < k PROVE Part(P, k) = Cardinality(P) + 1
  <2>1. Before(k) = P
    <3>1. \A l \in P : l < k
      BY <1>1, <1>8
    <3> QED BY <3>1
  <2> QED BY <1>3, <2>1
<1> HIDE DEF Before
<1>9. \A k \in Nat : Part(P, k) \in Nat /\ Part(P, k) >= 1
  <2> TAKE k \in Nat
  <2>1. Cardinality(Before(k)) \in Nat /\ Part(P, k) = Cardinality(Before(k)) + 1
    BY <1>2, <1>3
  <2> QED BY <2>1
<1> QED BY <1>4, <1>5, <1>6, <1>7, <1>8, <1>9

\* How the parts grow by one position: a cut begins a part, anything else joins
\* the last one.
LEMMA MembersGrow ==
  ASSUME NEW m \in Nat, NEW P \in SUBSET (1 .. m), NEW k \in 1 .. m
  PROVE  /\ \A n : Members(P, n, k - 1) \in SUBSET (1 .. m)
         /\ k \in P => /\ \A n : Members(P, n, k) = Members(P, n, k - 1)
                       /\ Members(P, Part(P, k + 1), k) = {}
         /\ k \notin P =>
              /\ \A n : n # Part(P, k) => Members(P, n, k) = Members(P, n, k - 1)
              /\ Members(P, Part(P, k), k) =
                   Members(P, Part(P, k), k - 1) \cup {k}
              /\ \A n : \A l \in Members(P, n, k - 1) : l < k
<1>1. \A l \in 1 .. k : l = k \/ l \in 1 .. k - 1
  OBVIOUS
<1>2. \A l \in 1 .. k - 1 : l \in 1 .. k /\ l \in 1 .. m /\ l < k /\ l # k
  OBVIOUS
<1>3. k \in 1 .. k
  OBVIOUS
<1>4. \A n : Members(P, n, k - 1) \in SUBSET (1 .. m)
  BY <1>2 DEF Members
<1>5. ASSUME k \in P
      PROVE  /\ \A n : Members(P, n, k) = Members(P, n, k - 1)
             /\ Members(P, Part(P, k + 1), k) = {}
  <2>1. \A n : Members(P, n, k) = Members(P, n, k - 1)
    BY <1>1, <1>2, <1>5 DEF Members
  <2>2. ASSUME NEW l \in 1 .. k PROVE Part(P, l) # Part(P, k + 1)
    <3>1. Part(P, l) <= Part(P, k)
      BY PartFacts
    <3>2. Part(P, k + 1) = Part(P, k) + 1
      BY <1>5, PartFacts
    <3>3. Part(P, l) \in Nat /\ Part(P, k) \in Nat
      BY PartFacts
    <3> QED BY <3>1, <3>2, <3>3
  <2>3. Members(P, Part(P, k + 1), k) = {}
    BY <2>2 DEF Members
  <2> QED BY <2>1, <2>3
<1>6. ASSUME k \notin P
      PROVE  /\ \A n : n # Part(P, k) => Members(P, n, k) = Members(P, n, k - 1)
             /\ Members(P, Part(P, k), k) = Members(P, Part(P, k), k - 1) \cup {k}
             /\ \A n : \A l \in Members(P, n, k - 1) : l < k
  <2>1. \A n : n # Part(P, k) => Members(P, n, k) = Members(P, n, k - 1)
    BY <1>1, <1>2 DEF Members
  <2>2. Members(P, Part(P, k), k) = Members(P, Part(P, k), k - 1) \cup {k}
    BY <1>1, <1>2, <1>3, <1>6 DEF Members
  <2>3. \A n : \A l \in Members(P, n, k - 1) : l < k
    BY <1>2 DEF Members
  <2> QED BY <2>1, <2>2, <2>3
<1> QED BY <1>4, <1>5, <1>6

-----------------------------------------------------------------------------
(* What parse_command stores.                                              *)

\* The elements of W at the positions of a set, in order.
Picked(W, own) == [q \in 1 .. Cardinality(own) |-> W[InOrder(own)[q]]]

\* W cut at P, up to k.
Cut(P, W, k) == [n \in 1 .. Part(P, k + 1) |-> Picked(W, Members(P, n, k))]

BarWords(text, W) == {l \in 1 .. Len(W) : IsChar(text, W[l], {"|"})}

\* What is picked from words are words.
LEMMA PickedTyped ==
  ASSUME NEW X, NEW W \in Seq(X), NEW m \in Nat, m = Len(W),
         NEW own \in SUBSET (1 .. m)
  PROVE  /\ Picked(W, own) \in Seq(X)
         /\ Cardinality(own) \in Nat /\ Len(Picked(W, own)) = Cardinality(own)
         /\ \A q \in 1 .. Cardinality(own) : Picked(W, own)[q] = W[InOrder(own)[q]]
<1>2. PICK size \in Nat : size = Cardinality(own)
  BY SubsetsFinite
<1>3. InOrder(own) \in [1 .. size -> own]
  BY <1>2, InOrderLists DEF Lists
<1>4. \A q \in 1 .. size : W[InOrder(own)[q]] \in X
  <2> TAKE q \in 1 .. size
  <2>1. InOrder(own)[q] \in 1 .. Len(W)
    BY <1>3
  <2> QED BY <2>1, ElementOfSeq
<1>5. Picked(W, own) = [q \in 1 .. size |-> W[InOrder(own)[q]]]
  BY <1>2 DEF Picked
<1>6. Picked(W, own) \in [1 .. size -> X]
  BY <1>4, <1>5
<1> QED BY <1>2, <1>5, <1>6

\* Cutting gives a part more than there are cuts.
LEMMA CutIs ==
  ASSUME NEW W, NEW m \in Nat, NEW P \in SUBSET (1 .. m), NEW k \in 0 .. m
  PROVE  /\ Part(P, k + 1) \in Nat /\ Len(Cut(P, W, k)) = Part(P, k + 1)
         /\ \A n \in 1 .. Part(P, k + 1) :
              Cut(P, W, k)[n] = Picked(W, Members(P, n, k))
         /\ \A n : Members(P, n, k) \in SUBSET (1 .. m)
<1>1. k + 1 \in Nat /\ \A l \in 1 .. k : l \in 1 .. m
  OBVIOUS
<1>2. PICK size \in Nat : size = Part(P, k + 1)
  BY <1>1, PartFacts
<1>3. \A n : Members(P, n, k) \in SUBSET (1 .. m)
  BY <1>1 DEF Members
<1>4. Cut(P, W, k) = [n \in 1 .. size |-> Picked(W, Members(P, n, k))]
  BY <1>2 DEF Cut
<1>5. Len(Cut(P, W, k)) = size
  BY <1>4
<1> QED BY <1>2, <1>3, <1>4, <1>5

\* The parts hold words.
LEMMA CutTyped ==
  ASSUME NEW X, NEW W \in Seq(X), NEW m \in Nat, m = Len(W),
         NEW P \in SUBSET (1 .. m), NEW k \in 0 .. m
  PROVE  Cut(P, W, k) \in Seq(Seq(X))
<1>1. PICK size \in Nat : size = Part(P, k + 1)
  BY CutIs
<1>2. \A n \in 1 .. size : Picked(W, Members(P, n, k)) \in Seq(X)
  <2>1. \A n : Members(P, n, k) \in SUBSET (1 .. m)
    BY CutIs
  <2> QED BY <2>1, PickedTyped
<1>3. Cut(P, W, k) = [n \in 1 .. size |-> Picked(W, Members(P, n, k))]
  BY <1>1 DEF Cut
<1> QED BY <1>2, <1>3

\* A word behind all that is picked is added at the end.
LEMMA PickedGrows ==
  ASSUME NEW X, NEW W \in Seq(X), NEW m \in Nat, m = Len(W),
         NEW own \in SUBSET (1 .. m), NEW k \in 1 .. m, \A l \in own : l < k
  PROVE  Picked(W, own \cup {k}) = Append(Picked(W, own), W[k])
<1>2. PICK size \in Nat : size = Cardinality(own)
  BY SubsetsFinite
<1>3. /\ Cardinality(own \cup {k}) = size + 1
      /\ InOrder(own \cup {k}) = [q \in 1 .. size + 1 |->
                                    IF q = size + 1 THEN k ELSE InOrder(own)[q]]
  <2>1. /\ Cardinality(own \cup {k}) = Cardinality(own) + 1
        /\ InOrder(own \cup {k}) =
             [q \in 1 .. Cardinality(own) + 1 |->
                IF q = Cardinality(own) + 1 THEN k ELSE InOrder(own)[q]]
    BY InOrderGrows, Zenon
  <2> QED BY <1>2, <2>1
<1> DEFINE s == Picked(W, own)
<1> DEFINE t == Picked(W, own \cup {k})
<1>4. /\ s \in Seq(X) /\ Len(s) = size
      /\ \A q \in 1 .. size : s[q] = W[InOrder(own)[q]]
  BY <1>2, PickedTyped
<1>5. /\ t \in Seq(X) /\ Len(t) = size + 1
      /\ \A q \in 1 .. size + 1 : t[q] = W[InOrder(own \cup {k})[q]]
  <2> DEFINE more == own \cup {k}
  <2>1. more \in SUBSET (1 .. m)
    OBVIOUS
  <2>2. Cardinality(more) = size + 1 /\ t = Picked(W, more)
    BY <1>3
  <2> HIDE DEF more, t
  <2>3. /\ t \in Seq(X) /\ Len(t) = size + 1
        /\ \A q \in 1 .. size + 1 : t[q] = W[InOrder(more)[q]]
    BY <2>1, <2>2, PickedTyped
  <2> QED BY <2>3 DEF more
<1>6. W[k] \in X
  BY ElementOfSeq
<1> HIDE DEF s, t
<1>7. /\ Append(s, W[k]) \in Seq(X) /\ Len(Append(s, W[k])) = size + 1
      /\ \A q \in 1 .. size : Append(s, W[k])[q] = s[q]
      /\ Append(s, W[k])[size + 1] = W[k]
  BY <1>4, <1>6, AppendProperties
<1>8. ASSUME NEW q \in 1 .. size + 1 PROVE t[q] = Append(s, W[k])[q]
  <2>1. t[q] = W[InOrder(own \cup {k})[q]]
    BY <1>5
  <2>2. CASE q = size + 1
    <3>1. InOrder(own \cup {k})[q] = k
      BY <1>3, <2>2
    <3> QED BY <1>7, <2>1, <2>2, <3>1
  <2>3. CASE q # size + 1
    <3>1. q \in 1 .. size
      BY <1>2, <2>3
    <3>2. InOrder(own \cup {k})[q] = InOrder(own)[q]
      BY <1>3, <2>3
    <3> QED BY <1>4, <1>7, <2>1, <3>1, <3>2
  <2> QED BY <2>2, <2>3
<1>9. t = Append(s, W[k])
  BY <1>5, <1>7, <1>8, SeqEqual
<1> QED BY <1>9 DEF s, t

\* One word more.
LEMMA StoreStep ==
  ASSUME NEW text, NEW X, NEW W \in Seq(X), NEW m \in Nat, m = Len(W),
         NEW k \in 1 .. m
  PROVE  LET P == BarWords(text, W)
         IN Store(text, Cut(P, W, k - 1), W[k]) = Cut(P, W, k)
<1> DEFINE P == BarWords(text, W)
<1>1. P \in SUBSET (1 .. m)
  BY DEF BarWords
<1>2. k \in P <=> IsChar(text, W[k], {"|"})
  BY DEF BarWords
<1> HIDE DEF P
<1>3. /\ k \in Nat /\ k + 1 \in Nat /\ (k - 1) + 1 = k
      /\ k - 1 \in 0 .. m /\ k \in 0 .. m
  OBVIOUS
<1>4. PICK size \in Nat : size = Part(P, k) /\ size >= 1
  BY <1>1, <1>3, PartFacts
<1> DEFINE C == Cut(P, W, k - 1)
<1> DEFINE D == Cut(P, W, k)
<1>5. /\ C \in Seq(Seq(X)) /\ Len(C) = size
      /\ \A n \in 1 .. size : C[n] = Picked(W, Members(P, n, k - 1))
  <2>1. PICK j \in 0 .. m : j = k - 1 /\ j + 1 = k
    BY <1>3
  <2>2. /\ Cut(P, W, j) \in Seq(Seq(X)) /\ Len(Cut(P, W, j)) = Part(P, j + 1)
        /\ \A n \in 1 .. Part(P, j + 1) :
             Cut(P, W, j)[n] = Picked(W, Members(P, n, j))
    <3>1. Cut(P, W, j) \in Seq(Seq(X))
      BY <1>1, CutTyped
    <3>2. Len(Cut(P, W, j)) = Part(P, j + 1)
      BY <1>1, CutIs
    <3>3. ASSUME NEW n \in 1 .. Part(P, j + 1)
          PROVE  Cut(P, W, j)[n] = Picked(W, Members(P, n, j))
      BY <1>1, CutIs
    <3> QED BY <3>1, <3>2, <3>3
  <2> QED BY <1>4, <2>1, <2>2
<1>6. PICK last \in Nat : last = Part(P, k + 1)
  BY <1>1, <1>3, PartFacts
<1>7. /\ D \in Seq(Seq(X)) /\ Len(D) = last
      /\ \A n \in 1 .. last : D[n] = Picked(W, Members(P, n, k))
  <2>1. /\ Cut(P, W, k) \in Seq(Seq(X)) /\ Len(Cut(P, W, k)) = Part(P, k + 1)
        /\ \A n \in 1 .. Part(P, k + 1) :
             Cut(P, W, k)[n] = Picked(W, Members(P, n, k))
    <3>1. Cut(P, W, k) \in Seq(Seq(X))
      BY <1>1, <1>3, CutTyped
    <3>2. Len(Cut(P, W, k)) = Part(P, k + 1)
      BY <1>1, <1>3, CutIs
    <3>3. ASSUME NEW n \in 1 .. Part(P, k + 1)
          PROVE  Cut(P, W, k)[n] = Picked(W, Members(P, n, k))
      BY <1>1, <1>3, CutIs
    <3> QED BY <3>1, <3>2, <3>3
  <2> QED BY <1>6, <2>1
<1> HIDE DEF C, D
<1>8. CASE k \in P
  <2>1. last = size + 1
    BY <1>1, <1>4, <1>6, <1>8, PartFacts
  <2>2. /\ \A n : Members(P, n, k) = Members(P, n, k - 1)
        /\ Members(P, last, k) = {}
    <3>1. k \in P => /\ \A n : Members(P, n, k) = Members(P, n, k - 1)
                     /\ Members(P, Part(P, k + 1), k) = {}
      BY <1>1, MembersGrow
    <3> QED BY <1>6, <1>8, <3>1
  <2>3. Picked(W, {}) = <<>>
    BY FS_EmptySet DEF Picked
  <2>4. <<>> \in Seq(X)
    OBVIOUS
  <2>5. /\ Append(C, <<>>) \in Seq(Seq(X)) /\ Len(Append(C, <<>>)) = last
        /\ \A n \in 1 .. size : Append(C, <<>>)[n] = C[n]
        /\ Append(C, <<>>)[last] = <<>>
    BY <1>5, <2>1, <2>4, AppendProperties
  <2>6. ASSUME NEW n \in 1 .. last PROVE Append(C, <<>>)[n] = D[n]
    <3>1. CASE n = last
      BY <1>7, <2>2, <2>3, <2>5, <3>1
    <3>2. CASE n # last
      <4>1. n \in 1 .. size
        BY <2>1, <3>2
      <4> QED BY <1>5, <1>7, <2>2, <2>5, <4>1
    <3> QED BY <3>1, <3>2
  <2>7. Append(C, <<>>) = D
    BY <1>7, <2>5, <2>6, SeqEqual
  <2> QED BY <1>2, <1>8, <2>7 DEF Store, C, D, P
<1>9. CASE k \notin P
  <2>1. last = size
    BY <1>1, <1>3, <1>4, <1>6, <1>9, PartFacts
  <2>2. /\ \A n : n # size => Members(P, n, k) = Members(P, n, k - 1)
        /\ Members(P, size, k) = Members(P, size, k - 1) \cup {k}
        /\ \A l \in Members(P, size, k - 1) : l < k
        /\ Members(P, size, k - 1) \in SUBSET (1 .. m)
    <3>1. \A n : Members(P, n, k - 1) \in SUBSET (1 .. m)
      BY <1>1, MembersGrow
    <3>2. k \notin P =>
            /\ \A n : n # Part(P, k) => Members(P, n, k) = Members(P, n, k - 1)
            /\ Members(P, Part(P, k), k) = Members(P, Part(P, k), k - 1) \cup {k}
            /\ \A n : \A l \in Members(P, n, k - 1) : l < k
      BY <1>1, MembersGrow
    <3> QED BY <1>4, <1>9, <3>1, <3>2
  <2>3. size \in 1 .. Len(C) /\ C[size] = Picked(W, Members(P, size, k - 1))
    BY <1>4, <1>5
  <2>4. D[size] = Append(C[size], W[k])
    <3>1. Picked(W, Members(P, size, k - 1) \cup {k})
            = Append(Picked(W, Members(P, size, k - 1)), W[k])
      BY <2>2, PickedGrows
    <3>2. size \in 1 .. last
      BY <1>4, <2>1
    <3> QED BY <1>7, <2>2, <2>3, <3>1, <3>2
  <2> DEFINE E == [C EXCEPT ![size] = Append(C[size], W[k])]
  <2>5. Append(C[size], W[k]) \in Seq(X)
    <3>1. D[size] \in Seq(X)
      BY <1>4, <1>7, <2>1, ElementOfSeq
    <3> QED BY <2>4, <3>1
  <2>6. /\ E \in Seq(Seq(X)) /\ Len(E) = size
        /\ \A n \in 1 .. size :
             E[n] = IF n = size THEN Append(C[size], W[k]) ELSE C[n]
    BY <1>5, <2>3, <2>5, ExceptSeq
  <2>7. Store(text, C, W[k]) = E
    BY <1>2, <1>5, <1>9 DEF Store
  <2> HIDE DEF E
  <2>8. ASSUME NEW n \in 1 .. size PROVE E[n] = D[n]
    <3>1. CASE n = size
      BY <2>4, <2>6, <3>1
    <3>2. CASE n # size
      BY <1>5, <1>7, <2>1, <2>2, <2>6, <3>2
    <3> QED BY <3>1, <3>2
  <2>9. E = D
    BY <1>7, <2>1, <2>6, <2>8, SeqEqual
  <2> QED BY <2>7, <2>9 DEF C, D, P
<1> QED BY <1>8, <1>9 DEF P

\* All of them: parse_command stores the words cut at those that are a "|".
LEMMA StoreAll ==
  ASSUME NEW text, NEW X, NEW W \in Seq(X), NEW argvs,
         argvs = CHOOSE f :
                   f = [k \in 0 .. Len(W) |->
                          IF k = 0 THEN << <<>> >> ELSE Store(text, f[k - 1], W[k])]
  PROVE  argvs[Len(W)] = Cut(BarWords(text, W), W, Len(W))
<1> DEFINE P == BarWords(text, W)
<1>1. PICK m \in Nat : m = Len(W) /\ P \in SUBSET (1 .. m)
  BY LenProperties DEF BarWords
<1> DEFINE g == [k \in 0 .. m |-> Cut(P, W, k)]
<1> DEFINE Loop(f) == f = [k \in 0 .. m |->
                             IF k = 0 THEN << <<>> >> ELSE Store(text, f[k - 1], W[k])]
<1>2. \A k \in 1 .. m : Store(text, Cut(P, W, k - 1), W[k]) = Cut(P, W, k)
  BY <1>1, StoreStep
<1> HIDE DEF P
<1>3. Cut(P, W, 0) = << <<>> >>
  <2>1. Part(P, 0 + 1) = 1
    BY <1>1, PartFacts
  <2>2. \A n : Members(P, n, 0) = {}
    BY DEF Members
  <2>3. Picked(W, {}) = <<>>
    BY FS_EmptySet DEF Picked
  <2>4. Cut(P, W, 0) = [n \in 1 .. 1 |-> <<>>]
    BY <2>1, <2>2, <2>3 DEF Cut
  <2> QED BY <2>4
<1>4. Loop(g)
  <2>1. \A k \in 1 .. m : g[k - 1] = Cut(P, W, k - 1)
    BY <1>1
  <2>2. \A k \in 0 .. m : Cut(P, W, k) =
          IF k = 0 THEN << <<>> >> ELSE Store(text, g[k - 1], W[k])
    <3> TAKE k \in 0 .. m
    <3>1. CASE k = 0
      BY <1>3, <3>1
    <3>2. CASE k # 0
      <4>1. k \in 1 .. m
        BY <1>1, <3>2
      <4> QED BY <1>2, <2>1, <3>2, <4>1
    <3> QED BY <3>1, <3>2
  <2> QED BY <2>2
<1>5. argvs = CHOOSE f : Loop(f)
  BY <1>1
<1> HIDE DEF Loop, g
<1>6. Loop(argvs)
  BY <1>4, <1>5
<1> DEFINE S == {k \in 0 .. m : argvs[k] = Cut(P, W, k)}
<1>7. 0 \in S
  <2>1. 0 \in 0 .. m
    BY <1>1
  <2>2. argvs[0] = IF 0 = 0 THEN << <<>> >> ELSE Store(text, argvs[0 - 1], W[0])
    BY <1>6, <2>1 DEF Loop
  <2>3. argvs[0] = << <<>> >>
    BY <2>2
  <2> QED BY <1>3, <2>1, <2>3
<1>8. ASSUME NEW k \in 1 .. m, k - 1 \in S PROVE k \in S
  <2>1. argvs[k - 1] = Cut(P, W, k - 1)
    BY <1>8
  <2>2. k \in 0 .. m /\ k # 0
    BY <1>1
  <2>3. argvs[k] = Store(text, argvs[k - 1], W[k])
    BY <1>6, <2>2 DEF Loop
  <2> QED BY <1>2, <2>1, <2>2, <2>3
<1> HIDE DEF S
<1>9. \A k \in 0 .. m : k \in S
  BY <1>1, <1>7, <1>8, UpTo
<1>10. m \in S
  BY <1>1, <1>9
<1> QED BY <1>1, <1>10 DEF S, P

-----------------------------------------------------------------------------
(* What malloc_argv counts.                                                *)

\* The values that the variables of a loop of N steps go through, from v.
Histories(V, v, N, step) ==
  {f \in [0 .. N -> V] : f[0] = v /\ \A i \in 1 .. N : f[i] = step[i][f[i - 1]]}

\* A loop whose variables stay in V has a history.
LEMMA LoopRuns ==
  ASSUME NEW V, NEW v \in V, NEW N \in Nat, NEW step \in [1 .. N -> [V -> V]]
  PROVE  Histories(V, v, N, step) # {}
<1> DEFINE Runs(n) == {f \in [0 .. N -> V] :
                         f[0] = v /\ \A i \in 1 .. n : f[i] = step[i][f[i - 1]]}
<1> DEFINE S == {n \in 0 .. N : Runs(n) # {}}
<1>1. 0 \in S
  <2>1. [i \in 0 .. N |-> v] \in Runs(0)
    OBVIOUS
  <2> QED BY <2>1
<1>2. ASSUME NEW n \in 1 .. N, n - 1 \in S PROVE n \in S
  <2>1. PICK f \in Runs(n - 1) : TRUE
    BY <1>2
  <2>2. /\ f \in [0 .. N -> V] /\ f[0] = v
        /\ \A i \in 1 .. n - 1 : f[i] = step[i][f[i - 1]]
    BY <2>1
  <2> DEFINE w == step[n][f[n - 1]]
  <2> DEFINE g == [i \in 0 .. N |-> IF i = n THEN w ELSE f[i]]
  <2>3. w \in V
    BY <2>2
  <2> HIDE DEF w
  <2>4. g \in [0 .. N -> V] /\ g[0] = v
    BY <2>2, <2>3
  <2>5. ASSUME NEW i \in 1 .. n PROVE g[i] = step[i][g[i - 1]]
    <3>1. /\ i \in 0 .. N /\ i - 1 \in 0 .. N /\ i - 1 # n
          /\ g[i - 1] = f[i - 1]
      OBVIOUS
    <3>2. CASE i = n
      BY <3>1, <3>2 DEF w
    <3>3. CASE i # n
      <4>1. i \in 1 .. n - 1 /\ g[i] = f[i]
        BY <3>1, <3>3
      <4> QED BY <2>2, <3>1, <4>1
    <3> QED BY <3>2, <3>3
  <2> HIDE DEF g
  <2>6. g \in Runs(n)
    BY <2>4, <2>5
  <2> QED BY <2>6
<1> HIDE DEF S
<1>3. \A n \in 0 .. N : n \in S
  BY <1>1, <1>2, UpTo
<1>4. Runs(N) # {}
  BY <1>3 DEF S
<1> QED BY <1>4 DEF Histories

\* The spaces at which malloc_argv's loop counts a word, and those up to i that
\* it counts for process n.
Ends(cmd) ==
  {e \in 2 .. Len(cmd) : cmd[e] = " " /\ cmd[e - 1] # " " /\ cmd[e - 1] # "|"}

Counted(cmd, n, i) ==
  {e \in Ends(cmd) : e <= i /\ Part(Positions(cmd, {"|"}), e) = n}

Counts == [argc : Seq(Nat), words : Nat, curr : Nat]

\* What Count does to each part of the record.
LEMMA CountIs ==
  ASSUME NEW a \in Counts, NEW c
  PROVE  /\ c = "|" => Count(a, c) = [argc |-> Append(a.argc, a.words),
                                      words |-> 0, curr |-> 0]
         /\ c = " " => Count(a, c) =
                         [argc |-> a.argc, curr |-> 0,
                          words |-> IF a.curr # 0 THEN a.words + 1 ELSE a.words]
         /\ c # "|" /\ c # " " => Count(a, c) = [argc |-> a.argc, words |-> a.words,
                                                 curr |-> a.curr + 1]
<1>1. a = [argc |-> a.argc, words |-> a.words, curr |-> a.curr]
  BY DEF Counts
<1> QED BY <1>1 DEF Count, CountWords, Allocate

\* A character leaves the counters of malloc_argv numbers.
LEMMA CountTyped ==
  ASSUME NEW a \in Counts, NEW c
  PROVE  Count(a, c) \in Counts
<1>1. a.argc \in Seq(Nat) /\ a.words \in Nat /\ a.curr \in Nat
  BY DEF Counts
<1>2. Append(a.argc, a.words) \in Seq(Nat)
  BY <1>1
<1>3. \A argc \in Seq(Nat), words \in Nat, curr \in Nat :
        [argc |-> argc, words |-> words, curr |-> curr] \in Counts
  BY DEF Counts
<1>4. CASE c = "|"
  <2>1. Count(a, c) = [argc |-> Append(a.argc, a.words), words |-> 0, curr |-> 0]
    BY <1>4, CountIs
  <2> QED BY <1>2, <1>3, <2>1
<1>5. CASE c = " "
  <2>1. Count(a, c) = [argc |-> a.argc, curr |-> 0,
                       words |-> IF a.curr # 0 THEN a.words + 1 ELSE a.words]
    BY <1>5, CountIs
  <2>2. Count(a, c) = [argc |-> a.argc, curr |-> 0, words |-> a.words + 1]
        \/ Count(a, c) = [argc |-> a.argc, curr |-> 0, words |-> a.words]
    BY <2>1
  <2> QED BY <1>1, <1>3, <2>2
<1>6. CASE c # "|" /\ c # " "
  <2>1. Count(a, c) = [argc |-> a.argc, words |-> a.words, curr |-> a.curr + 1]
    BY <1>6, CountIs
  <2> QED BY <1>1, <1>3, <2>1
<1> QED BY <1>4, <1>5, <1>6

\* What Count does to each counter.
LEMMA CountFields ==
  ASSUME NEW a \in Counts, NEW c, NEW t, t = Count(a, c)
  PROVE  /\ t \in Counts
         /\ c = "|" => t.argc = Append(a.argc, a.words) /\ t.words = 0 /\ t.curr = 0
         /\ c = " " => /\ t.argc = a.argc /\ t.curr = 0
                       /\ t.words = IF a.curr # 0 THEN a.words + 1 ELSE a.words
         /\ c # "|" /\ c # " " => /\ t.argc = a.argc /\ t.words = a.words
                                  /\ t.curr = a.curr + 1
<1>1. t \in Counts
  BY CountTyped
<1>2. CASE c = "|"
  <2>1. t = [argc |-> Append(a.argc, a.words), words |-> 0, curr |-> 0]
    BY <1>2, CountIs
  <2>2. t.argc = Append(a.argc, a.words) /\ t.words = 0 /\ t.curr = 0
    BY <2>1
  <2>3. c # " "
    BY <1>2
  <2> QED BY <1>1, <1>2, <2>2, <2>3
<1>3. CASE c = " "
  <2>1. t = [argc |-> a.argc, curr |-> 0,
             words |-> IF a.curr # 0 THEN a.words + 1 ELSE a.words]
    BY <1>3, CountIs
  <2>2. /\ t.argc = a.argc /\ t.curr = 0
        /\ t.words = IF a.curr # 0 THEN a.words + 1 ELSE a.words
    BY <2>1
  <2>3. c # "|"
    BY <1>3
  <2> QED BY <1>1, <1>3, <2>2, <2>3, Zenon
<1>4. CASE c # "|" /\ c # " "
  <2>1. t = [argc |-> a.argc, words |-> a.words, curr |-> a.curr + 1]
    BY <1>4, CountIs
  <2>2. t.argc = a.argc /\ t.words = a.words /\ t.curr = a.curr + 1
    BY <2>1
  <2> QED BY <1>1, <1>4, <2>2, Zenon
<1> QED BY <1>2, <1>3, <1>4

\* How the spaces counted grow by one character.
LEMMA CountedGrows ==
  ASSUME NEW cmd, NEW N \in Nat, N = Len(cmd), DOMAIN cmd = 1 .. N,
         NEW i \in 1 .. N
  PROVE  LET B == Positions(cmd, {"|"})
         IN /\ \A n : \A k \in {i - 1, i} :
                 IsFiniteSet(Counted(cmd, n, k)) /\ Cardinality(Counted(cmd, n, k)) \in Nat
            /\ i \in Ends(cmd) =>
                 Cardinality(Counted(cmd, Part(B, i), i))
                   = Cardinality(Counted(cmd, Part(B, i), i - 1)) + 1
            /\ \A n : i \notin Ends(cmd) \/ n # Part(B, i) =>
                 Counted(cmd, n, i) = Counted(cmd, n, i - 1)
            /\ i \in B => Counted(cmd, Part(B, i + 1), i) = {}
<1> DEFINE B == Positions(cmd, {"|"})
<1>1. B \in SUBSET (1 .. N) /\ Ends(cmd) \in SUBSET (1 .. N)
  <2>1. \A e \in 2 .. N : e \in 1 .. N
    OBVIOUS
  <2>2. Ends(cmd) \in SUBSET (2 .. N)
    BY DEF Ends
  <2> QED BY <2>1, <2>2 DEF Positions
<1> HIDE DEF B
<1> DEFINE C(n, k) == {e \in Ends(cmd) : e <= k /\ Part(B, e) = n}
<1>2. \A n, k : Counted(cmd, n, k) = C(n, k)
  BY DEF Counted, B
<1>3. \A n, k : IsFiniteSet(C(n, k)) /\ Cardinality(C(n, k)) \in Nat
  <2> TAKE n, k
  <2>1. C(n, k) \in SUBSET (1 .. N)
    BY <1>1
  <2> QED BY <2>1, SubsetsFinite
<1>4. \A e \in Ends(cmd) : e \in 1 .. N
  BY <1>1
<1>5. ASSUME i \in Ends(cmd)
      PROVE  Cardinality(C(Part(B, i), i)) = Cardinality(C(Part(B, i), i - 1)) + 1
  <2>1. C(Part(B, i), i) = C(Part(B, i), i - 1) \cup {i}
    <3>1. \A e \in Ends(cmd) : e <= i <=> e <= i - 1 \/ e = i
      BY <1>4
    <3> QED BY <1>5, <3>1
  <2>2. i \notin C(Part(B, i), i - 1)
    OBVIOUS
  <2> HIDE DEF C
  <2> QED BY <1>3, <2>1, <2>2, FS_AddElement
<1>6. ASSUME NEW n, i \notin Ends(cmd) \/ n # Part(B, i)
      PROVE  C(n, i) = C(n, i - 1)
  <2>1. \A e \in Ends(cmd) : e <= i - 1 => e <= i
    BY <1>4
  <2>2. \A e \in Ends(cmd) : e <= i => e <= i - 1 \/ e = i
    BY <1>4
  <2> QED BY <1>6, <2>1, <2>2
<1>7. ASSUME i \in B PROVE C(Part(B, i + 1), i) = {}
  <2> SUFFICES ASSUME NEW e \in Ends(cmd), e <= i, Part(B, e) = Part(B, i + 1)
               PROVE  FALSE
    OBVIOUS
  <2>1. e \in Nat /\ i \in Nat
    BY <1>4
  <2>2. Part(B, e) <= Part(B, i) /\ Part(B, i) \in Nat
    BY <1>1, <2>1, PartFacts
  <2>3. Part(B, i + 1) = Part(B, i) + 1
    BY <1>1, <1>7, PartFacts
  <2> QED BY <2>2, <2>3
<1> HIDE DEF C
<1> QED BY <1>2, <1>3, <1>5, <1>6, <1>7 DEF B

\* What malloc_argv knows after i characters.
CountedSoFar(cmd, r, i) ==
  LET B == Positions(cmd, {"|"})
  IN /\ r \in Counts
     /\ r.curr # 0 <=> i # 0 /\ cmd[i] # " " /\ cmd[i] # "|"
     /\ Len(r.argc) + 1 = Part(B, i + 1)
     /\ \A n \in 1 .. Len(r.argc) : r.argc[n] = Cardinality(Counted(cmd, n, i))
     /\ r.words = Cardinality(Counted(cmd, Part(B, i + 1), i))

\* Before the first character nothing is counted.
LEMMA CountedAtFirst ==
  ASSUME NEW cmd, NEW N \in Nat, N = Len(cmd), DOMAIN cmd = 1 .. N
  PROVE  CountedSoFar(cmd, [argc |-> <<>>, words |-> 0, curr |-> 0], 0)
<1> DEFINE B == Positions(cmd, {"|"})
<1> DEFINE r == [argc |-> <<>>, words |-> 0, curr |-> 0]
<1>1. r \in Counts
  BY DEF Counts
<1>2. B \in SUBSET (1 .. N)
  BY DEF Positions
<1> HIDE DEF B
<1>3. Part(B, 0 + 1) = 1
  BY <1>2, PartFacts
<1>4. \A n : Counted(cmd, n, 0) = {}
  <2>1. \A e \in 2 .. N : ~(e <= 0)
    OBVIOUS
  <2> QED BY <2>1 DEF Counted, Ends
<1>5. Cardinality({}) = 0
  BY FS_EmptySet
<1>6. Len(r.argc) = 0 /\ r.words = 0 /\ r.curr = 0
  OBVIOUS
<1> HIDE DEF r
<1>7. /\ Len(r.argc) + 1 = Part(B, 0 + 1)
      /\ \A n \in 1 .. Len(r.argc) : r.argc[n] = Cardinality(Counted(cmd, n, 0))
      /\ r.words = Cardinality(Counted(cmd, Part(B, 0 + 1), 0))
      /\ r.curr # 0 <=> 0 # 0 /\ cmd[0] # " " /\ cmd[0] # "|"
  <2>1. Len(r.argc) + 1 = Part(B, 0 + 1)
    BY <1>3, <1>6
  <2>2. \A n \in 1 .. Len(r.argc) : r.argc[n] = Cardinality(Counted(cmd, n, 0))
    <3>1. \A n \in 1 .. 0 : FALSE
      OBVIOUS
    <3> QED BY <1>6, <3>1
  <2>3. r.words = Cardinality(Counted(cmd, Part(B, 0 + 1), 0))
    BY <1>4, <1>5, <1>6
  <2>4. r.curr # 0 <=> 0 # 0 /\ cmd[0] # " " /\ cmd[0] # "|"
    BY <1>6, Zenon
  <2> QED BY <2>1, <2>2, <2>3, <2>4
<1>8. CountedSoFar(cmd, r, 0)
  BY <1>1, <1>7, Zenon DEF CountedSoFar, B
<1> QED BY <1>8 DEF r

\* A further character changes what is counted as Count changes its counters.
LEMMA CountedStep ==
  ASSUME NEW cmd, NEW N \in Nat, N = Len(cmd), DOMAIN cmd = 1 .. N,
         NEW i \in 1 .. N, NEW r, CountedSoFar(cmd, r, i - 1)
  PROVE  CountedSoFar(cmd, Count(r, cmd[i]), i)
<1> DEFINE B == Positions(cmd, {"|"})
<1>1. B \in SUBSET (1 .. N) /\ (i \in B <=> cmd[i] = "|")
  BY DEF Positions
<1>2. i \in Nat /\ i - 1 \in Nat /\ (i - 1) + 1 = i /\ i # 0 /\ i + 1 \in Nat
  OBVIOUS
<1>3. /\ r \in Counts
      /\ r.curr # 0 <=> i - 1 # 0 /\ cmd[i - 1] # " " /\ cmd[i - 1] # "|"
      /\ Len(r.argc) + 1 = Part(B, i)
      /\ \A n \in 1 .. Len(r.argc) : r.argc[n] = Cardinality(Counted(cmd, n, i - 1))
      /\ r.words = Cardinality(Counted(cmd, Part(B, i), i - 1))
  BY <1>2 DEF CountedSoFar
<1>4. r.argc \in Seq(Nat) /\ r.words \in Nat
  BY <1>3 DEF Counts
<1>5. PICK last \in Nat : last = Len(r.argc) /\ Part(B, i) = last + 1
  BY <1>3, <1>4, LenProperties
<1>6. i \in Ends(cmd) <=> cmd[i] = " " /\ r.curr # 0
  <2>1. i \in Ends(cmd) <=>
          i # 1 /\ cmd[i] = " " /\ cmd[i - 1] # " " /\ cmd[i - 1] # "|"
    <3>1. i \in 2 .. N <=> i # 1
      OBVIOUS
    <3> QED BY <3>1 DEF Ends
  <2>2. i - 1 # 0 <=> i # 1
    OBVIOUS
  <2>3. r.curr # 0 <=> i # 1 /\ cmd[i - 1] # " " /\ cmd[i - 1] # "|"
    BY <1>3, <2>2
  <2> QED BY <2>1, <2>3, Zenon
<1> HIDE DEF B
<1>7. /\ \A n : \A k \in {i - 1, i} : Cardinality(Counted(cmd, n, k)) \in Nat
      /\ i \in Ends(cmd) =>
           Cardinality(Counted(cmd, Part(B, i), i))
             = Cardinality(Counted(cmd, Part(B, i), i - 1)) + 1
      /\ \A n : i \notin Ends(cmd) \/ n # Part(B, i) =>
           Counted(cmd, n, i) = Counted(cmd, n, i - 1)
      /\ i \in B => Counted(cmd, Part(B, i + 1), i) = {}
  BY CountedGrows DEF B
<1> DEFINE t == Count(r, cmd[i])
<1> DEFINE c == cmd[i]
<1>8. /\ t \in Counts
      /\ c = "|" => t.argc = Append(r.argc, r.words) /\ t.words = 0 /\ t.curr = 0
      /\ c = " " => /\ t.argc = r.argc /\ t.curr = 0
                    /\ t.words = IF r.curr # 0 THEN r.words + 1 ELSE r.words
      /\ c # "|" /\ c # " " => /\ t.argc = r.argc /\ t.words = r.words
                               /\ t.curr = r.curr + 1
  <2>1. t = Count(r, c)
    OBVIOUS
  <2> HIDE DEF t, c
  <2> QED BY <1>3, <2>1, CountFields
<1> HIDE DEF t
<1>9. \A n \in 1 .. last : Counted(cmd, n, i) = Counted(cmd, n, i - 1)
  <2>1. \A n \in 1 .. last : n # last + 1
    OBVIOUS
  <2> QED BY <1>5, <1>7, <2>1
<1>10. i \in B <=> c = "|"
  BY <1>1
<1>11. i \in Ends(cmd) <=> c = " " /\ r.curr # 0
  BY <1>6
<1>12. r.curr \in Nat
  BY <1>3 DEF Counts
<1> HIDE DEF c
<1>13. t.curr # 0 <=> c # " " /\ c # "|"
  <2>1. r.curr + 1 # 0
    BY <1>12
  <2>2. "|" # " "
    OBVIOUS
  <2> QED BY <1>8, <2>1, <2>2
<1>14. /\ Len(t.argc) + 1 = Part(B, i + 1)
       /\ \A n \in 1 .. Len(t.argc) : t.argc[n] = Cardinality(Counted(cmd, n, i))
       /\ t.words = Cardinality(Counted(cmd, Part(B, i + 1), i))
  <2>1. CASE c = "|"
    <3>1. t.argc = Append(r.argc, r.words) /\ t.words = 0
      BY <1>8, <2>1
    <3>2. i \in B /\ i \notin Ends(cmd)
      BY <1>10, <1>11, <2>1
    <3>3. Part(B, i + 1) = last + 2
      <4>1. Part(B, i + 1) = Part(B, i) + 1
        BY <1>1, <3>2, PartFacts
      <4> QED BY <1>5, <4>1
    <3>4. /\ Len(t.argc) = last + 1 /\ t.argc[last + 1] = r.words
          /\ \A n \in 1 .. last : t.argc[n] = r.argc[n]
      BY <1>4, <1>5, <3>1, AppendProperties
    <3>5. t.words = Cardinality(Counted(cmd, Part(B, i + 1), i))
      BY <1>7, <3>1, <3>2, FS_EmptySet
    <3>6. ASSUME NEW n \in 1 .. last + 1
          PROVE  t.argc[n] = Cardinality(Counted(cmd, n, i))
      <4>1. CASE n = last + 1
        <5>1. Counted(cmd, last + 1, i) = Counted(cmd, last + 1, i - 1)
          BY <1>7, <3>2
        <5> QED BY <1>3, <1>5, <3>4, <4>1, <5>1
      <4>2. CASE n # last + 1
        <5>1. n \in 1 .. last
          BY <4>2
        <5> QED BY <1>3, <1>5, <1>9, <3>4, <5>1
      <4> QED BY <4>1, <4>2
    <3> QED BY <3>3, <3>4, <3>5, <3>6
  <2>2. CASE c # "|"
    <3>1. t.argc = r.argc
      BY <1>8, <2>2
    <3>2. Part(B, i + 1) = Part(B, i)
      BY <1>1, <1>2, <1>10, <2>2, PartFacts
    <3>3. t.words = Cardinality(Counted(cmd, Part(B, i + 1), i))
      <4>1. CASE i \in Ends(cmd)
        <5>1. t.words = r.words + 1
          BY <1>8, <1>11, <4>1
        <5> QED BY <1>3, <1>7, <3>2, <4>1, <5>1
      <4>2. CASE i \notin Ends(cmd)
        <5>1. t.words = r.words
          BY <1>8, <1>11, <2>2, <4>2
        <5> QED BY <1>3, <1>7, <3>2, <4>2, <5>1
      <4> QED BY <4>1, <4>2
    <3>4. \A n \in 1 .. last : t.argc[n] = Cardinality(Counted(cmd, n, i))
      BY <1>3, <1>5, <1>9, <3>1
    <3> QED BY <1>3, <1>5, <3>1, <3>2, <3>3, <3>4
  <2> QED BY <2>1, <2>2
<1>15. t.curr # 0 <=> i # 0 /\ cmd[i] # " " /\ cmd[i] # "|"
  BY <1>2, <1>13 DEF c
<1>16. CountedSoFar(cmd, t, i)
  BY <1>8, <1>14, <1>15, Zenon DEF CountedSoFar, B
<1> QED BY <1>16 DEF t

\* malloc_argv allocates a process more than there are "|", each with the words
\* whose end it saw between two of them.
LEMMA MallocIs ==
  ASSUME NEW X, NEW cmd \in Seq(X)
  PROVE  LET B == Positions(cmd, {"|"})
             argc == malloc_argv(cmd)
             ends(n) == Cardinality(Counted(cmd, n, Len(cmd)))
         IN /\ Cardinality(B) \in Nat
            /\ argc \in Seq(Nat) /\ Len(argc) = Cardinality(B) + 1
            /\ \A n \in 1 .. Cardinality(B) : argc[n] = ends(n)
            /\ argc[Cardinality(B) + 1] =
                 ends(Cardinality(B) + 1) + (IF LastChar(cmd) # " " THEN 1 ELSE 0)
<1> DEFINE B == Positions(cmd, {"|"})
<1>1. PICK N \in Nat : N = Len(cmd) /\ DOMAIN cmd = 1 .. N
  BY LenProperties
<1> DEFINE first == [argc |-> <<>>, words |-> 0, curr |-> 0]
<1> DEFINE Loop(f) == f = [i \in 0 .. N |->
                             IF i = 0 THEN first ELSE Count(f[i - 1], cmd[i])]
<1> DEFINE after == CHOOSE f : Loop(f)
<1> DEFINE more == IF LastChar(cmd) # " " THEN 1 ELSE 0
<1>2. malloc_argv(cmd) = Append(after[N].argc, after[N].words + more)
  BY <1>1 DEF malloc_argv
<1>3. first \in Counts
  BY DEF Counts
<1>4. CountedSoFar(cmd, first, 0)
  BY <1>1, CountedAtFirst
<1> HIDE DEF first
<1>5. Loop(after)
  <2> DEFINE step == [i \in 1 .. N |-> [a \in Counts |-> Count(a, cmd[i])]]
  <2>1. step \in [1 .. N -> [Counts -> Counts]]
    BY CountTyped
  <2>2. \A i \in 1 .. N, a \in Counts : step[i][a] = Count(a, cmd[i])
    OBVIOUS
  <2> HIDE DEF step
  <2>3. PICK f \in [0 .. N -> Counts] :
          f[0] = first /\ \A i \in 1 .. N : f[i] = step[i][f[i - 1]]
    <3>1. Histories(Counts, first, N, step) # {}
      BY <1>3, <2>1, LoopRuns
    <3> QED BY <3>1 DEF Histories
  <2>4. \A i \in 1 .. N : f[i] = Count(f[i - 1], cmd[i])
    <3> TAKE i \in 1 .. N
    <3>1. i - 1 \in 0 .. N
      BY <1>1
    <3>2. f[i - 1] \in Counts
      BY <3>1
    <3> QED BY <2>2, <2>3, <3>2
  <2>5. \A i \in 0 .. N : f[i] = IF i = 0 THEN first ELSE Count(f[i - 1], cmd[i])
    <3>1. \A i \in 0 .. N : i = 0 \/ i \in 1 .. N
      BY <1>1
    <3> QED BY <2>3, <2>4, <3>1
  <2>6. Loop(f)
    BY <2>5
  <2> HIDE DEF Loop
  <2> QED BY <2>6
<1> HIDE DEF after
<1> DEFINE S == {i \in 0 .. N : CountedSoFar(cmd, after[i], i)}
<1>6. 0 \in S
  <2>1. 0 \in 0 .. N
    BY <1>1
  <2>2. after[0] = IF 0 = 0 THEN first ELSE Count(after[0 - 1], cmd[0])
    BY <1>5, <2>1
  <2> QED BY <1>4, <2>1, <2>2
<1>7. ASSUME NEW i \in 1 .. N, i - 1 \in S PROVE i \in S
  <2>1. i \in 0 .. N /\ i # 0
    BY <1>1
  <2>2. after[i] = Count(after[i - 1], cmd[i])
    BY <1>5, <2>1
  <2>3. CountedSoFar(cmd, after[i - 1], i - 1)
    BY <1>7
  <2> HIDE DEF Loop
  <2>4. CountedSoFar(cmd, Count(after[i - 1], cmd[i]), i)
    BY <1>1, <2>3, CountedStep
  <2> QED BY <2>1, <2>2, <2>4
<1> HIDE DEF S
<1>8. N \in S
  <2>1. \A i \in 0 .. N : i \in S
    BY <1>1, <1>6, <1>7, UpTo
  <2> QED BY <1>1, <2>1
<1>9. PICK r : r = after[N] /\ CountedSoFar(cmd, r, N)
  BY <1>8 DEF S
<1>10. PICK size \in Nat : size = Cardinality(B) /\ Part(B, N + 1) = size + 1
  <2>1. B \in SUBSET (1 .. N)
    BY <1>1 DEF Positions
  <2>2. N < N + 1 /\ N + 1 \in Nat
    BY <1>1
  <2> HIDE DEF B
  <2>3. Part(B, N + 1) = Cardinality(B) + 1
    BY <1>1, <2>1, <2>2, PartFacts
  <2> QED BY <1>1, <2>1, <2>3, SubsetsFinite
<1>11. r.argc \in Seq(Nat) /\ r.words \in Nat
  BY <1>9 DEF CountedSoFar, Counts
<1>12. /\ Len(r.argc) = size
       /\ \A n \in 1 .. size : r.argc[n] = Cardinality(Counted(cmd, n, N))
       /\ r.words = Cardinality(Counted(cmd, size + 1, N))
  <2>1. /\ Len(r.argc) + 1 = Part(B, N + 1)
        /\ \A n \in 1 .. Len(r.argc) : r.argc[n] = Cardinality(Counted(cmd, n, N))
        /\ r.words = Cardinality(Counted(cmd, Part(B, N + 1), N))
    BY <1>9 DEF CountedSoFar
  <2>2. Len(r.argc) = size
    BY <1>10, <1>11, <2>1, LenProperties
  <2> QED BY <1>10, <2>1, <2>2
<1>13. more \in Nat
  OBVIOUS
<1> DEFINE argc == Append(r.argc, r.words + more)
<1>14. malloc_argv(cmd) = argc
  BY <1>2, <1>9
<1>15. /\ argc \in Seq(Nat) /\ Len(argc) = size + 1
       /\ \A n \in 1 .. size : argc[n] = r.argc[n]
       /\ argc[size + 1] = r.words + more
  <2> HIDE DEF more
  <2>1. r.words + more \in Nat
    BY <1>11, <1>13
  <2> QED BY <1>11, <1>12, <2>1, AppendProperties
<1> HIDE DEF argc, B
<1>16. /\ argc \in Seq(Nat) /\ Len(argc) = size + 1
       /\ \A n \in 1 .. size : argc[n] = Cardinality(Counted(cmd, n, N))
       /\ argc[size + 1] = Cardinality(Counted(cmd, size + 1, N)) + more
  BY <1>12, <1>15
<1> QED BY <1>1, <1>10, <1>14, <1>16 DEF B

-----------------------------------------------------------------------------
(* What parse_command makes of a line.                                     *)

Text(cmd) == IF LastChar(cmd) = "&" THEN Front(cmd) ELSE cmd
Words(cmd, strays) == Strtok(Text(cmd), {" "} \cup strays)

\* Received is the line up to its last character that is no space.
LEMMA ReceivedIs ==
  ASSUME NEW X, NEW s \in Seq(X)
  PROVE  \E r \in 0 .. Len(s) :
           /\ r # 0 => s[r] # " "
           /\ \A i \in r + 1 .. Len(s) : s[i] = " "
           /\ Received(s) \in Seq(X) /\ Len(Received(s)) = r
           /\ \A i \in 1 .. r : Received(s)[i] = s[i]
           /\ LastChar(Received(s)) = IF r = 0 THEN " " ELSE s[r]
<1>1. PICK n \in Nat : n = Len(s) /\ DOMAIN s = 1 .. n
  BY LenProperties
<1> DEFINE S == {i \in DOMAIN s : s[i] # " "} \cup {0}
<1>2. S \in SUBSET (0 .. n) /\ 0 \in S
  <2>1. \A i \in 1 .. n : i \in 0 .. n
    OBVIOUS
  <2>2. 0 \in 0 .. n
    BY <1>1
  <2> QED BY <1>1, <2>1, <2>2
<1>3. /\ \A i \in S : i = 0 \/ s[i] # " "
      /\ \A i \in 1 .. n : s[i] # " " => i \in S
  BY <1>1
<1>4. Received(s) = SubSeq(s, 1, Max(S))
  BY DEF Received
<1> HIDE DEF S
<1>5. PICK r \in S : r = Max(S) /\ \A i \in S : i <= r
  BY <1>1, <1>2, MaxFacts
<1>6. /\ r \in 0 .. n /\ r \in Nat /\ r <= n
      /\ r # 0 => s[r] # " "
  <2>1. r \in 0 .. n
    BY <1>2, <1>5
  <2>2. r \in Nat /\ r <= n
    BY <1>1, <2>1
  <2> QED BY <1>3, <1>5, <2>1, <2>2
<1>7. \A i \in r + 1 .. n : s[i] = " "
  <2> TAKE i \in r + 1 .. n
  <2>1. r \in Nat /\ r <= n
    BY <1>1, <1>6
  <2>2. i \in 1 .. n /\ ~(i <= r)
    BY <1>1, <2>1
  <2> QED BY <1>3, <1>5, <2>2
<1>8. /\ Received(s) \in Seq(X) /\ Len(Received(s)) = r
      /\ \A i \in 1 .. r : Received(s)[i] = s[i]
  <2>1. r \in Nat /\ r <= n /\ Received(s) = SubSeq(s, 1, r)
    BY <1>4, <1>5, <1>6
  <2>2. \A i \in 1 .. r : s[i] \in X
    <3>1. \A i \in 1 .. r : i \in 1 .. n
      BY <2>1
    <3> QED BY <1>1, <3>1, ElementOfSeq
  <2>3. /\ SubSeq(s, 1, r) \in Seq(X)
        /\ Len(SubSeq(s, 1, r)) = IF 1 <= r THEN r - 1 + 1 ELSE 0
        /\ \A i \in 1 .. r - 1 + 1 : SubSeq(s, 1, r)[i] = s[1 + i - 1]
    BY <2>1, <2>2, SubSeqProperties
  <2>4. r - 1 + 1 = r /\ \A i \in 1 .. r : 1 + i - 1 = i
    BY <2>1
  <2> QED BY <2>1, <2>3, <2>4
<1>9. LastChar(Received(s)) = IF r = 0 THEN " " ELSE s[r]
  <2> DEFINE t == Received(s)
  <2>1. r \in Nat /\ t \in Seq(X) /\ Len(t) = r /\ (r # 0 => t[r] = s[r])
    <3>1. r \in Nat
      BY <1>6
    <3>2. r # 0 => r \in 1 .. r
      BY <3>1
    <3> QED BY <1>8, <3>1, <3>2
  <2> HIDE DEF t
  <2>2. t = <<>> <=> r = 0
    BY <2>1, EmptySeq
  <2>3. LastChar(t) = IF r = 0 THEN " " ELSE s[r]
    BY <2>1, <2>2 DEF LastChar, Last
  <2> QED BY <2>3 DEF t
<1> QED BY <1>1, <1>6, <1>7, <1>8, <1>9

\* The text that is split is the command without the "&" at its end.
LEMMA TextIs ==
  ASSUME NEW X, NEW cmd \in Seq(X)
  PROVE  /\ Text(cmd) \in Seq(X)
         /\ Len(Text(cmd)) = IF LastChar(cmd) = "&" THEN Len(cmd) - 1 ELSE Len(cmd)
         /\ \A i \in 1 .. Len(Text(cmd)) : i \in 1 .. Len(cmd) /\ Text(cmd)[i] = cmd[i]
<1>1. PICK n \in Nat : n = Len(cmd) /\ DOMAIN cmd = 1 .. n
  BY LenProperties
<1>2. CASE LastChar(cmd) = "&"
  <2>1. n # 0
    BY <1>1, <1>2 DEF LastChar
  <2>2. Text(cmd) = SubSeq(cmd, 1, n - 1)
    BY <1>1, <1>2 DEF Text, Front
  <2>3. n - 1 \in Nat /\ 1 \in 1 .. Len(cmd) + 1 /\ n - 1 \in 1 - 1 .. Len(cmd)
    BY <1>1, <2>1
  <2>4. /\ Text(cmd) \in Seq(X) /\ Len(Text(cmd)) = n - 1
        /\ \A i \in 1 .. n - 1 : Text(cmd)[i] = cmd[i]
    BY <2>2, <2>3, SubSeqProperties
  <2>5. \A i \in 1 .. n - 1 : i \in 1 .. n
    OBVIOUS
  <2> QED BY <1>1, <1>2, <2>4, <2>5
<1>3. CASE LastChar(cmd) # "&"
  BY <1>1, <1>3 DEF Text
<1> QED BY <1>2, <1>3

\* The words are those of strtok, and each process is given those between two
\* that are a "|".
LEMMA ParseCommandIs ==
  ASSUME NEW X, NEW cmd \in Seq(X), NEW strays
  PROVE  LET text == Text(cmd)
             W == Words(cmd, strays)
             j == parse_command(cmd, strays)
         IN /\ W \in Bounded(Len(text))
            /\ Tiles(W, {i \in 1 .. Len(text) : text[i] \notin {" "} \cup strays})
            /\ j.bg = (LastChar(cmd) = "&")
            /\ j.argc = malloc_argv(text)
            /\ j.argv = Cut(BarWords(text, W), W, Len(W))
<1> DEFINE text == Text(cmd)
<1> DEFINE W == Words(cmd, strays)
<1> DEFINE argvs == CHOOSE f :
              f = [k \in 0 .. Len(W) |->
                     IF k = 0 THEN << <<>> >> ELSE Store(text, f[k - 1], W[k])]
<1>1. parse_command(cmd, strays) = [bg |-> LastChar(cmd) = "&",
                                    argc |-> malloc_argv(text),
                                    argv |-> argvs[Len(W)]]
  BY DEF parse_command, Text, Words
<1>2. PICK n \in Nat : n = Len(text) /\ DOMAIN text = 1 .. n
  BY TextIs, LenProperties
<1> DEFINE S == {i \in 1 .. n : text[i] \notin {" "} \cup strays}
<1>3. W = Intervals(S)
  BY <1>2 DEF Words, Strtok
<1>4. S \in SUBSET (1 .. n)
  OBVIOUS
<1>5. W \in Bounded(n) /\ Tiles(W, S)
  <2> HIDE DEF S, W
  <2> QED BY <1>3, <1>4, IntervalsTile
<1>6. argvs[Len(W)] = Cut(BarWords(text, W), W, Len(W))
  <2>1. W \in Seq((1 .. n) \X (1 .. n))
    BY <1>5 DEF Bounded
  <2>2. argvs = CHOOSE f :
                  f = [k \in 0 .. Len(W) |->
                         IF k = 0 THEN << <<>> >> ELSE Store(text, f[k - 1], W[k])]
    OBVIOUS
  <2> HIDE DEF argvs, W, text
  <2> QED BY <2>1, <2>2, StoreAll
<1> DEFINE j == parse_command(cmd, strays)
<1>7. /\ j.bg = (LastChar(cmd) = "&") /\ j.argc = malloc_argv(text)
      /\ j.argv = argvs[Len(W)]
  <2> HIDE DEF argvs, W, text
  <2> QED BY <1>1
<1> HIDE DEF argvs, j
<1>8. /\ W \in Bounded(Len(text))
      /\ Tiles(W, {i \in 1 .. Len(text) : text[i] \notin {" "} \cup strays})
  BY <1>2, <1>5
<1>9. j.argv = Cut(BarWords(text, W), W, Len(W))
  BY <1>6, <1>7
<1> HIDE DEF W, text
<1> QED BY <1>7, <1>8, <1>9 DEF W, text, j

LineTyped == line \in Seq(Chars)

\* Only characters are typed.
LEMMA LineIsTyped == Spec => []LineTyped
<1>1. Init => LineTyped
  BY DEF Init, LineTyped
<1>2. LineTyped /\ [Next]_<<line, stray>> => LineTyped'
  <2> SUFFICES ASSUME LineTyped, [Next]_<<line, stray>>
               PROVE  LineTyped'
    OBVIOUS
  <2>1. CASE Next
    <3>1. PICK c \in Chars : line' = Append(line, c)
      BY <2>1 DEF Next, Type
    <3> QED BY <3>1 DEF LineTyped
  <2>2. CASE UNCHANGED <<line, stray>>
    BY <2>2 DEF LineTyped
  <2> QED BY <2>1, <2>2
<1> QED BY <1>1, <1>2, PTL DEF Spec

\* Each word that is a "|" is one of the "|" of the text, and they are in the
\* same order.
LEMMA BarsOfWords ==
  ASSUME NEW X, NEW text \in Seq(X), NEW S, NEW W \in Bounded(Len(text)), Tiles(W, S)
  PROVE  LET P == BarWords(text, W)
             B == Positions(text, {"|"})
             f == [l \in P |-> W[l][1]]
         IN /\ P \in SUBSET (1 .. Len(W)) /\ B \in SUBSET (1 .. Len(text))
            /\ f \in Injection(P, B)
            /\ Cardinality(P) \in Nat /\ Cardinality(B) \in Nat
            /\ Cardinality(P) <= Cardinality(B)
<1> DEFINE P == BarWords(text, W)
<1> DEFINE B == Positions(text, {"|"})
<1> DEFINE f == [l \in P |-> W[l][1]]
<1>1. PICK N \in Nat : N = Len(text) /\ DOMAIN text = 1 .. N
  BY LenProperties
<1>2. PICK M \in Nat : M = Len(W) /\ W \in [1 .. M -> (1 .. N) \X (1 .. N)]
  BY <1>1, LenProperties DEF Bounded
<1>3. \A l \in 1 .. M : W[l][1] \in 1 .. N /\ W[l][2] \in 1 .. N
  BY <1>2
<1>4. P \in SUBSET (1 .. M) /\ B \in SUBSET (1 .. N)
  BY <1>1, <1>2 DEF BarWords, Positions
<1>5. f \in [P -> B]
  <2> SUFFICES ASSUME NEW l \in P PROVE W[l][1] \in B
    OBVIOUS
  <2>1. l \in 1 .. M /\ text[W[l][1]] \in {"|"}
    BY <1>2 DEF BarWords, IsChar
  <2> QED BY <1>1, <1>3, <2>1 DEF Positions
<1>6. ASSUME NEW k \in 1 .. M, NEW l \in 1 .. M, k < l
      PROVE  W[k][1] < W[l][1]
  <2>1. W[k][1] <= W[k][2] /\ W[k][2] + 1 < W[l][1]
    BY <1>2, <1>6 DEF Tiles
  <2> QED BY <1>3, <2>1
<1>7. ASSUME NEW k \in P, NEW l \in P, W[k][1] = W[l][1] PROVE k = l
  <2>1. k \in 1 .. M /\ l \in 1 .. M
    BY <1>4
  <2>2. ~(k < l) /\ ~(l < k)
    BY <1>3, <1>6, <1>7, <2>1
  <2> QED BY <2>1, <2>2
<1> HIDE DEF P, B
<1>8. f \in Injection(P, B)
  BY <1>5, <1>7 DEF Injection, IsInjective
<1>9. /\ IsFiniteSet(P) /\ IsFiniteSet(B)
      /\ Cardinality(P) \in Nat /\ Cardinality(B) \in Nat
  BY <1>4, SubsetsFinite
<1> HIDE DEF f
<1>10. Cardinality(P) <= Cardinality(B)
  BY <1>8, <1>9, FS_Injection
<1> QED BY <1>1, <1>2, <1>4, <1>8, <1>9, <1>10 DEF P, B, f

\* How many processes there are, on either side.
LEMMA ListsAreAsLongAs ==
  ASSUME NEW X, NEW cmd \in Seq(X), NEW strays
  PROVE  LET text == Text(cmd)
             j == parse_command(cmd, strays)
             W == Words(cmd, strays)
         IN /\ text \in Seq(X)
            /\ Len(j.argv) = Cardinality(BarWords(text, W)) + 1
            /\ Len(j.argc) = Cardinality(Positions(text, {"|"})) + 1
<1>1. PICK text : text = Text(cmd) /\ text \in Seq(X)
  BY TextIs
<1>2. PICK W : W = Words(cmd, strays)
  OBVIOUS
<1> DEFINE P == BarWords(text, W)
<1>3. PICK j : j = parse_command(cmd, strays)
  OBVIOUS
<1>4. /\ W \in Bounded(Len(text))
      /\ j.argc = malloc_argv(text)
      /\ j.argv = Cut(P, W, Len(W))
  BY <1>1, <1>2, <1>3, ParseCommandIs
<1>5. PICK M \in Nat : M = Len(W)
  BY <1>4, LenProperties DEF Bounded
<1>6. P \in SUBSET (1 .. M)
  BY <1>5 DEF BarWords
<1> HIDE DEF P
<1>7. Len(j.argv) = Cardinality(P) + 1
  <2>1. M \in 0 .. M /\ M + 1 \in Nat /\ M < M + 1
    BY <1>5
  <2>2. Len(Cut(P, W, M)) = Part(P, M + 1)
    BY <1>6, <2>1, CutIs
  <2>3. Part(P, M + 1) = Cardinality(P) + 1
    BY <1>6, <2>1, PartFacts
  <2> QED BY <1>4, <1>5, <2>2, <2>3
<1>8. Len(j.argc) = Cardinality(Positions(text, {"|"})) + 1
  BY <1>1, <1>4, MallocIs
<1> QED BY <1>1, <1>2, <1>3, <1>7, <1>8 DEF P

\* Whatever is typed, and whatever else strtok splits at, parse_command stores
\* into no more processes than malloc_argv has allocated.
THEOREM CoversBars == Spec => []ListCoversBars
<1>1. LineTyped => ListCoversBars
  <2> SUFFICES ASSUME LineTyped PROVE ListCoversBars
    OBVIOUS
  <2>1. PICK cmd : cmd = Received(line) /\ cmd \in Seq(Chars)
    BY ReceivedIs DEF LineTyped
  <2>2. PICK text : text = Text(cmd) /\ text \in Seq(Chars)
    BY <2>1, TextIs
  <2>3. PICK W : W = Words(cmd, stray)
    OBVIOUS
  <2>4. PICK S : W \in Bounded(Len(text)) /\ Tiles(W, S)
    BY <2>1, <2>2, <2>3, ParseCommandIs
  <2>5. Cardinality(BarWords(text, W)) <= Cardinality(Positions(text, {"|"}))
        /\ Cardinality(BarWords(text, W)) \in Nat
        /\ Cardinality(Positions(text, {"|"})) \in Nat
    BY <2>2, <2>4, BarsOfWords
  <2>6. /\ Len(job.argv) = Cardinality(BarWords(text, W)) + 1
        /\ Len(job.argc) = Cardinality(Positions(text, {"|"})) + 1
    BY <2>1, <2>2, <2>3, ListsAreAsLongAs DEF job
  <2> QED BY <2>5, <2>6 DEF ListCoversBars
<1> QED BY <1>1, LineIsTyped, PTL

-----------------------------------------------------------------------------
(* The two counts agree.                                                   *)

\* Sets with a bijection between them are of one size.
LEMMA SameSize ==
  ASSUME NEW S, NEW T, IsFiniteSet(S), NEW f \in [S -> T],
         \A x, y \in S : f[x] = f[y] => x = y,
         \A y \in T : \E x \in S : f[x] = y
  PROVE  IsFiniteSet(T) /\ Cardinality(S) = Cardinality(T)
<1>1. f \in Injection(S, T) /\ f \in Surjection(S, T)
  BY DEF Injection, IsInjective, Surjection
<1>2. IsFiniteSet(T)
  BY <1>1, FS_Surjection
<1> QED BY <1>1, <1>2, FS_Surjection

\* What is assumed of a text whose bars stand alone, with the words W of it.
Apart(text, W, N, M) ==
  /\ N = Len(text) /\ DOMAIN text = 1 .. N
  /\ M = Len(W) /\ W \in [1 .. M -> (1 .. N) \X (1 .. N)]
  /\ Tiles(W, {i \in 1 .. N : text[i] # " "})
  /\ \A i \in Positions(text, {"|"}) : \E k \in 1 .. M : W[k] = <<i, i>>

\* Words do not overlap and are in order.
LEMMA WordBounds ==
  ASSUME NEW text, NEW W, NEW N \in Nat, NEW M \in Nat, Apart(text, W, N, M),
         NEW k \in 1 .. M
  PROVE  /\ W[k][1] \in 1 .. N /\ W[k][2] \in 1 .. N
         /\ W[k][1] <= W[k][2]
<1>1. W \in [1 .. M -> (1 .. N) \X (1 .. N)]
  BY DEF Apart
<1>2. W[k][1] <= W[k][2]
  BY DEF Apart, Tiles
<1> QED BY <1>1, <1>2

\* A word ends before the next one begins.
LEMMA WordsInOrder ==
  ASSUME NEW text, NEW W, NEW N \in Nat, NEW M \in Nat, Apart(text, W, N, M),
         NEW k \in 1 .. M, NEW l \in 1 .. M, k < l
  PROVE  W[k][2] + 1 < W[l][1]
BY DEF Apart, Tiles

\* A word has no space.
LEMMA NoSpaceInWord ==
  ASSUME NEW text, NEW W, NEW N \in Nat, NEW M \in Nat, Apart(text, W, N, M),
         NEW k \in 1 .. M, NEW i \in W[k][1] .. W[k][2]
  PROVE  i \in 1 .. N /\ text[i] # " "
<1> DEFINE S == {i_1 \in 1 .. N : text[i_1] # " "}
<1>1. i \in S
  BY DEF Apart, Tiles
<1> QED BY <1>1

\* The place behind a word is in the text, unless the word ends it.
LEMMA EndOfWord ==
  ASSUME NEW text, NEW W, NEW N \in Nat, NEW M \in Nat, Apart(text, W, N, M),
         NEW k \in 1 .. M, NEW e, e = W[k][2] + 1, e # N + 1
  PROVE  e \in 2 .. N
<1>1. W[k][2] \in 1 .. N
  BY WordBounds
<1> QED BY <1>1

SpaceAt(text, e) == text[e] = " "

\* Behind a word that is not at the end of the text there is a space.
LEMMA SpaceBehindWord ==
  ASSUME NEW text, NEW W, NEW N \in Nat, NEW M \in Nat, Apart(text, W, N, M),
         NEW k \in 1 .. M, NEW e, e = W[k][2] + 1, e # N + 1
  PROVE  SpaceAt(text, e)
<1> DEFINE S == {i \in 1 .. N : text[i] # " "}
<1>1. e \notin S
  BY DEF Apart, Tiles
<1>2. e \in 1 .. N
  <2>1. W[k][2] \in 1 .. N
    BY WordBounds
  <2> QED BY <2>1
<1> QED BY <1>1, <1>2 DEF SpaceAt

\* A character that is no space is in a word.
LEMMA WordAt ==
  ASSUME NEW text, NEW W, NEW N \in Nat, NEW M \in Nat, Apart(text, W, N, M),
         NEW i \in 1 .. N, text[i] # " "
  PROVE  \E k \in 1 .. M : i \in W[k][1] .. W[k][2]
<1> DEFINE S == {i_1 \in 1 .. N : text[i_1] # " "}
<1>1. i \in S
  OBVIOUS
<1>2. \A j \in S : \E k \in 1 .. M : j \in W[k][1] .. W[k][2]
  BY DEF Apart, Tiles
<1> HIDE DEF S
<1> QED BY <1>1, <1>2

\* The bars of the text are the words that are a bar, and where a word ends as
\* many have gone by as before it.
LEMMA BarsAreWords ==
  ASSUME NEW text, NEW W, NEW N \in Nat, NEW M \in Nat, Apart(text, W, N, M)
  PROVE  LET P == BarWords(text, W)
             B == Positions(text, {"|"})
         IN /\ P \in SUBSET (1 .. M) /\ B \in SUBSET (1 .. N)
            /\ Cardinality(P) = Cardinality(B)
            /\ \A k \in (1 .. M) \ P :
                 /\ text[W[k][2]] # "|"
                 /\ Part(B, W[k][2] + 1) = Part(P, k)
<1> DEFINE P == BarWords(text, W)
<1> DEFINE B == Positions(text, {"|"})
<1>1. /\ \A i : i \in B <=> i \in 1 .. N /\ text[i] = "|"
      /\ \A k : k \in P <=> k \in 1 .. M /\ W[k][1] = W[k][2] /\ text[W[k][1]] = "|"
  BY DEF Apart, Positions, BarWords, IsChar
<1>2. \A i \in B : \E k \in 1 .. M : W[k] = <<i, i>>
  BY DEF Apart
<1> HIDE DEF P, B
<1>3. P \in SUBSET (1 .. M) /\ B \in SUBSET (1 .. N)
  BY <1>1
<1>4. \A k \in 1 .. M : /\ W[k][1] \in 1 .. N /\ W[k][2] \in 1 .. N
                        /\ W[k][1] <= W[k][2]
  BY WordBounds
<1>5. \A k, l \in 1 .. M : k < l => W[k][2] + 1 < W[l][1]
  BY WordsInOrder
<1>6. \A k \in P : k \in 1 .. M /\ W[k][1] \in B
  BY <1>1, <1>4
<1>7. \A i \in B : \E k \in P : W[k][1] = i
  <2> TAKE i \in B
  <2>1. PICK k \in 1 .. M : W[k] = <<i, i>>
    BY <1>2
  <2>2. W[k][1] = i /\ W[k][2] = i /\ text[i] = "|"
    BY <1>1, <2>1
  <2> QED BY <1>1, <2>2
<1>8. ASSUME NEW k \in 1 .. M, NEW l \in 1 .. M, W[k][1] = W[l][1] PROVE k = l
  <2>1. ~(k < l) /\ ~(l < k)
    BY <1>4, <1>5, <1>8
  <2> QED BY <2>1
<1>9. IsFiniteSet(P)
  BY <1>3, SubsetsFinite
<1>10. Cardinality(P) = Cardinality(B)
  <2> DEFINE f == [l \in P |-> W[l][1]]
  <2>1. f \in [P -> B]
    BY <1>6
  <2>2. \A x, y \in P : f[x] = f[y] => x = y
    BY <1>6, <1>8
  <2>3. \A y \in B : \E x \in P : f[x] = y
    BY <1>7
  <2> HIDE DEF f
  <2> QED BY <1>9, <2>1, <2>2, <2>3, SameSize
<1>11. ASSUME NEW k \in (1 .. M) \ P PROVE text[W[k][2]] # "|"
  <2> SUFFICES ASSUME text[W[k][2]] = "|" PROVE FALSE
    OBVIOUS
  <2>1. PICK l \in 1 .. M : W[l] = <<W[k][2], W[k][2]>>
    BY <1>1, <1>2, <1>4
  <2>2. W[l][1] = W[k][2] /\ W[l][2] = W[k][2]
    BY <2>1
  <2>3. l \in P
    BY <1>1, <2>2
  <2>4. ~(k < l) /\ ~(l < k)
    BY <1>4, <1>5, <2>2
  <2> QED BY <2>3, <2>4
<1>12. ASSUME NEW k \in (1 .. M) \ P PROVE Part(B, W[k][2] + 1) = Part(P, k)
  <2> DEFINE L == {l \in P : l < k}
  <2> DEFINE R == {b \in B : b < W[k][2] + 1}
  <2> DEFINE f == [l \in L |-> W[l][1]]
  <2>1. f \in [L -> R]
    <3> SUFFICES ASSUME NEW l \in L PROVE W[l][1] \in R
      OBVIOUS
    <3>1. l \in 1 .. M /\ l < k /\ W[l][1] \in B
      BY <1>6
    <3>2. W[l][1] < W[k][2] + 1
      BY <1>4, <1>5, <3>1
    <3> QED BY <3>1, <3>2
  <2>2. \A x, y \in L : f[x] = f[y] => x = y
    BY <1>6, <1>8
  <2>3. \A y \in R : \E x \in L : f[x] = y
    <3> TAKE y \in R
    <3>1. PICK l \in P : W[l][1] = y
      BY <1>7
    <3>2. l \in 1 .. M /\ l # k
      BY <1>6
    <3>3. ~(k < l)
      BY <1>4, <1>5, <3>1, <3>2
    <3>4. l \in L
      BY <3>2, <3>3
    <3> QED BY <3>1, <3>4
  <2>4. IsFiniteSet(L)
    <3>1. L \in SUBSET P
      OBVIOUS
    <3> QED BY <1>9, <3>1, FS_Subset
  <2>5. Cardinality(L) = Cardinality(R)
    <3> HIDE DEF L, R, f
    <3> QED BY <2>1, <2>2, <2>3, <2>4, SameSize
  <2> QED BY <2>5 DEF Part
<1> QED BY <1>3, <1>10, <1>11, <1>12 DEF P, B

\* Whether the last process has a word more, that no space ends.
Unended(text, n, last) == IF n = last /\ LastChar(text) # " " THEN 1 ELSE 0

\* The words of each process are as many as malloc_argv counted, and at the end
\* of the text the one that no space ends.
LEMMA SameCounts ==
  ASSUME NEW text, NEW W, NEW N \in Nat, NEW M \in Nat, NEW n \in Nat,
         Apart(text, W, N, M), M # 0, M \notin BarWords(text, W)
  PROVE  LET P == BarWords(text, W)
         IN Cardinality(Members(P, n, M)) =
              Cardinality(Counted(text, n, N)) + Unended(text, n, Cardinality(P) + 1)
<1> DEFINE P == BarWords(text, W)
<1> DEFINE B == Positions(text, {"|"})
<1> DEFINE last == Cardinality(P) + 1
<1> DEFINE C == Counted(text, n, N)
<1> DEFINE more == IF n = last /\ LastChar(text) # " " THEN {N + 1} ELSE {}
<1> DEFINE g == [k \in Members(P, n, M) |-> W[k][2] + 1]
<1>1. /\ P \in SUBSET (1 .. M) /\ B \in SUBSET (1 .. N)
      /\ \A k \in (1 .. M) \ P : text[W[k][2]] # "|" /\ Part(B, W[k][2] + 1) = Part(P, k)
  BY BarsAreWords
<1>2. \A e : e \in C <=> /\ e \in 2 .. N /\ text[e] = " " /\ text[e - 1] # " "
                         /\ text[e - 1] # "|" /\ Part(B, e) = n
  <2>1. N = Len(text)
    BY DEF Apart
  <2>2. \A e \in 2 .. N : e <= N
    OBVIOUS
  <2> QED BY <2>1, <2>2 DEF Counted, Ends
<1>3. \A k : k \in Members(P, n, M) <=> k \in 1 .. M /\ k \notin P /\ Part(P, k) = n
  BY DEF Members
<1>4. LastChar(text) = IF N = 0 THEN " " ELSE text[N]
  <2>1. text = <<>> => N = 0
    BY DEF Apart
  <2>2. N = 0 => text = <<>>
    <3>1. N = 0 => DOMAIN text = {}
      BY DEF Apart
    <3> QED BY <3>1
  <2> QED BY <2>1, <2>2 DEF Apart, LastChar, Last
<1>5. Part(P, M) = last
  <2>1. Part(P, M + 1) = Part(P, M)
    BY <1>1, PartFacts
  <2>2. M < M + 1 /\ M + 1 \in Nat
    OBVIOUS
  <2>3. Part(P, M + 1) = last
    BY <1>1, <2>2, PartFacts
  <2> QED BY <2>1, <2>3
<1>17. \A e : e \in more <=> e = N + 1 /\ n = last /\ LastChar(text) # " "
  OBVIOUS
<1> HIDE DEF P, B, C, last, more
<1> DEFINE end(k) == W[k][2] + 1
<1>6. \A k \in 1 .. M : /\ W[k][1] \in 1 .. N /\ W[k][2] \in 1 .. N
                        /\ W[k][1] <= W[k][2]
  BY WordBounds
<1>7. \A k, l \in 1 .. M : k < l => W[k][2] + 1 < W[l][1]
  BY WordsInOrder
<1>9. \A k \in 1 .. M : W[k][2] = N => k = M
  <2> TAKE k \in 1 .. M
  <2>1. M \in 1 .. M
    OBVIOUS
  <2>2. k < M => W[k][2] + 1 < W[M][1]
    BY <1>7, <2>1
  <2>3. W[M][1] \in 1 .. N /\ W[k][2] \in 1 .. N
    BY <1>6, <2>1
  <2> QED BY <2>2, <2>3
<1>10. ASSUME NEW k \in Members(P, n, M) PROVE end(k) \in C \cup more
  <2>1. k \in 1 .. M /\ k \notin P /\ Part(B, end(k)) = n /\ text[W[k][2]] # "|"
    BY <1>1, <1>3
  <2>2. W[k][2] \in 1 .. N /\ end(k) - 1 = W[k][2]
    <3>1. W[k][2] \in 1 .. N
      BY <1>6, <2>1
    <3> QED BY <3>1
  <2>5. text[W[k][2]] # " "
    <3>1. W[k][2] \in W[k][1] .. W[k][2]
      <4>1. W[k][1] \in 1 .. N /\ W[k][2] \in 1 .. N /\ W[k][1] <= W[k][2]
        BY <1>6, <2>1
      <4> QED BY <4>1
    <3> QED BY <2>1, <3>1, NoSpaceInWord
  <2>3. CASE end(k) = N + 1
    <3>0. W[k][2] = N
      BY <2>2, <2>3
    <3>1. k = M
      BY <1>9, <2>1, <3>0
    <3>2. n = last
      BY <1>3, <1>5, <3>1
    <3>3. LastChar(text) # " "
      <4>1. N # 0
        BY <2>2
      <4> QED BY <1>4, <2>5, <3>0, <4>1
    <3> QED BY <1>17, <2>3, <3>2, <3>3
  <2>4. CASE end(k) # N + 1
    <3>1. end(k) \in 2 .. N /\ text[end(k)] = " "
      <4>1. k \in 1 .. M
        BY <2>1
      <4>2. PICK e : e = W[k][2] + 1 /\ e # N + 1
        BY <2>4
      <4>3. e \in 2 .. N
        BY <4>1, <4>2, EndOfWord
      <4>4. SpaceAt(text, e)
        BY <4>1, <4>2, SpaceBehindWord
      <4> QED BY <4>2, <4>3, <4>4 DEF SpaceAt
    <3> QED BY <1>2, <2>1, <2>2, <2>5, <3>1
  <2> QED BY <2>3, <2>4
<1>11. ASSUME NEW k \in Members(P, n, M), NEW l \in Members(P, n, M), end(k) = end(l)
       PROVE  k = l
  <2>1. k \in 1 .. M /\ l \in 1 .. M
    BY <1>3
  <2>2. /\ W[k][1] \in 1 .. N /\ W[k][2] \in 1 .. N /\ W[k][1] <= W[k][2]
        /\ W[l][1] \in 1 .. N /\ W[l][2] \in 1 .. N /\ W[l][1] <= W[l][2]
    BY <1>6, <2>1
  <2>3. ~(k < l)
    <3>1. k < l => W[k][2] + 1 < W[l][1]
      BY <1>7, <2>1
    <3> QED BY <1>11, <2>2, <3>1
  <2>4. ~(l < k)
    <3>1. l < k => W[l][2] + 1 < W[k][1]
      BY <1>7, <2>1
    <3> QED BY <1>11, <2>2, <3>1
  <2> QED BY <2>1, <2>3, <2>4
<1>12. ASSUME NEW e \in C \cup more PROVE \E k \in Members(P, n, M) : end(k) = e
  <2>1. CASE e \in C
    <3>1. /\ e \in 2 .. N /\ text[e] = " " /\ text[e - 1] # " "
          /\ text[e - 1] # "|" /\ Part(B, e) = n
      BY <1>2, <2>1
    <3>2. e \in 2 .. N
      BY <3>1
    <3>3. PICK k \in 1 .. M : e - 1 \in W[k][1] .. W[k][2]
      <4>1. e - 1 \in 1 .. N
        BY <3>2
      <4> QED BY <3>1, <4>1, WordAt
    <3>4. ~(e \in W[k][1] .. W[k][2])
      BY <3>1, NoSpaceInWord
    <3>5. W[k][2] = e - 1 /\ end(k) = e
      <4>1. W[k][1] \in 1 .. N /\ W[k][2] \in 1 .. N
        BY <1>6
      <4> QED BY <3>2, <3>3, <3>4, <4>1
    <3>6. k \notin P
      <4>1. k \in P => text[W[k][1]] = "|" /\ W[k][1] = W[k][2]
        BY DEF P, BarWords, IsChar
      <4> QED BY <3>1, <3>5, <4>1
    <3>7. Part(P, k) = n
      BY <1>1, <3>1, <3>5, <3>6
    <3> QED BY <1>3, <3>5, <3>6, <3>7
  <2>2. CASE e \in more
    <3>1. e = N + 1 /\ n = last /\ LastChar(text) # " "
      BY <1>17, <2>2
    <3>2. N # 0
      BY <1>4, <3>1
    <3>7. text[N] # " "
      BY <1>4, <3>1
    <3>3. PICK k \in 1 .. M : N \in W[k][1] .. W[k][2]
      <4>1. N \in 1 .. N
        BY <3>2
      <4> QED BY <3>7, <4>1, WordAt
    <3>4. W[k][2] = N
      <4>1. W[k][1] \in 1 .. N /\ W[k][2] \in 1 .. N
        BY <1>6
      <4> QED BY <3>3, <4>1
    <3>5. k = M
      BY <1>9, <3>4
    <3>6. k \in Members(P, n, M)
      BY <1>3, <1>5, <3>1, <3>5 DEF P
    <3> QED BY <3>1, <3>4, <3>6
  <2> QED BY <2>1, <2>2
<1>13. IsFiniteSet(Members(P, n, M))
  <2>1. Members(P, n, M) \in SUBSET (1 .. M)
    BY <1>3
  <2> QED BY <2>1, SubsetsFinite
<1>14. Cardinality(Members(P, n, M)) = Cardinality(C \cup more)
  <2>1. g \in [Members(P, n, M) -> C \cup more]
    BY <1>10
  <2>2. \A k, l \in Members(P, n, M) : g[k] = g[l] => k = l
    BY <1>11
  <2>3. \A e \in C \cup more : \E k \in Members(P, n, M) : g[k] = e
    BY <1>12
  <2> HIDE DEF g
  <2> QED BY <1>13, <2>1, <2>2, <2>3, SameSize
<1>15. IsFiniteSet(C) /\ Cardinality(C) \in Nat
  <2>1. C \in SUBSET (1 .. N)
    <3>1. \A e \in 2 .. N : e \in 1 .. N
      OBVIOUS
    <3> QED BY <1>2, <3>1
  <2> QED BY <2>1, SubsetsFinite
<1>16. CASE n = last /\ LastChar(text) # " "
  <2>1. more = {N + 1}
    BY <1>16, <1>17
  <2>2. N + 1 \notin C
    <3>1. ~(N + 1 \in 2 .. N)
      OBVIOUS
    <3> QED BY <1>2, <3>1
  <2>3. Cardinality(C \cup more) = Cardinality(C) + 1
    BY <1>15, <2>1, <2>2, FS_AddElement
  <2> QED BY <1>14, <1>16, <2>3 DEF P, C, last, Unended
<1>18. CASE ~(n = last /\ LastChar(text) # " ")
  <2>1. C \cup more = C
    BY <1>17, <1>18
  <2>2. Cardinality(Members(P, n, M)) = Cardinality(C) + 0
    <3>1. Cardinality(Members(P, n, M)) = Cardinality(C)
      BY <1>14, <2>1
    <3>2. Cardinality(C) \in Nat
      BY <1>15
    <3> QED BY <3>1, <3>2
  <2>3. Unended(text, n, last) = 0
    BY <1>18 DEF Unended
  <2> QED BY <2>2, <2>3 DEF P, C, last
<1> QED BY <1>16, <1>18

\* If there is an interval more between the cuts than there are cuts, none of
\* them is empty: they are the parts.
PartsAre(I, P, M) ==
  \A n \in 1 .. Cardinality(P) + 1 :
    /\ I[n][1] \in 1 .. M /\ I[n][2] \in 1 .. M /\ I[n][1] <= I[n][2]
    /\ Members(P, n, M) = I[n][1] .. I[n][2]

\* With an interval more than there are cuts, the intervals are the parts.
LEMMA IntervalsAreParts ==
  ASSUME NEW M \in Nat, NEW P \in SUBSET (1 .. M), NEW I,
         I = Intervals((1 .. M) \ P), Len(I) = Cardinality(P) + 1
  PROVE  /\ M # 0 /\ M \notin P
         /\ I \in Bounded(M) /\ PartsAre(I, P, M)
<1> DEFINE S == (1 .. M) \ P
<1>1. PICK c \in Nat : c = Cardinality(P) /\ IsFiniteSet(P)
  BY SubsetsFinite
<1>2. I \in Bounded(M) /\ Tiles(I, S)
  <2>1. S \in SUBSET (1 .. M)
    OBVIOUS
  <2> QED BY <2>1, IntervalsTile
<1>3. I \in [1 .. c + 1 -> (1 .. M) \X (1 .. M)]
  BY <1>1, <1>2, LenProperties DEF Bounded
<1>4. \A n \in 1 .. c + 1 : I[n][1] \in 1 .. M /\ I[n][2] \in 1 .. M
  BY <1>3
<1>5. \A n \in 1 .. c + 1 : I[n][1] <= I[n][2] /\ I[n][2] + 1 \notin S
  BY <1>1, <1>2 DEF Tiles
<1>6. \A n \in 1 .. c + 1 : \A i \in I[n][1] .. I[n][2] : i \in S
  BY <1>1, <1>2 DEF Tiles
<1>7. \A j, n \in 1 .. c + 1 : j < n => I[j][2] + 1 < I[n][1]
  BY <1>1, <1>2 DEF Tiles
<1>8. \A i \in S : \E n \in 1 .. c + 1 : i \in I[n][1] .. I[n][2]
  BY <1>1, <1>2 DEF Tiles
<1>9. \A i : i \in S <=> i \in 1 .. M /\ i \notin P
  OBVIOUS
<1> HIDE DEF S
<1>10. ASSUME NEW n \in 1 .. c
       PROVE  n \in 1 .. c + 1 /\ I[n][2] + 1 \in P /\ I[n][2] + 1 < M
  <2>1. n \in 1 .. c + 1 /\ n + 1 \in 1 .. c + 1 /\ n < n + 1
    BY <1>1
  <2>2. I[n][2] + 1 < I[n + 1][1]
    BY <1>7, <2>1
  <2>3. I[n][2] \in 1 .. M /\ I[n + 1][1] \in 1 .. M
    BY <1>4, <2>1
  <2>4. I[n][2] + 1 < M /\ I[n][2] + 1 \in 1 .. M
    BY <2>2, <2>3
  <2> QED BY <1>5, <1>9, <2>1, <2>4
<1> DEFINE f == [n \in 1 .. c |-> I[n][2] + 1]
<1>11. f \in Injection(1 .. c, P)
  <2>1. f \in [1 .. c -> P]
    BY <1>10
  <2>2. ASSUME NEW j \in 1 .. c, NEW n \in 1 .. c, f[j] = f[n] PROVE j = n
    <3>1. j \in 1 .. c + 1 /\ n \in 1 .. c + 1 /\ I[j][2] + 1 = I[n][2] + 1
      BY <1>10, <2>2
    <3>2. /\ I[j][1] \in 1 .. M /\ I[j][2] \in 1 .. M /\ I[j][1] <= I[j][2]
          /\ I[n][1] \in 1 .. M /\ I[n][2] \in 1 .. M /\ I[n][1] <= I[n][2]
      BY <1>4, <1>5, <3>1
    <3>3. ~(j < n)
      <4>1. j < n => I[j][2] + 1 < I[n][1]
        BY <1>7, <3>1
      <4> QED BY <3>1, <3>2, <4>1
    <3>4. ~(n < j)
      <4>1. n < j => I[n][2] + 1 < I[j][1]
        BY <1>7, <3>1
      <4> QED BY <3>1, <3>2, <4>1
    <3> QED BY <3>3, <3>4
  <2> HIDE DEF f
  <2> QED BY <2>1, <2>2 DEF Injection, IsInjective
<1>12. \A l \in P : \E n \in 1 .. c : I[n][2] + 1 = l
  <2>1. IsFiniteSet(1 .. c) /\ Cardinality(1 .. c) = c
    BY <1>1, FS_Interval
  <2>2. f \in Surjection(1 .. c, P)
    <3> HIDE DEF f
    <3> QED BY <1>1, <1>11, <2>1, FS_Injection
  <2>3. \A l \in P : \E n \in 1 .. c : f[n] = l
    <3> HIDE DEF f
    <3> QED BY <2>2 DEF Surjection
  <2> QED BY <2>3
<1> HIDE DEF f
<1>13. M \notin P
  <2> SUFFICES ASSUME M \in P PROVE FALSE
    OBVIOUS
  <2>1. PICK n \in 1 .. c : I[n][2] + 1 = M
    BY <1>12
  <2>2. I[n][2] + 1 < M
    BY <1>10
  <2> QED BY <2>1, <2>2
<1>14. M # 0
  <2>1. 1 \in 1 .. c + 1
    BY <1>1
  <2>2. I[1][1] \in 1 .. M
    BY <1>4, <2>1
  <2> QED BY <2>2
<1>15. ASSUME NEW n \in 1 .. c + 1, NEW k \in I[n][1] .. I[n][2]
       PROVE  Part(P, k) = n
  <2> DEFINE L == {l \in P : l < k}
  <2> DEFINE h == [j \in 1 .. n - 1 |-> I[j][2] + 1]
  <2>1. I[n][1] \in 1 .. M /\ I[n][2] \in 1 .. M /\ k \in Nat
    <3>1. I[n][1] \in 1 .. M /\ I[n][2] \in 1 .. M
      BY <1>4
    <3> QED BY <3>1
  <2>2. ASSUME NEW j \in 1 .. n - 1 PROVE h[j] \in L /\ j \in 1 .. c
    <3>1. j \in 1 .. c /\ j \in 1 .. c + 1 /\ j < n
      BY <1>1
    <3>2. I[j][2] + 1 \in P /\ I[j][2] + 1 < I[n][1]
      BY <1>7, <1>10, <3>1
    <3>3. I[j][2] + 1 < k
      <4>1. I[j][2] \in 1 .. M
        BY <1>4, <3>1
      <4> QED BY <1>15, <2>1, <3>2, <4>1
    <3> QED BY <3>1, <3>2, <3>3
  <2>3. ASSUME NEW i \in 1 .. n - 1, NEW j \in 1 .. n - 1, h[i] = h[j] PROVE i = j
    <3>1. i \in 1 .. c /\ j \in 1 .. c /\ f[i] = f[j]
      BY <2>2, <2>3 DEF f
    <3> QED BY <1>11, <3>1 DEF Injection, IsInjective
  <2>4. ASSUME NEW l \in L PROVE \E j \in 1 .. n - 1 : h[j] = l
    <3>1. PICK j \in 1 .. c : I[j][2] + 1 = l
      BY <1>12
    <3>2. j \in 1 .. c + 1 /\ I[j][2] + 1 < k
      BY <1>10, <3>1
    <3>3. I[j][1] \in 1 .. M /\ I[j][2] \in 1 .. M /\ I[j][1] <= I[j][2]
      BY <1>4, <1>5, <3>2
    <3>4. j # n
      BY <1>15, <2>1, <3>2
    <3>5. ~(n < j)
      <4> SUFFICES ASSUME n < j PROVE FALSE
        OBVIOUS
      <4>1. I[n][2] + 1 < I[j][1]
        BY <1>7, <3>2
      <4>2. k <= I[n][2]
        BY <2>1
      <4>3. PICK a \in 1 .. M, b \in 1 .. M, e \in 1 .. M :
              a = I[j][1] /\ b = I[j][2] /\ e = I[n][2]
        BY <2>1, <3>3
      <4>4. k \in Nat /\ b + 1 < k /\ k <= e /\ e + 1 < a /\ a <= b
        BY <2>1, <3>2, <3>3, <4>1, <4>2, <4>3
      <4> QED BY <4>4
    <3>6. j \in 1 .. n - 1
      BY <1>1, <3>4, <3>5
    <3> QED BY <3>1, <3>6
  <2>5. IsFiniteSet(1 .. n - 1) /\ Cardinality(1 .. n - 1) = n - 1
    <3>1. PICK m \in Nat : m = n - 1
      BY <1>1
    <3>2. IsFiniteSet(1 .. m) /\ Cardinality(1 .. m) = m
      BY SizeOfInterval
    <3> QED BY <3>1, <3>2
  <2>6. h \in [1 .. n - 1 -> L]
    BY <2>2
  <2> HIDE DEF h, L
  <2>7. Cardinality(1 .. n - 1) = Cardinality(L)
    <3>1. PICK D : D = 1 .. n - 1
      OBVIOUS
    <3>2. h \in [D -> L] /\ IsFiniteSet(D)
      BY <2>5, <2>6, <3>1
    <3>3. \A i, j \in D : h[i] = h[j] => i = j
      BY <2>3, <3>1
    <3>4. \A l \in L : \E j \in D : h[j] = l
      BY <2>4, <3>1
    <3>5. Cardinality(D) = Cardinality(L)
      BY <3>2, <3>3, <3>4, SameSize
    <3> QED BY <3>1, <3>5
  <2>8. Part(P, k) = Cardinality(L) + 1
    BY DEF Part, L
  <2>9. n \in Nat
    BY <1>1
  <2> QED BY <2>5, <2>7, <2>8, <2>9
<1>16. ASSUME NEW n \in 1 .. c + 1 PROVE Members(P, n, M) = I[n][1] .. I[n][2]
  <2>1. ASSUME NEW l \in I[n][1] .. I[n][2] PROVE l \in Members(P, n, M)
    BY <1>6, <1>9, <1>15 DEF Members
  <2>2. ASSUME NEW l \in Members(P, n, M) PROVE l \in I[n][1] .. I[n][2]
    <3>1. l \in S /\ Part(P, l) = n
      BY <1>9 DEF Members
    <3>2. PICK j \in 1 .. c + 1 : l \in I[j][1] .. I[j][2]
      BY <1>8, <3>1
    <3>3. j = n
      BY <1>15, <3>1, <3>2
    <3> QED BY <3>2, <3>3
  <2> QED BY <2>1, <2>2
<1> QED BY <1>1, <1>2, <1>4, <1>5, <1>13, <1>14, <1>16 DEF PartsAre

\* Without the characters that strtok was not meant to have, the words are those
\* between spaces.
LEMMA CleanWords ==
  ASSUME NEW X, NEW s \in Seq(X), NEW strays, Positions(s, strays) = {}
  PROVE  LET cmd == Received(s)
             text == Text(cmd)
             W == Words(cmd, strays)
             N == Len(text)
         IN /\ cmd \in Seq(X) /\ text \in Seq(X) /\ N \in Nat
            /\ W \in Bounded(N) /\ Tiles(W, {i \in 1 .. N : text[i] # " "})
            /\ W = Strtok(text, {" "})
<1> DEFINE cmd == Received(s)
<1> DEFINE text == Text(cmd)
<1> DEFINE W == Words(cmd, strays)
<1> DEFINE N == Len(text)
<1>1. PICK r \in 0 .. Len(s) :
        /\ cmd \in Seq(X) /\ Len(cmd) = r
        /\ \A i \in 1 .. r : cmd[i] = s[i]
  BY ReceivedIs
<1>2. /\ text \in Seq(X)
      /\ \A i \in 1 .. Len(text) : i \in 1 .. Len(cmd) /\ text[i] = cmd[i]
  BY <1>1, TextIs
<1>3. N \in Nat /\ DOMAIN text = 1 .. N
  BY <1>2, LenProperties
<1>4. /\ W \in Bounded(N)
      /\ Tiles(W, {i \in 1 .. N : text[i] \notin {" "} \cup strays})
  <2> HIDE DEF cmd
  <2>1. cmd \in Seq(X)
    BY <1>1
  <2> QED BY <2>1, ParseCommandIs
<1>5. W = Intervals({i \in 1 .. N : text[i] \notin {" "} \cup strays})
  BY <1>3 DEF Words, Strtok
<1> HIDE DEF cmd, text, W, N
<1>6. \A i \in 1 .. N : text[i] \notin strays
  <2> TAKE i \in 1 .. N
  <2>1. i \in 1 .. r /\ text[i] = s[i]
    <3>1. i \in 1 .. Len(text)
      BY DEF N
    <3>2. i \in 1 .. Len(cmd) /\ text[i] = cmd[i]
      BY <1>2, <3>1
    <3> QED BY <1>1, <3>2
  <2>2. PICK n \in Nat : n = Len(s) /\ DOMAIN s = 1 .. n
    BY LenProperties
  <2>3. i \in DOMAIN s
    BY <2>1, <2>2
  <2> QED BY <2>1, <2>3 DEF Positions
<1>7. {i \in 1 .. N : text[i] \notin {" "} \cup strays} = {i \in 1 .. N : text[i] # " "}
  BY <1>6
<1>8. W = Strtok(text, {" "})
  <2>1. {i \in 1 .. N : text[i] \notin {" "}} = {i \in 1 .. N : text[i] # " "}
    OBVIOUS
  <2> QED BY <1>3, <1>7, <1>5, <2>1 DEF Strtok
<1>9. /\ cmd \in Seq(X) /\ text \in Seq(X) /\ N \in Nat
      /\ W \in Bounded(N) /\ Tiles(W, {i \in 1 .. N : text[i] # " "})
      /\ W = Strtok(text, {" "})
  BY <1>1, <1>2, <1>3, <1>7, <1>4, <1>8
<1> QED BY <1>9 DEF cmd, text, W, N

\* No "|" is lost with a "&" at the end.
LEMMA SameBars ==
  ASSUME NEW X, NEW cmd \in Seq(X)
  PROVE  Positions(cmd, {"|"}) = Positions(Text(cmd), {"|"})
<1> DEFINE text == Text(cmd)
<1>1. PICK n \in Nat : n = Len(cmd) /\ DOMAIN cmd = 1 .. n
  BY LenProperties
<1>2. /\ text \in Seq(X)
      /\ Len(text) = IF LastChar(cmd) = "&" THEN n - 1 ELSE n
      /\ \A i \in 1 .. Len(text) : i \in 1 .. n /\ text[i] = cmd[i]
  BY <1>1, TextIs
<1> HIDE DEF text
<1>3. PICK m \in Nat : m = Len(text) /\ DOMAIN text = 1 .. m
  BY <1>2, LenProperties
<1>4. ASSUME NEW i \in 1 .. n, cmd[i] = "|" PROVE i \in 1 .. m
  <2>1. CASE LastChar(cmd) = "&"
    <3>1. LastChar(cmd) = cmd[n]
      BY <1>1, <2>1 DEF LastChar, Last
    <3>2. i # n
      BY <1>4, <2>1, <3>1
    <3>3. m = n - 1
      BY <1>2, <1>3, <2>1
    <3> QED BY <3>2, <3>3
  <2>2. CASE LastChar(cmd) # "&"
    BY <1>2, <1>3, <2>2
  <2> QED BY <2>1, <2>2
<1>5. \A i : i \in Positions(cmd, {"|"}) <=> i \in 1 .. n /\ cmd[i] = "|"
  BY <1>1 DEF Positions
<1>6. \A i : i \in Positions(text, {"|"}) <=> i \in 1 .. m /\ text[i] = "|"
  BY <1>3 DEF Positions
<1>7. Positions(cmd, {"|"}) = Positions(text, {"|"})
  BY <1>2, <1>3, <1>4, <1>5, <1>6
<1> QED BY <1>7 DEF text

\* The two loops that count the words of each process agree when the "|" of what
\* was received stand alone: none is written behind an argv, and no place in one
\* stays empty.
LEMMA SameLengths ==
  ASSUME LineTyped, Clean, BarsApart(Received(line))
  PROVE  LET j == job
         IN /\ Len(j.argv) = Len(j.argc) /\ DOMAIN j.argv = DOMAIN j.argc
            /\ \A n \in DOMAIN j.argc : Len(j.argv[n]) = j.argc[n]
<1>1. line \in Seq(Chars)
  BY DEF LineTyped
<1>2. Positions(line, stray) = {}
  BY DEF Clean
<1>3. PICK cmd, text, W, N :
        /\ cmd = Received(line) /\ text = Text(cmd)
        /\ W = Words(cmd, stray) /\ N = Len(text)
        /\ cmd \in Seq(Chars) /\ text \in Seq(Chars) /\ N \in Nat
        /\ W \in Bounded(N) /\ Tiles(W, {i \in 1 .. N : text[i] # " "})
        /\ W = Strtok(text, {" "})
  BY <1>1, <1>2, CleanWords
<1>8. PICK M \in Nat : M = Len(W) /\ DOMAIN W = 1 .. M
                       /\ W \in [1 .. M -> (1 .. N) \X (1 .. N)]
  BY <1>3, LenProperties DEF Bounded
<1> DEFINE P == BarWords(text, W)
<1> DEFINE B == Positions(text, {"|"})
<1>9. Positions(cmd, {"|"}) = B
  BY <1>3, SameBars
<1>11. /\ \A i \in B : \E k \in 1 .. M : W[k] = <<i, i>>
       /\ Len(Intervals({k \in 1 .. M : ~IsChar(cmd, W[k], {"|"})})) = Cardinality(B) + 1
  <2>1. W = Strtok(IF LastChar(cmd) = "&" THEN Front(cmd) ELSE cmd, {" "})
    BY <1>3 DEF Text
  <2> HIDE DEF B
  <2> QED BY <1>3, <1>8, <1>9, <2>1 DEF BarsApart
<1>12. {k \in 1 .. M : ~IsChar(cmd, W[k], {"|"})} = (1 .. M) \ P
  <2> SUFFICES ASSUME NEW k \in 1 .. M
               PROVE  IsChar(cmd, W[k], {"|"}) <=> IsChar(text, W[k], {"|"})
    BY <1>8 DEF BarWords
  <2>1. W[k][1] \in 1 .. N
    BY <1>8
  <2>2. text[W[k][1]] = cmd[W[k][1]]
    BY <1>3, <2>1, TextIs
  <2> QED BY <2>2 DEF IsChar
<1>13. Apart(text, W, N, M)
  <2>1. DOMAIN text = 1 .. N
    BY <1>3, LenProperties
  <2> QED BY <1>3, <1>8, <1>11, <2>1 DEF Apart
<1>14. P \in SUBSET (1 .. M) /\ Cardinality(P) = Cardinality(B)
  BY <1>3, <1>8, <1>13, BarsAreWords
<1> HIDE DEF P, B
<1>15. M # 0 /\ M \notin P
  <2>1. PICK I : I = Intervals((1 .. M) \ P)
    OBVIOUS
  <2>2. Len(I) = Cardinality(P) + 1
    BY <1>11, <1>12, <1>14, <2>1
  <2> QED BY <1>14, <2>1, <2>2, IntervalsAreParts
<1>16. PICK c \in Nat : c = Cardinality(P)
  BY <1>14, SubsetsFinite
<1>17. ASSUME NEW n \in Nat
       PROVE  Cardinality(Members(P, n, M)) =
                Cardinality(Counted(text, n, N)) + Unended(text, n, c + 1)
  <2>1. M # 0 /\ M \notin BarWords(text, W) /\ Apart(text, W, N, M) /\ N \in Nat
    BY <1>3, <1>13, <1>15 DEF P
  <2>2. Cardinality(Members(BarWords(text, W), n, M)) =
          Cardinality(Counted(text, n, N))
            + Unended(text, n, Cardinality(BarWords(text, W)) + 1)
    BY <2>1, SameCounts
  <2> QED BY <1>16, <2>2 DEF P
<1>18. PICK argc : argc = malloc_argv(text)
  OBVIOUS
<1>19. /\ argc \in Seq(Nat) /\ Len(argc) = c + 1
       /\ \A n \in 1 .. c : argc[n] = Cardinality(Counted(text, n, N))
       /\ argc[c + 1] = Cardinality(Counted(text, c + 1, N))
                          + (IF LastChar(text) # " " THEN 1 ELSE 0)
  BY <1>3, <1>14, <1>16, <1>18, MallocIs DEF B
<1>20. job.argc = argc /\ job.argv = Cut(P, W, M)
  BY <1>3, <1>8, <1>18, ParseCommandIs DEF job, P
<1>21. /\ Len(job.argv) = c + 1
       /\ \A n \in 1 .. c + 1 : job.argv[n] = Picked(W, Members(P, n, M))
  <2>1. M \in 0 .. M /\ M + 1 \in Nat /\ M < M + 1
    OBVIOUS
  <2>2. Part(P, M + 1) = c + 1
    BY <1>14, <1>16, <2>1, PartFacts
  <2>3. /\ Len(Cut(P, W, M)) = Part(P, M + 1)
        /\ \A n \in 1 .. Part(P, M + 1) : Cut(P, W, M)[n] = Picked(W, Members(P, n, M))
    BY <1>14, <2>1, CutIs
  <2> QED BY <1>20, <2>2, <2>3
<1>22. ASSUME NEW n \in 1 .. c + 1 PROVE Len(job.argv[n]) = argc[n]
  <2>1. n \in Nat
    BY <1>16
  <2>2. Len(Picked(W, Members(P, n, M))) = Cardinality(Members(P, n, M))
    <3>1. Members(P, n, M) \in SUBSET (1 .. M)
      BY DEF Members
    <3>2. W \in Seq((1 .. N) \X (1 .. N))
      BY <1>3 DEF Bounded
    <3> QED BY <1>8, <3>1, <3>2, PickedTyped
  <2>3. CASE n = c + 1
    BY <1>17, <1>19, <1>21, <2>1, <2>2, <2>3 DEF Unended
  <2>4. CASE n # c + 1
    <3>1. n \in 1 .. c
      BY <1>16, <2>4
    <3>2. Cardinality(Counted(text, n, N)) = argc[n] /\ argc[n] \in Nat
      <4>1. n \in 1 .. Len(argc)
        BY <1>19
      <4> QED BY <1>19, <3>1, <4>1, ElementOfSeq
    <3>3. Cardinality(Members(P, n, M)) = argc[n] + 0
      BY <1>17, <2>1, <2>4, <3>2 DEF Unended
    <3> QED BY <1>21, <2>2, <3>2, <3>3
  <2> QED BY <2>3, <2>4
<1>23. DOMAIN argc = 1 .. c + 1
  BY <1>19, LenProperties
<1>24. DOMAIN job.argv = 1 .. c + 1
  BY <1>14, <1>16, <1>20, PartFacts DEF Cut
<1> QED BY <1>19, <1>20, <1>21, <1>22, <1>23, <1>24

THEOREM FitArgv == Spec => []WordsFitArgv
<1>1. ASSUME LineTyped PROVE WordsFitArgv
  BY <1>1, SameLengths DEF WordsFitArgv
<1> QED BY <1>1, LineIsTyped, PTL

-----------------------------------------------------------------------------
(* What is typed, and what yashd stores for execvp.                        *)

\* Where the token that begins at f ends: a word with its last character.
TokenEnd(P, f) == Max({f} \cup {j \in P : f .. j \subseteq P})

\* A special character is a token by itself, a word ends where its characters do.
LEMMA TokenEnds ==
  ASSUME NEW n \in Nat, NEW P \in SUBSET (1 .. n), NEW f \in 1 .. n
  PROVE  /\ TokenEnd(P, f) \in 1 .. n /\ f <= TokenEnd(P, f)
         /\ f \notin P => TokenEnd(P, f) = f
         /\ f \in P => /\ \A i \in f .. TokenEnd(P, f) : i \in P
                       /\ TokenEnd(P, f) + 1 \notin P
         /\ \A j \in P : f .. j \subseteq P => j <= TokenEnd(P, f)
<1> DEFINE S == {f} \cup {j \in P : f .. j \subseteq P}
<1>1. S \in SUBSET (0 .. n) /\ S # {}
  <2>1. P \subseteq 0 .. n /\ f \in 0 .. n
    OBVIOUS
  <2> QED BY <2>1
<1>2. PICK e : e = TokenEnd(P, f)
  OBVIOUS
<1>3. e \in S /\ \A i \in S : i <= e
  BY <1>1, <1>2, MaxFacts DEF TokenEnd
<1>4. \A j : j \in S <=> j = f \/ (j \in P /\ \A i \in f .. j : i \in P)
  OBVIOUS
<1>5. e \in 1 .. n /\ f <= e
  BY <1>3, <1>4
<1>6. ASSUME f \notin P PROVE e = f
  <2> SUFFICES ASSUME e # f PROVE FALSE
    OBVIOUS
  <2>1. f \in f .. e
    BY <1>5
  <2> QED BY <1>3, <1>4, <1>6, <2>1
<1>7. ASSUME f \in P PROVE (\A i \in f .. e : i \in P) /\ e + 1 \notin P
  <2>1. \A i \in f .. e : i \in P
    BY <1>3, <1>4, <1>7
  <2>2. ASSUME e + 1 \in P PROVE FALSE
    <3>1. \A i \in f .. e + 1 : i \in f .. e \/ i = e + 1
      BY <1>5
    <3>2. e + 1 \in S
      BY <1>4, <2>1, <2>2, <3>1
    <3>3. e + 1 <= e
      BY <1>3, <3>2
    <3> QED BY <1>5, <3>3
  <2> QED BY <2>1, <2>2
<1>8. \A j \in P : f .. j \subseteq P => j <= e
  BY <1>3, <1>4
<1> QED BY <1>2, <1>5, <1>6, <1>7, <1>8

\* The tokens ts of s, from left to right: special characters, and whole words.
\* Nothing but spaces lies between them.
Tokenised(s, ts, L, Q) ==
  LET P == Positions(s, WordChars)
  IN /\ L = Len(s) /\ DOMAIN s = 1 .. L
     /\ Q = Len(ts) /\ DOMAIN ts = 1 .. Q
     /\ \A k \in 1 .. Q :
          /\ ts[k] \in (1 .. L) \X (1 .. L) /\ ts[k][1] <= ts[k][2]
          /\ s[ts[k][1]] \in Special => ts[k][2] = ts[k][1]
          /\ s[ts[k][1]] \notin Special =>
               /\ \A i \in ts[k][1] .. ts[k][2] : i \in P
               /\ ts[k][1] - 1 \notin P /\ ts[k][2] + 1 \notin P
     /\ \A k, l \in 1 .. Q : k < l => ts[k][1] < ts[l][1]
     /\ \A i \in 1 .. L : s[i] # " " => \E k \in 1 .. Q : i \in ts[k][1] .. ts[k][2]

\* A character of a word is no special one and no space.
LEMMA OtherChars ==
  ASSUME NEW c
  PROVE  /\ c \in WordChars => c \notin Special /\ c # " "
         /\ c \in Chars => c \in WordChars \/ c \in Special \/ c = " "
         /\ c \in Special <=> c = "|" \/ c = "&" \/ c = "<" \/ c = ">"
         /\ c \in Special => c # " "
BY CommandLineAssumption DEF Chars, Special

\* Tokens gives the tokens of the line, all of them, from left to right.
LEMMA TokensAre ==
  ASSUME NEW s \in Seq(Chars)
  PROVE  /\ Len(s) \in Nat /\ Len(Tokens(s)) \in Nat
         /\ Tokenised(s, Tokens(s), Len(s), Len(Tokens(s)))
<1>1. PICK L \in Nat : L = Len(s) /\ DOMAIN s = 1 .. L
  BY LenProperties
<1> DEFINE P == Positions(s, WordChars)
<1> DEFINE F == {i \in 1 .. L : s[i] \in Special \/ (i \in P /\ i - 1 \notin P)}
<1>2. \A i : i \in P <=> i \in 1 .. L /\ s[i] \in WordChars
  BY <1>1 DEF Positions
<1>3. \A i : i \in F <=> i \in 1 .. L /\ (s[i] \in Special \/ (i \in P /\ i - 1 \notin P))
  OBVIOUS
<1>4. Tokens(s) = [k \in DOMAIN InOrder(F) |->
                     <<InOrder(F)[k], TokenEnd(P, InOrder(F)[k])>>]
  BY <1>1 DEF Tokens, TokenEnd
<1> HIDE DEF P, F
<1>5. P \in SUBSET (1 .. L) /\ F \in SUBSET (1 .. L)
  BY <1>2, <1>3
<1>6. PICK Q \in Nat : Q = Cardinality(F)
  BY <1>5, SubsetsFinite
<1>7. PICK g : g = InOrder(F)
  OBVIOUS
<1>8. /\ g \in [1 .. Q -> F]
      /\ \A k, l \in 1 .. Q : k < l => g[k] < g[l]
      /\ \A i \in F : \E k \in 1 .. Q : g[k] = i
  BY <1>5, <1>6, <1>7, InOrderLists DEF Lists
<1>9. PICK ts : ts = Tokens(s)
  OBVIOUS
<1>10. ts = [k \in 1 .. Q |-> <<g[k], TokenEnd(P, g[k])>>]
  BY <1>4, <1>7, <1>8, <1>9
<1>11. ASSUME NEW k \in 1 .. Q
       PROVE  g[k] \in 1 .. L /\ g[k] \in F
  BY <1>5, <1>8
<1>12. ASSUME NEW k \in 1 .. Q
       PROVE  ts[k][1] = g[k] /\ ts[k][2] = TokenEnd(P, g[k])
  BY <1>10
<1>13. ASSUME NEW k \in 1 .. Q
       PROVE  /\ ts[k] \in (1 .. L) \X (1 .. L) /\ ts[k][1] <= ts[k][2]
              /\ s[ts[k][1]] \in Special => ts[k][2] = ts[k][1]
              /\ s[ts[k][1]] \notin Special =>
                   /\ \A i \in ts[k][1] .. ts[k][2] : i \in P
                   /\ ts[k][1] - 1 \notin P /\ ts[k][2] + 1 \notin P
  <2>1. PICK f \in 1 .. L : f = g[k] /\ f \in F
    BY <1>11
  <2>2. PICK e : e = TokenEnd(P, f)
    OBVIOUS
  <2>3. /\ e \in 1 .. L /\ f <= e
        /\ f \notin P => e = f
        /\ f \in P => (\A i \in f .. e : i \in P) /\ e + 1 \notin P
    BY <1>5, <2>2, TokenEnds
  <2>4. ts[k] = <<f, e>> /\ ts[k][1] = f /\ ts[k][2] = e
    BY <1>10, <2>1, <2>2
  <2>5. s[f] \in Special => f \notin P
    BY <1>2, OtherChars
  <2>6. s[f] \notin Special => f \in P /\ f - 1 \notin P
    BY <1>3, <2>1
  <2> QED BY <2>3, <2>4, <2>5, <2>6
<1>14. ASSUME NEW k \in 1 .. Q, NEW l \in 1 .. Q, k < l PROVE ts[k][1] < ts[l][1]
  BY <1>8, <1>12, <1>14
<1>15. ASSUME NEW i \in 1 .. L, s[i] # " "
       PROVE  \E k \in 1 .. Q : i \in ts[k][1] .. ts[k][2]
  <2>1. CASE s[i] \in Special
    <3>1. PICK k \in 1 .. Q : g[k] = i
      BY <1>3, <1>8, <2>1
    <3>2. ts[k][1] = i /\ ts[k][2] \in 1 .. L /\ i <= ts[k][2]
      BY <1>12, <1>13, <3>1
    <3> QED BY <3>2
  <2>2. CASE s[i] \notin Special
    <3>1. i \in P
      <4>1. s[i] \in Chars
        BY <1>1, ElementOfSeq
      <4> QED BY <1>2, <1>15, <2>2, <4>1, OtherChars
    <3> DEFINE S == {j \in 1 .. i : \A x \in j .. i : x \in P}
    <3>2. i \in S
      <4>1. \A x \in i .. i : x = i
        OBVIOUS
      <4> QED BY <3>1, <4>1
    <3>3. \A j : j \in S <=> j \in 1 .. i /\ \A x \in j .. i : x \in P
      OBVIOUS
    <3> HIDE DEF S
    <3>4. S \in SUBSET Nat /\ S # {}
      <4>1. \A j \in 1 .. i : j \in Nat
        OBVIOUS
      <4> QED BY <3>2, <3>3, <4>1
    <3>5. PICK f \in S : \A j \in S : f <= j
      BY <3>4, Least
    <3>6. f \in 1 .. i /\ \A x \in f .. i : x \in P
      BY <3>3, <3>5
    <3>7. f - 1 \notin P
      <4> SUFFICES ASSUME f - 1 \in P PROVE FALSE
        OBVIOUS
      <4>1. f - 1 \in 1 .. i
        BY <1>2, <3>6
      <4>2. \A x \in f - 1 .. i : x \in f .. i \/ x = f - 1
        BY <3>6
      <4>3. f - 1 \in S
        BY <3>3, <3>6, <4>1, <4>2
      <4>4. f <= f - 1
        BY <3>5, <4>3
      <4> QED BY <3>6, <4>4
    <3>8. f \in 1 .. L /\ f \in P /\ f \in F
      <4>1. f \in f .. i /\ f \in 1 .. L
        BY <3>6
      <4>2. f \in P
        BY <3>6, <4>1
      <4> QED BY <1>3, <3>7, <4>1, <4>2
    <3>9. PICK k \in 1 .. Q : g[k] = f
      BY <1>8, <3>8
    <3>10. PICK e : e = TokenEnd(P, f)
      OBVIOUS
    <3>11. e \in 1 .. L /\ i <= e
      <4>1. f .. i \subseteq P
        BY <3>6
      <4> QED BY <1>5, <3>1, <3>8, <3>10, <4>1, TokenEnds
    <3>12. i \in f .. e
      BY <3>6, <3>11
    <3> QED BY <1>12, <3>9, <3>10, <3>12
  <2> QED BY <2>1, <2>2
<1>16. Len(ts) = Q /\ DOMAIN ts = 1 .. Q
  BY <1>10
<1> QED BY <1>1, <1>9, <1>13, <1>14, <1>15, <1>16 DEF Tokenised, P

\* The kinds K of the tokens ts.
LEMMA KindsAre ==
  ASSUME NEW s \in Seq(Chars)
  PROVE  LET ts == Tokens(s)
             K == Kinds(s)
         IN /\ Len(K) = Len(ts) /\ DOMAIN K = 1 .. Len(ts)
            /\ \A k \in 1 .. Len(ts) :
                 /\ s[ts[k][1]] \in Special => K[k] = s[ts[k][1]]
                 /\ s[ts[k][1]] \notin Special => K[k] = "w"
                 /\ K[k] \in Special <=> s[ts[k][1]] \in Special
<1>1. PICK ts : ts = Tokens(s)
  OBVIOUS
<1>2. PICK Q \in Nat : Q = Len(ts) /\ DOMAIN ts = 1 .. Q
  BY <1>1, TokensAre DEF Tokenised
<1>3. Kinds(s) = [k \in 1 .. Q |-> IF s[ts[k][1]] \in Special THEN s[ts[k][1]] ELSE "w"]
  BY <1>1, <1>2 DEF Kinds
<1>4. PICK K : K = Kinds(s)
  OBVIOUS
<1>5. Len(K) = Q /\ DOMAIN K = 1 .. Q
  BY <1>3, <1>4
<1>6. "w" \notin Special
  BY DEF Special
<1>7. ASSUME NEW k \in 1 .. Q
      PROVE  /\ s[ts[k][1]] \in Special => K[k] = s[ts[k][1]]
             /\ s[ts[k][1]] \notin Special => K[k] = "w"
  BY <1>3, <1>4, Zenon
<1> QED BY <1>1, <1>2, <1>4, <1>5, <1>6, <1>7

\* The tokens of a stage, and their redirections.
StageTokens(K) == {k \in DOMAIN K : K[k] # "|" /\ (K[k] = "&" => k < Len(K))}

\* In a well formed line "&" is the last token, if any, there is a stage more than
\* there are "|", and a redirection is never the last token of its stage.
LEMMA WellFormedIs ==
  ASSUME NEW s \in Seq(Chars), WellFormed(s)
  PROVE  LET K == Kinds(s)
             Q == Len(Tokens(s))
             I == Intervals(StageTokens(K))
         IN /\ StagesOf(K) = I
            /\ StageTokens(K) \in SUBSET (1 .. Q)
            /\ \A k \in 1 .. Q : K[k] = "&" => k = Q
            /\ Len(I) = Cardinality(Positions(s, {"|"})) + 1
            /\ \A n \in 1 .. Len(I) : \A k \in I[n][1] .. I[n][2] :
                 K[k] \in {"<", ">"} => k < I[n][2]
<1>1. PICK Q \in Nat : Q = Len(Tokens(s))
  BY TokensAre
<1>2. PICK K : K = Kinds(s) /\ Len(K) = Q /\ DOMAIN K = 1 .. Q
  BY <1>1, KindsAre
<1>3. PICK S : S = StageTokens(K)
  OBVIOUS
<1>4. \A k : k \in S <=> k \in 1 .. Q /\ K[k] # "|" /\ (K[k] = "&" => k < Q)
  BY <1>2, <1>3 DEF StageTokens
<1>5. S \in SUBSET (1 .. Q)
  BY <1>4
<1>6. PICK I : I = Intervals(S)
  OBVIOUS
<1>7. I \in Bounded(Q) /\ Tiles(I, S)
  BY <1>5, <1>6, IntervalsTile
<1>8. StagesOf(K) = I
  BY <1>3, <1>6 DEF StagesOf, StageTokens
<1>9. PICK m \in Nat : /\ m = Len(I) /\ DOMAIN I = 1 .. m
                       /\ I \in [1 .. m -> (1 .. Q) \X (1 .. Q)]
  BY <1>7, LenProperties DEF Bounded
<1>10. /\ Len(I) = Cardinality(Positions(s, {"|"})) + 1
      /\ \A n \in 1 .. m : StageWellFormed(K, I[n])
  BY <1>2, <1>8, <1>9 DEF WellFormed
<1>11. ASSUME NEW k \in 1 .. Q, K[k] = "&" PROVE k = Q
  <2> SUFFICES ASSUME k # Q PROVE FALSE
    OBVIOUS
  <2>1. k < Q
    OBVIOUS
  <2>2. k \in S
    BY <1>4, <1>11, <2>1
  <2>3. PICK n \in 1 .. m : k \in I[n][1] .. I[n][2]
    BY <1>7, <1>9, <2>2 DEF Tiles
  <2>4. k \notin RedirectionsIn(K, I[n])
    BY <1>11 DEF RedirectionsIn
  <2>5. K[k] = "w"
    BY <1>10, <2>3, <2>4 DEF StageWellFormed
  <2> QED BY <1>11, <2>5
<1>12. ASSUME NEW n \in 1 .. m, NEW k \in I[n][1] .. I[n][2], K[k] \in {"<", ">"}
       PROVE  k < I[n][2]
  <2>1. PICK a \in 1 .. Q, b \in 1 .. Q : a = I[n][1] /\ b = I[n][2]
    BY <1>9
  <2>2. PICK R : R = RedirectionsIn(K, I[n])
    OBVIOUS
  <2>3. k \in R
    BY <1>12, <2>2 DEF RedirectionsIn
  <2>4. R \in SUBSET (a .. b)
    BY <2>1, <2>2 DEF RedirectionsIn
  <2>5. k \in Min(R \cup {b}) .. b - 1
    BY <1>10, <2>1, <2>2, <2>3 DEF StageWellFormed
  <2>6. Min(R \cup {b}) \in Int
    <3>1. R \cup {b} \in SUBSET Nat /\ R \cup {b} # {}
      <4>1. \A i \in a .. b : i \in Nat
        OBVIOUS
      <4> QED BY <2>4, <4>1
    <3> QED BY <3>1, MinFacts
  <2> QED BY <2>1, <2>5, <2>6
<1> QED BY <1>1, <1>2, <1>3, <1>5, <1>6, <1>8, <1>9, <1>10, <1>11, <1>12

\* The words that yashd splits such a line into are its tokens, but for a "&" at
\* the end, which makes it a background job.
LEMMA TokensAreWords ==
  ASSUME NEW s \in Seq(Chars), WellFormed(s), Spaced(s)
  PROVE  LET cmd == Received(s)
             text == Text(cmd)
             ts == Tokens(s)
             K == Kinds(s)
             W == Strtok(text, {" "})
         IN /\ (LastChar(cmd) = "&") = InBackground(K)
            /\ W \in Bounded(Len(s)) /\ Len(W) <= Len(ts)
            /\ \A k \in 1 .. Len(W) : W[k] = ts[k]
            /\ \A k \in 1 .. Len(ts) : k \in 1 .. Len(W) <=> K[k] # "&"
<1>1. PICK L \in Nat, Q \in Nat : L = Len(s) /\ DOMAIN s = 1 .. L /\ Q = Len(Tokens(s))
  BY TokensAre, LenProperties
<1>2. PICK ts : ts = Tokens(s)
  OBVIOUS
<1>3. PICK K : K = Kinds(s)
  OBVIOUS
<1>4. /\ Len(K) = Q /\ DOMAIN K = 1 .. Q
      /\ \A k \in 1 .. Q : /\ s[ts[k][1]] \in Special => K[k] = s[ts[k][1]]
                           /\ s[ts[k][1]] \notin Special => K[k] = "w"
                           /\ K[k] = "&" => k = Q
  BY <1>1, <1>2, <1>3, KindsAre, WellFormedIs
<1>5. Tokenised(s, ts, L, Q)
  BY <1>1, <1>2, TokensAre
<1>6. DOMAIN ts = 1 .. Q /\ Len(ts) = Q
  BY <1>5 DEF Tokenised
<1>7. \A k \in 1 .. Q : /\ ts[k] \in (1 .. L) \X (1 .. L)
                        /\ ts[k][1] \in 1 .. L /\ ts[k][2] \in 1 .. L
                        /\ ts[k][1] <= ts[k][2]
                        /\ s[ts[k][1]] \in Special => ts[k][2] = ts[k][1]
  BY <1>5 DEF Tokenised
<1>8. \A i \in 1 .. L : s[i] # " " => \E k \in 1 .. Q : i \in ts[k][1] .. ts[k][2]
  BY <1>5 DEF Tokenised
<1>9. \A k, l \in 1 .. Q : k < l => ts[k][1] < ts[l][1]
  BY <1>5 DEF Tokenised
<1>10. \A i : i \in Positions(s, WordChars) <=> i \in 1 .. L /\ s[i] \in WordChars
  BY <1>1 DEF Positions
<1>11. ASSUME NEW i \in 1 .. L
       PROVE  s[i] \in WordChars \/ s[i] \in Special \/ s[i] = " "
  <2>1. s[i] \in Chars
    BY <1>1, ElementOfSeq
  <2> QED BY <2>1, OtherChars
<1>12. ASSUME NEW k \in 1 .. Q, NEW i \in ts[k][1] .. ts[k][2]
       PROVE  /\ i \in 1 .. L /\ s[i] # " "
              /\ i = ts[k][1] \/ s[i] \in WordChars
  <2>1. i \in 1 .. L
    BY <1>7
  <2>2. CASE s[ts[k][1]] \in Special
    <3>1. i = ts[k][1]
      BY <1>7, <2>2
    <3> QED BY <2>1, <2>2, <3>1, OtherChars
  <2>3. CASE s[ts[k][1]] \notin Special
    <3>1. i \in Positions(s, WordChars)
      BY <1>5, <2>3 DEF Tokenised
    <3> QED BY <1>10, <2>1, <3>1, OtherChars
  <2> QED BY <2>2, <2>3
<1>13. PICK cmd : cmd = Received(s)
  OBVIOUS
<1>14. PICK r \in 0 .. L :
         /\ r # 0 => s[r] # " "
         /\ \A i \in r + 1 .. L : s[i] = " "
         /\ cmd \in Seq(Chars) /\ Len(cmd) = r
         /\ \A i \in 1 .. r : cmd[i] = s[i]
         /\ LastChar(cmd) = IF r = 0 THEN " " ELSE s[r]
  BY <1>1, <1>13, ReceivedIs
<1>15. \A i \in 1 .. L : s[i] # " " => i \in 1 .. r
  <2>1. \A i \in 1 .. L : i \in 1 .. r \/ i \in r + 1 .. L
    OBVIOUS
  <2> QED BY <1>14, <2>1

\* A "&" is the first character of a token, and this one the last.
<1>16. ASSUME NEW k \in 1 .. Q, NEW i \in ts[k][1] .. ts[k][2], s[i] = "&"
       PROVE  i = ts[k][1] /\ i = ts[k][2] /\ K[k] = "&" /\ k = Q
  <2>1. s[i] \in Special
    BY <1>16, OtherChars
  <2>2. i = ts[k][1]
    BY <1>12, <2>1, OtherChars
  <2> QED BY <1>4, <1>7, <1>16, <2>1, <2>2
<1>17. ASSUME NEW i \in 1 .. L, s[i] = "&" PROVE i = r
  <2>1. i \in 1 .. r
    BY <1>15, <1>17
  <2>2. PICK k \in 1 .. Q : i \in ts[k][1] .. ts[k][2]
    BY <1>8, <1>17
  <2>3. i = ts[k][1] /\ i = ts[k][2] /\ k = Q
    BY <1>16, <1>17, <2>2
  <2> SUFFICES ASSUME i < r PROVE FALSE
    BY <2>1
  <2>4. PICK m \in 1 .. Q : r \in ts[m][1] .. ts[m][2]
    <3>1. r \in 1 .. L /\ r # 0
      BY <2>1
    <3> QED BY <1>8, <1>14, <3>1
  <2>5. m < k
    <3>1. m # k
      BY <2>3, <2>4
    <3> QED BY <2>3, <3>1
  <2>6. ts[m][1] < i
    BY <1>9, <2>3, <2>5
  <2>7. i \in ts[m][1] .. ts[m][2] /\ i # ts[m][1]
    BY <1>7, <2>4, <2>6
  <2> QED BY <1>16, <1>17, <2>7
<1>18. PICK A \in Nat : A = IF LastChar(cmd) = "&" THEN Q - 1 ELSE Q
  <2>1. CASE LastChar(cmd) = "&"
    <3>1. r # 0
      BY <1>14, <2>1
    <3>2. r \in 1 .. L
      BY <3>1
    <3>3. \E k \in 1 .. Q : r \in ts[k][1] .. ts[k][2]
      BY <1>8, <1>14, <3>1, <3>2
    <3>4. Q - 1 \in Nat
      BY <3>3
    <3> QED BY <2>1, <3>4
  <2>2. CASE LastChar(cmd) # "&"
    BY <2>2
  <2> QED BY <2>1, <2>2
<1>19. LastChar(cmd) = "&" => Q # 0 /\ K[Q] = "&"
  <2> SUFFICES ASSUME LastChar(cmd) = "&" PROVE Q # 0 /\ K[Q] = "&"
    OBVIOUS
  <2>1. r # 0
    BY <1>14
  <2>2. s[r] = "&" /\ r \in 1 .. L
    <3>1. r \in 1 .. L
      BY <2>1
    <3> QED BY <1>14, <2>1, <3>1
  <2>3. PICK k \in 1 .. Q : r \in ts[k][1] .. ts[k][2]
    BY <1>8, <1>14, <2>1, <2>2
  <2> QED BY <1>16, <2>2, <2>3
<1>20. ASSUME NEW k \in 1 .. Q, K[k] = "&" PROVE LastChar(cmd) = "&" /\ k = Q
  <2>1. s[ts[k][1]] = "&"
    <3>1. "w" # "&"
      OBVIOUS
    <3> QED BY <1>4, <1>20, <3>1
  <2>2. ts[k][1] = r /\ r \in 1 .. L
    BY <1>7, <1>17, <2>1
  <2>3. r # 0
    BY <2>2
  <2> QED BY <1>4, <1>14, <1>20, <2>1, <2>2, <2>3
<1>21. ASSUME NEW k \in 1 .. Q PROVE k \in 1 .. A <=> K[k] # "&"
  <2>1. CASE LastChar(cmd) = "&"
    <3>1. k \in 1 .. A <=> k # Q
      BY <1>18, <2>1
    <3> QED BY <1>19, <1>20, <2>1, <3>1
  <2>2. CASE LastChar(cmd) # "&"
    BY <1>18, <1>20, <2>2
  <2> QED BY <2>1, <2>2
<1>22. (LastChar(cmd) = "&") = InBackground(K)
  <2>1. K # <<>> <=> Q # 0
    <3>1. K = <<>> => Q = 0
      BY <1>4
    <3>2. Q = 0 => K = <<>>
      <4>1. Kinds(s) = [k \in DOMAIN Tokens(s) |->
                          IF s[Tokens(s)[k][1]] \in Special
                          THEN s[Tokens(s)[k][1]] ELSE "w"]
        BY DEF Kinds
      <4>2. Q = 0 => DOMAIN Tokens(s) = {}
        BY <1>2, <1>6
      <4> QED BY <1>3, <4>1, <4>2
    <3> QED BY <3>1, <3>2
  <2>2. Last(K) = K[Q]
    BY <1>4 DEF Last
  <2>3. Q # 0 => Q \in 1 .. Q
    OBVIOUS
  <2> QED BY <1>19, <1>20, <2>1, <2>2, <2>3 DEF InBackground
<1> DEFINE T == {i \in 1 .. L : s[i] # " " /\ s[i] # "&"}
<1>23. Strtok(Text(cmd), {" "}) = Intervals(T)
  <2>1. PICK N \in Nat : N = Len(Text(cmd)) /\ DOMAIN Text(cmd) = 1 .. N
    <3>1. Text(cmd) \in Seq(Chars)
      BY <1>14, TextIs
    <3> QED BY <3>1, LenProperties
  <2>2. /\ N = IF LastChar(cmd) = "&" THEN r - 1 ELSE r
        /\ \A i \in 1 .. N : i \in 1 .. r /\ Text(cmd)[i] = cmd[i]
    BY <1>14, <2>1, TextIs
  <2>3. ASSUME NEW i \in 1 .. N PROVE i \in 1 .. L /\ Text(cmd)[i] = s[i] /\ s[i] # "&"
    <3>1. i \in 1 .. r /\ i \in 1 .. L /\ Text(cmd)[i] = s[i]
      <4>1. i \in 1 .. r
        BY <2>2
      <4>2. i \in 1 .. L
        BY <4>1
      <4> QED BY <1>14, <2>2, <4>1, <4>2
    <3>2. ASSUME s[i] = "&" PROVE FALSE
      <4>1. i = r /\ r # 0
        BY <1>17, <3>1, <3>2
      <4>2. LastChar(cmd) = "&"
        BY <1>14, <3>2, <4>1
      <4> QED BY <2>2, <4>1, <4>2
    <3> QED BY <3>1, <3>2
  <2>4. ASSUME NEW i \in 1 .. L, s[i] # " ", s[i] # "&" PROVE i \in 1 .. N
    <3>1. i \in 1 .. r
      BY <1>15, <2>4
    <3>2. CASE LastChar(cmd) = "&"
      <4>1. i # r
        BY <1>14, <2>4, <3>1, <3>2
      <4>2. N = r - 1
        BY <2>2, <3>2
      <4> QED BY <3>1, <4>1, <4>2
    <3>3. CASE LastChar(cmd) # "&"
      BY <2>2, <3>1, <3>3
    <3> QED BY <3>2, <3>3
  <2>5. \A i : i \in {j \in DOMAIN Text(cmd) : Text(cmd)[j] \notin {" "}} <=>
                 i \in 1 .. N /\ Text(cmd)[i] # " "
    BY <2>1
  <2>6. {j \in DOMAIN Text(cmd) : Text(cmd)[j] \notin {" "}} = T
    BY <2>3, <2>4, <2>5
  <2> QED BY <2>6 DEF Strtok
<1>24. \A i : i \in T <=> i \in 1 .. L /\ s[i] # " " /\ s[i] # "&"
  OBVIOUS
<1> HIDE DEF T
<1>25. A <= Q /\ \A k \in 1 .. A : k \in 1 .. Q
  BY <1>18
<1>26. ASSUME NEW k \in 1 .. A, NEW i \in ts[k][1] .. ts[k][2] PROVE i \in T
  <2>1. k \in 1 .. Q /\ K[k] # "&"
    BY <1>21, <1>25
  <2>2. i \in 1 .. L /\ s[i] # " "
    BY <1>12, <2>1
  <2>3. s[i] # "&"
    BY <1>16, <2>1
  <2> QED BY <1>24, <2>2, <2>3
<1>27. \A p \in 1 .. L : s[p] \in Special =>
         /\ s[p] # "&" => p > 1 /\ s[p - 1] = " "
         /\ p < L => s[p + 1] = " "
  BY <1>1 DEF Spaced, Positions
<1>28. ASSUME NEW k \in 1 .. A PROVE ts[k][1] - 1 \notin T
  <2>1. k \in 1 .. Q /\ K[k] # "&"
    BY <1>21, <1>25
  <2>2. PICK f \in 1 .. L : f = ts[k][1]
    BY <1>7, <2>1
  <2> SUFFICES ASSUME f - 1 \in T PROVE FALSE
    BY <2>2
  <2>3. f - 1 \in 1 .. L /\ s[f - 1] # " "
    BY <1>24
  <2>4. CASE s[f] \in Special
    <3>1. s[f] # "&"
      BY <1>4, <2>1, <2>2, <2>4
    <3> QED BY <1>27, <2>3, <2>4, <3>1
  <2>5. CASE s[f] \notin Special
    <3>1. f - 1 \notin Positions(s, WordChars)
      BY <1>5, <2>1, <2>2, <2>5 DEF Tokenised
    <3>2. s[f - 1] \in Special
      BY <1>10, <1>11, <2>3, <3>1
    <3>3. f - 1 < L /\ (f - 1) + 1 = f
      OBVIOUS
    <3>4. s[f] = " "
      BY <1>27, <2>3, <3>2, <3>3
    <3>5. f \in ts[k][1] .. ts[k][2]
      BY <1>7, <2>1, <2>2
    <3> QED BY <1>12, <2>1, <3>4, <3>5
  <2> QED BY <2>4, <2>5
<1>29. ASSUME NEW k \in 1 .. A PROVE ts[k][2] + 1 \notin T
  <2>1. k \in 1 .. Q
    BY <1>25
  <2>2. PICK f \in 1 .. L, e \in 1 .. L : f = ts[k][1] /\ e = ts[k][2] /\ f <= e
    BY <1>7, <2>1
  <2> SUFFICES ASSUME e + 1 \in T PROVE FALSE
    BY <2>2
  <2>3. e + 1 \in 1 .. L /\ s[e + 1] # " " /\ s[e + 1] # "&"
    BY <1>24
  <2>4. CASE s[f] \in Special
    <3>1. e = f
      BY <1>7, <2>1, <2>2, <2>4
    <3>2. e < L
      <4>1. e + 1 \in 1 .. L
        BY <2>3
      <4> QED BY <4>1
    <3> QED BY <3>2, <1>27, <2>3, <2>4, <3>1
  <2>5. CASE s[f] \notin Special
    <3>1. e + 1 \notin Positions(s, WordChars)
      BY <1>5, <2>1, <2>2, <2>5 DEF Tokenised
    <3>2. s[e + 1] \in Special
      BY <1>10, <1>11, <2>3, <3>1
    <3>3. (e + 1) - 1 = e
      OBVIOUS
    <3>4. s[e] = " "
      BY <1>27, <2>3, <3>2, <3>3
    <3>5. e \in ts[k][1] .. ts[k][2]
      BY <2>2
    <3> QED BY <1>12, <2>1, <3>4, <3>5
  <2> QED BY <2>4, <2>5
<1>30. ASSUME NEW k \in 1 .. A, NEW l \in 1 .. A, k < l PROVE ts[k][2] + 1 < ts[l][1]
  <2>1. k \in 1 .. Q /\ l \in 1 .. Q
    BY <1>25
  <2>2. PICK f \in 1 .. L, e \in 1 .. L, g \in 1 .. L :
          f = ts[k][1] /\ e = ts[k][2] /\ g = ts[l][1]
    BY <1>7, <2>1
  <2>3. f < g
    BY <1>9, <1>30, <2>1, <2>2
  <2>4. ~(g - 1 \in f .. e)
    <3>1. g - 1 \notin T
      BY <1>28, <2>2
    <3> QED BY <1>26, <2>2, <3>1
  <2>5. e + 1 < g
    BY <2>3, <2>4
  <2> QED BY <2>2, <2>5
<1>31. ASSUME NEW i \in T PROVE \E k \in 1 .. A : i \in ts[k][1] .. ts[k][2]
  <2>1. i \in 1 .. L /\ s[i] # " " /\ s[i] # "&"
    BY <1>24
  <2>2. PICK k \in 1 .. Q : i \in ts[k][1] .. ts[k][2]
    BY <1>8, <2>1
  <2>3. ASSUME K[k] = "&" PROVE FALSE
    <3>1. s[ts[k][1]] = "&"
      <4>1. "w" # "&"
        OBVIOUS
      <4> QED BY <1>4, <2>3, <4>1
    <3>2. ts[k][1] \in ts[k][1] .. ts[k][2]
      BY <1>7
    <3>3. ts[k][2] = ts[k][1]
      BY <1>16, <3>1, <3>2
    <3>4. i = ts[k][1]
      BY <1>7, <2>2, <3>3
    <3> QED BY <2>1, <3>1, <3>4
  <2>4. k \in 1 .. A
    BY <1>21, <2>3
  <2> QED BY <2>2, <2>4
<1>32. PICK I : I = [k \in 1 .. A |-> ts[k]]
  OBVIOUS
<1>33. /\ I \in Bounded(L) /\ Len(I) = A
       /\ \A k \in 1 .. A : I[k] = ts[k]
  <2>1. \A k \in 1 .. A : ts[k] \in (1 .. L) \X (1 .. L)
    BY <1>7, <1>25
  <2> QED BY <1>32, <2>1 DEF Bounded
<1>34. Tiles(I, T)
  <2>1. ASSUME NEW k \in 1 .. A
        PROVE  /\ I[k][1] <= I[k][2]
               /\ \A i \in I[k][1] .. I[k][2] : i \in T
               /\ I[k][1] - 1 \notin T /\ I[k][2] + 1 \notin T
    BY <1>7, <1>25, <1>26, <1>28, <1>29, <1>33
  <2>2. \A k, l \in 1 .. A : k < l => I[k][2] + 1 < I[l][1]
    BY <1>30, <1>33
  <2>3. \A i \in T : \E k \in 1 .. A : i \in I[k][1] .. I[k][2]
    BY <1>31, <1>33
  <2> QED BY <1>33, <2>1, <2>2, <2>3 DEF Tiles
<1>35. T \in SUBSET (1 .. L)
  BY <1>24
<1>36. Strtok(Text(cmd), {" "}) = I
  BY <1>23, <1>33, <1>34, <1>35, TilesAreIntervals
<1> QED BY <1>1, <1>2, <1>3, <1>6, <1>13, <1>21, <1>22, <1>25, <1>33, <1>36

\* The text that is split is the beginning of the line, and no "|" is lost.
LEMMA TextOfLine ==
  ASSUME NEW s \in Seq(Chars)
  PROVE  LET text == Text(Received(s))
         IN /\ text \in Seq(Chars) /\ Len(text) <= Len(s)
            /\ \A i \in 1 .. Len(text) : i \in 1 .. Len(s) /\ text[i] = s[i]
            /\ Positions(text, {"|"}) = Positions(s, {"|"})
<1>1. PICK cmd : cmd = Received(s)
  OBVIOUS
<1>2. PICK text : text = Text(cmd)
  OBVIOUS
<1>3. PICK L \in Nat : L = Len(s) /\ DOMAIN s = 1 .. L
  BY LenProperties
<1>4. PICK r \in 0 .. L :
        /\ r # 0 => s[r] # " "
        /\ \A i \in r + 1 .. L : s[i] = " "
        /\ cmd \in Seq(Chars) /\ Len(cmd) = r
        /\ \A i \in 1 .. r : cmd[i] = s[i]
  BY <1>1, <1>3, ReceivedIs
<1>5. /\ text \in Seq(Chars)
      /\ Len(text) = IF LastChar(cmd) = "&" THEN r - 1 ELSE r
      /\ \A i \in 1 .. Len(text) : i \in 1 .. r /\ text[i] = cmd[i]
  BY <1>2, <1>4, TextIs
<1>6. ASSUME NEW i \in 1 .. Len(text) PROVE i \in 1 .. L /\ text[i] = s[i]
  <2>1. i \in 1 .. r
    BY <1>5
  <2>2. i \in 1 .. L
    BY <2>1
  <2> QED BY <1>4, <1>5, <2>1, <2>2
<1>7. Positions(cmd, {"|"}) = Positions(s, {"|"})
  <2>1. DOMAIN cmd = 1 .. r
    BY <1>4, LenProperties
  <2>2. \A i \in 1 .. L : i \in 1 .. r \/ i \in r + 1 .. L
    OBVIOUS
  <2>3. \A i \in 1 .. r : i \in 1 .. L
    OBVIOUS
  <2> QED BY <1>3, <1>4, <2>1, <2>2, <2>3 DEF Positions
<1>8. Positions(text, {"|"}) = Positions(cmd, {"|"})
  BY <1>2, <1>4, SameBars
<1>9. Len(text) <= L
  BY <1>5
<1> QED BY <1>1, <1>2, <1>3, <1>5, <1>6, <1>7, <1>8, <1>9

\* What yashd makes of such a line: the words of its tokens, and the processes
\* are given those of the stages.
LEMMA StagesAreParts ==
  ASSUME NEW s \in Seq(Chars), WellFormed(s), Spaced(s),
         NEW strays, Positions(s, strays) = {}
  PROVE  LET ts == Tokens(s)
             K == Kinds(s)
             W == Words(Received(s), strays)
             P == BarWords(Text(Received(s)), W)
             I == StagesOf(K)
             M == Len(W)
             c == Cardinality(P)
         IN /\ M \in Nat /\ M <= Len(ts) /\ W \in Bounded(Len(s))
            /\ \A k \in 1 .. M : W[k] = ts[k]
            /\ P \in SUBSET (1 .. M)
            /\ Len(I) = c + 1 /\ DOMAIN I = 1 .. c + 1 /\ PartsAre(I, P, M)
            /\ I = Intervals((1 .. M) \ P)
            /\ c = Cardinality(Positions(Text(Received(s)), {"|"}))
            /\ Apart(Text(Received(s)), W, Len(Text(Received(s))), M)
            /\ W = Strtok(Text(Received(s)), {" "})
<1>1. PICK L \in Nat, Q \in Nat : L = Len(s) /\ DOMAIN s = 1 .. L /\ Q = Len(Tokens(s))
  BY TokensAre, LenProperties
<1>2. PICK ts : ts = Tokens(s)
  OBVIOUS
<1>3. PICK K : K = Kinds(s)
  OBVIOUS
<1>4. PICK cmd : cmd = Received(s)
  OBVIOUS
<1>5. PICK text, W, N :
        /\ text = Text(cmd) /\ W = Words(cmd, strays) /\ N = Len(text)
        /\ text \in Seq(Chars) /\ N \in Nat
        /\ W \in Bounded(N) /\ Tiles(W, {i \in 1 .. N : text[i] # " "})
        /\ W = Strtok(text, {" "})
  BY <1>4, CleanWords
<1>6. PICK M \in Nat : M = Len(W) /\ DOMAIN W = 1 .. M
                       /\ W \in [1 .. M -> (1 .. N) \X (1 .. N)]
  BY <1>5, LenProperties DEF Bounded
<1>7. /\ W \in Bounded(L) /\ M <= Q
      /\ \A k \in 1 .. M : W[k] = ts[k]
      /\ \A k \in 1 .. Q : k \in 1 .. M <=> K[k] # "&"
  <2> DEFINE V == Strtok(Text(Received(s)), {" "})
  <2>1. /\ V \in Bounded(Len(s)) /\ Len(V) <= Len(Tokens(s))
        /\ \A k \in 1 .. Len(V) : V[k] = Tokens(s)[k]
        /\ \A k \in 1 .. Len(Tokens(s)) : k \in 1 .. Len(V) <=> Kinds(s)[k] # "&"
    BY TokensAreWords
  <2>2. V = W
    BY <1>4, <1>5
  <2> HIDE DEF V
  <2> QED BY <1>1, <1>2, <1>3, <1>6, <2>1, <2>2
<1>8. /\ Len(K) = Q /\ DOMAIN K = 1 .. Q
      /\ \A k \in 1 .. Q : /\ s[ts[k][1]] \in Special => K[k] = s[ts[k][1]]
                           /\ s[ts[k][1]] \notin Special => K[k] = "w"
                           /\ K[k] = "&" => k = Q
  BY <1>1, <1>2, <1>3, KindsAre, WellFormedIs
<1>9. Tokenised(s, ts, L, Q)
  BY <1>1, <1>2, TokensAre
<1>10. \A i \in 1 .. N : i \in 1 .. L /\ text[i] = s[i]
  BY <1>1, <1>4, <1>5, TextOfLine
<1>11. Positions(text, {"|"}) = Positions(s, {"|"})
  BY <1>4, <1>5, TextOfLine
<1>12. \A k \in 1 .. M : k \in 1 .. Q
  BY <1>7
<1>13. PICK P : P = BarWords(text, W)
  OBVIOUS
<1>14. ASSUME NEW k \in 1 .. M PROVE k \in P <=> K[k] = "|"
  <2>1. k \in P <=> W[k][1] = W[k][2] /\ text[W[k][1]] = "|"
    BY <1>6, <1>13 DEF BarWords, IsChar
  <2>2. W[k][1] \in 1 .. N
    BY <1>6
  <2>3. text[W[k][1]] = s[ts[k][1]] /\ W[k][1] = ts[k][1] /\ W[k][2] = ts[k][2]
    BY <1>7, <1>10, <2>2
  <2>4. s[ts[k][1]] = "|" => ts[k][2] = ts[k][1]
    BY <1>9, <1>12, OtherChars DEF Tokenised
  <2>5. s[ts[k][1]] = "|" <=> K[k] = "|"
    <3>1. "w" # "|"
      OBVIOUS
    <3> QED BY <1>8, <1>12, <3>1, OtherChars
  <2> QED BY <2>1, <2>3, <2>4, <2>5
<1>15. Apart(text, W, N, M)
  <2>1. DOMAIN text = 1 .. N
    BY <1>5, LenProperties
  <2>2. ASSUME NEW i \in Positions(text, {"|"}) PROVE \E k \in 1 .. M : W[k] = <<i, i>>
    <3>1. i \in 1 .. L /\ s[i] = "|"
      BY <1>1, <1>11 DEF Positions
    <3>2. PICK k \in 1 .. Q : i \in ts[k][1] .. ts[k][2]
      BY <1>9, <3>1 DEF Tokenised
    <3>3. PICK f \in 1 .. L, e \in 1 .. L : ts[k] = <<f, e>> /\ f = ts[k][1] /\ e = ts[k][2]
      <4>1. ts[k] \in (1 .. L) \X (1 .. L)
        BY <1>9 DEF Tokenised
      <4> QED BY <4>1
    <3>4. s[f] \in Special
      <4> SUFFICES ASSUME s[f] \notin Special PROVE FALSE
        OBVIOUS
      <4>1. i \in Positions(s, WordChars)
        BY <1>9, <3>2, <3>3 DEF Tokenised
      <4> QED BY <3>1, <4>1, OtherChars DEF Positions
    <3>5. e = f
      BY <1>9, <3>3, <3>4 DEF Tokenised
    <3>6. i = f /\ i = e
      BY <3>2, <3>3, <3>5
    <3>7. K[k] = "|"
      BY <1>8, <3>1, <3>3, <3>4, <3>6
    <3>8. k \in 1 .. M
      <4>1. "|" # "&"
        OBVIOUS
      <4> QED BY <1>7, <3>7, <4>1
    <3>9. W[k] = <<i, i>>
      BY <1>7, <3>3, <3>6, <3>8
    <3> QED BY <3>8, <3>9
  <2> QED BY <1>5, <1>6, <2>1, <2>2 DEF Apart
<1>16. /\ P \in SUBSET (1 .. M)
       /\ Cardinality(P) = Cardinality(Positions(text, {"|"}))
  BY <1>5, <1>13, <1>15, BarsAreWords
<1>17. StageTokens(K) = (1 .. M) \ P
  <2>1. ASSUME NEW k \in 1 .. Q
        PROVE  k \in 1 .. M <=> (K[k] = "&" => k < Q)
    <3>1. K[k] = "&" => ~(k < Q)
      BY <1>8
    <3> QED BY <1>7, <3>1
  <2>2. \A k : k \in StageTokens(K) <=> k \in 1 .. Q /\ K[k] # "|" /\ (K[k] = "&" => k < Q)
    BY <1>8 DEF StageTokens
  <2>3. \A k : k \in (1 .. M) \ P <=> k \in 1 .. M /\ k \notin P
    OBVIOUS
  <2>4. \A k : k \in StageTokens(K) <=> k \in (1 .. M) \ P
    BY <1>12, <1>14, <2>1, <2>2, <2>3
  <2> QED BY <2>4
<1>18. PICK I : I = Intervals((1 .. M) \ P)
  OBVIOUS
<1>19. StagesOf(K) = I /\ Len(I) = Cardinality(P) + 1
  BY <1>3, <1>11, <1>16, <1>17, <1>18, WellFormedIs
<1>20. I \in Bounded(M) /\ PartsAre(I, P, M)
  <2>1. P \in SUBSET (1 .. M) /\ Len(I) = Cardinality(P) + 1
    BY <1>16, <1>19
  <2> QED BY <1>18, <2>1, IntervalsAreParts
<1>21. DOMAIN I = 1 .. Cardinality(P) + 1
  BY <1>19, <1>20, LenProperties DEF Bounded
<1> QED BY <1>1, <1>2, <1>3, <1>4, <1>5, <1>6, <1>7, <1>13, <1>15, <1>16, <1>18, <1>19,
           <1>20, <1>21

\* The "|" of such a line stand alone when it is received, and each process has a
\* word.
LEMMA SpacedBarsApart ==
  ASSUME NEW s \in Seq(Chars), WellFormed(s), Spaced(s),
         NEW strays, Positions(s, strays) = {}
  PROVE  BarsApart(Received(s))
<1>1. PICK cmd, text, W, P, I, K, M, N :
        /\ cmd = Received(s) /\ text = Text(cmd) /\ W = Words(cmd, strays)
        /\ P = BarWords(text, W) /\ K = Kinds(s) /\ I = StagesOf(K)
        /\ M = Len(W) /\ N = Len(text)
  OBVIOUS
<1>2. cmd \in Seq(Chars) /\ text \in Seq(Chars)
  BY <1>1, ReceivedIs, TextIs
<1>3. /\ Len(I) = Cardinality(P) + 1 /\ I = Intervals((1 .. M) \ P)
      /\ Cardinality(P) = Cardinality(Positions(text, {"|"}))
      /\ Apart(text, W, N, M) /\ W = Strtok(text, {" "})
  BY <1>1, StagesAreParts
<1>4. Positions(cmd, {"|"}) = Positions(text, {"|"})
  BY <1>1, <1>2, SameBars
<1>5. DOMAIN W = 1 .. M /\ W \in [1 .. M -> (1 .. N) \X (1 .. N)]
  BY <1>3 DEF Apart
<1>6. {k \in DOMAIN W : ~IsChar(cmd, W[k], {"|"})} = (1 .. M) \ P
  <2> SUFFICES ASSUME NEW k \in 1 .. M
               PROVE  IsChar(cmd, W[k], {"|"}) <=> IsChar(text, W[k], {"|"})
    BY <1>1, <1>5 DEF BarWords
  <2>1. W[k][1] \in 1 .. N
    BY <1>5
  <2>2. text[W[k][1]] = cmd[W[k][1]]
    BY <1>1, <1>2, <2>1, TextIs
  <2> QED BY <2>2 DEF IsChar
<1>7. \A i \in Positions(cmd, {"|"}) : \E k \in DOMAIN W : W[k] = <<i, i>>
  BY <1>3, <1>4, <1>5 DEF Apart
<1>8. W = Strtok(IF LastChar(cmd) = "&" THEN Front(cmd) ELSE cmd, {" "})
  BY <1>1, <1>3 DEF Text
<1>9. Len(Intervals({k \in DOMAIN W : ~IsChar(cmd, W[k], {"|"})}))
        = Cardinality(Positions(cmd, {"|"})) + 1
  BY <1>3, <1>4, <1>6
<1> QED BY <1>1, <1>7, <1>8, <1>9, Zenon DEF BarsApart

\* argv holds the tokens a .. b, and S the places in it of those in R.
Holds(argv, ts, a, b) ==
  /\ 1 <= a /\ a <= b
  /\ Len(argv) = b - a + 1 /\ DOMAIN argv = 1 .. b - a + 1
  /\ \A q \in 1 .. b - a + 1 : argv[q] = ts[a + q - 1]

Places(S, R, a, b) ==
  /\ R \in SUBSET (a .. b) /\ S \in SUBSET (1 .. b - a + 1)
  /\ \A q \in 1 .. b - a + 1 : q \in S <=> a + q - 1 \in R

\* The file behind the last redirection of a kind.
LEMMA FileAfterIs ==
  ASSUME NEW a \in Nat, NEW b \in Nat, NEW ts, NEW argv, Holds(argv, ts, a, b),
         NEW S, NEW R, Places(S, R, a, b), \A k \in R : k < b
  PROVE  FileAfter(argv, S) = IF R = {} THEN NoFile ELSE ts[Max(R) + 1]
<1> USE DEF Holds, Places
<1>1. CASE R = {}
  <2>1. S = {}
    BY <1>1
  <2> QED BY <1>1, <2>1 DEF FileAfter
<1>2. CASE R # {}
  <2>1. PICK x : x = Max(R)
    OBVIOUS
  <2>2. R \in SUBSET (0 .. b)
    <3>1. \A i \in a .. b : i \in 0 .. b
      OBVIOUS
    <3> QED BY <3>1
  <2>3. x \in R /\ \A i \in R : i <= x
    BY <1>2, <2>1, <2>2, MaxFacts
  <2>4. x \in a .. b /\ x < b
    BY <2>3
  <2>5. PICK y \in 1 .. b - a + 1 : y = x - a + 1
    BY <2>4
  <2>6. y \in S
    <3>1. a + y - 1 = x
      BY <2>4, <2>5
    <3> QED BY <2>3, <3>1
  <2>7. \A i \in S : i <= y
    <3> TAKE i \in S
    <3>1. i \in 1 .. b - a + 1 /\ a + i - 1 \in R
      OBVIOUS
    <3>2. a + i - 1 <= x
      BY <2>3, <3>1
    <3> QED BY <2>4, <2>5, <3>1, <3>2
  <2>8. S \in SUBSET Int
    <3>1. \A i \in 1 .. b - a + 1 : i \in Int
      OBVIOUS
    <3> QED BY <3>1
  <2>9. Max(S) = y
    BY <2>6, <2>7, <2>8, MaxIs
  <2>10. y # Len(argv) /\ y + 1 \in 1 .. b - a + 1
    BY <2>4, <2>5
  <2>11. argv[y + 1] = ts[x + 1]
    <3>1. a + (y + 1) - 1 = x + 1
      BY <2>4, <2>5
    <3> QED BY <2>10, <3>1
  <2> QED BY <1>2, <2>1, <2>6, <2>9, <2>10, <2>11 DEF FileAfter
<1> QED BY <1>1, <1>2

\* What comes before the first redirection.
Ahead(argv, S, a, b) == SubSeq(argv, a, Min(S \cup {b + 1}) - 1)

\* What comes before the first redirection is the same in argv and in the tokens.
LEMMA CutBefore ==
  ASSUME NEW a \in Nat, NEW b \in Nat, NEW ts, NEW argv, Holds(argv, ts, a, b),
         NEW S, NEW R, Places(S, R, a, b)
  PROVE  Ahead(argv, S, 1, Len(argv)) = Ahead(ts, R, a, b)
<1> USE DEF Holds, Places
<1>1. PICK m : m = Min(R \cup {b + 1})
  OBVIOUS
<1>2. R \cup {b + 1} \in SUBSET Nat /\ R \cup {b + 1} # {}
  <2>1. \A i \in a .. b : i \in Nat
    OBVIOUS
  <2> QED BY <2>1
<1>3. (m \in R \/ m = b + 1) /\ m <= b + 1 /\ \A i \in R : m <= i
  BY <1>1, <1>2, MinFacts
<1>4. m \in a .. b + 1
  <2>1. m \in R => m \in a .. b
    OBVIOUS
  <2> QED BY <1>3, <2>1
<1>5. PICK l \in Nat : l = Len(argv) + 1 /\ l = b - a + 2
  OBVIOUS
<1>6. PICK y \in 1 .. l : y = m - a + 1
  BY <1>4, <1>5
<1>7. y \in S \/ y = l
  <2>1. CASE m = b + 1
    BY <1>5, <1>6, <2>1
  <2>2. CASE m \in R
    <3>1. y \in 1 .. b - a + 1 /\ a + y - 1 = m
      <4>1. m \in a .. b
        BY <2>2
      <4> QED BY <1>6, <4>1
    <3> QED BY <2>2, <3>1
  <2> QED BY <1>3, <2>1, <2>2
<1>8. \A i \in S : y <= i
  <2> TAKE i \in S
  <2>1. i \in 1 .. b - a + 1 /\ a + i - 1 \in R
    OBVIOUS
  <2>2. m <= a + i - 1
    BY <1>3, <2>1
  <2> QED BY <1>4, <1>6, <2>1, <2>2
<1>9. S \cup {l} \in SUBSET Int
  <2>1. \A i \in 1 .. b - a + 1 : i \in Int
    OBVIOUS
  <2> QED BY <2>1
<1>10. y \in S \cup {l} /\ \A i \in S \cup {l} : y <= i
  BY <1>6, <1>7, <1>8
<1>11. Min(S \cup {l}) = y
  BY <1>9, <1>10, MinIs
<1> DEFINE X == {ts[k] : k \in a .. b}
<1>12. \A k \in a .. b : ts[k] \in X
  OBVIOUS
<1> HIDE DEF X
<1>13. PICK n \in Int : n = y - 1 /\ 0 <= n /\ n <= b - a + 1 /\ m - 1 = a + n - 1
  BY <1>4, <1>5, <1>6
<1>14. /\ SubSeq(argv, 1, n) \in Seq(X)
       /\ Len(SubSeq(argv, 1, n)) = n
       /\ \A i \in 1 .. n : SubSeq(argv, 1, n)[i] = argv[i]
  <2>1. \A i \in 1 .. n : argv[i] \in X
    <3> TAKE i \in 1 .. n
    <3>1. i \in 1 .. b - a + 1 /\ a + i - 1 \in a .. b
      BY <1>13
    <3> QED BY <1>12, <3>1
  <2>2. /\ SubSeq(argv, 1, n) \in Seq(X)
        /\ Len(SubSeq(argv, 1, n)) = IF 1 <= n THEN n - 1 + 1 ELSE 0
        /\ \A i \in 1 .. n - 1 + 1 : SubSeq(argv, 1, n)[i] = argv[1 + i - 1]
    BY <2>1, SubSeqProperties
  <2>3. \A i \in 1 .. n : i \in 1 .. n - 1 + 1 /\ 1 + i - 1 = i
    BY <1>13
  <2>4. (IF 1 <= n THEN n - 1 + 1 ELSE 0) = n
    BY <1>13
  <2> QED BY <2>2, <2>3, <2>4
<1>15. PICK p \in Int : p = m - 1
  BY <1>4
<1>16. /\ SubSeq(ts, a, p) \in Seq(X)
       /\ Len(SubSeq(ts, a, p)) = n
       /\ \A i \in 1 .. n : SubSeq(ts, a, p)[i] = ts[a + i - 1]
  <2>1. \A i \in a .. p : ts[i] \in X
    <3>1. \A i \in a .. p : i \in a .. b
      BY <1>4, <1>15
    <3> QED BY <1>12, <3>1
  <2>2. /\ SubSeq(ts, a, p) \in Seq(X)
        /\ Len(SubSeq(ts, a, p)) = IF a <= p THEN p - a + 1 ELSE 0
        /\ \A i \in 1 .. p - a + 1 : SubSeq(ts, a, p)[i] = ts[a + i - 1]
    BY <2>1, SubSeqProperties
  <2>3. p - a + 1 = n
    BY <1>13, <1>15
  <2>4. (IF a <= p THEN p - a + 1 ELSE 0) = n
    BY <1>13, <1>15
  <2> QED BY <2>2, <2>3, <2>4
<1>17. \A i \in 1 .. n : argv[i] = ts[a + i - 1]
  <2>1. \A i \in 1 .. n : i \in 1 .. b - a + 1
    BY <1>13
  <2> QED BY <2>1
<1>18. SubSeq(argv, 1, n) = SubSeq(ts, a, p)
  BY <1>14, <1>16, <1>17, SeqEqual
<1> QED BY <1>1, <1>5, <1>11, <1>13, <1>15, <1>18 DEF Ahead

\* What is meant by a stage whose tokens are numbered st[1] .. st[2].
StageMeaning(ts, K, st) ==
  LET target(kind) == LET R == {k \in RedirectionsIn(K, st) : K[k] = kind}
                      IN IF R = {} THEN NoFile ELSE ts[Max(R) + 1]
  IN [argv |-> SubSeq(ts, st[1], Min(RedirectionsIn(K, st) \cup {st[2] + 1}) - 1),
      in |-> target("<"), out |-> target(">")]

\* The q-th place of argv is that of token a + q - 1.
LEMMA Shifted ==
  ASSUME NEW a \in Nat, NEW b \in Nat
  PROVE  \A q \in 1 .. b - a + 1 : a + q - 1 \in a .. b
OBVIOUS

\* The redirections among the tokens a .. b are the words that file_redirection
\* takes for them, and none is the last.
Redirected(s, ts, K, a, b) ==
  \A k \in a .. b :
    /\ IsChar(s, ts[k], {"<"}) <=> K[k] = "<"
    /\ IsChar(s, ts[k], {">"}) <=> K[k] = ">"
    /\ K[k] \in {"<", ">"} => k < b

\* What file_redirection makes of the words of a stage is what they mean.
LEMMA StageRuns ==
  ASSUME NEW s, NEW ts, NEW K, NEW a \in Nat, NEW b \in Nat,
         NEW st, a = st[1], b = st[2], NEW argv, Holds(argv, ts, a, b),
         Redirected(s, ts, K, a, b)
  PROVE  file_redirection(s, argv) = StageMeaning(ts, K, st)
<1> DEFINE marks(C) == {i \in DOMAIN argv : IsChar(s, argv[i], C)}
<1> DEFINE R(C) == {k \in a .. b : K[k] \in C}
<1> DEFINE run == file_redirection(s, argv)
<1> DEFINE sense == StageMeaning(ts, K, st)
<1>1. \A q \in 1 .. b - a + 1 : a + q - 1 \in a .. b
  BY Shifted
<1>2. ASSUME NEW C \in {{"<"}, {">"}, {"<", ">"}}
      PROVE  /\ R(C) \in SUBSET (a .. b) /\ marks(C) \in SUBSET (1 .. b - a + 1)
             /\ \A q \in 1 .. b - a + 1 : q \in marks(C) <=> a + q - 1 \in R(C)
             /\ \A k \in R(C) : k < b
  <2>1. ASSUME NEW k \in a .. b PROVE IsChar(s, ts[k], C) <=> K[k] \in C
    BY DEF IsChar, Redirected
  <2>2. ASSUME NEW q \in 1 .. b - a + 1 PROVE q \in marks(C) <=> a + q - 1 \in R(C)
    BY <1>1, <2>1 DEF Holds
  <2>3. R(C) \in SUBSET (a .. b)
    OBVIOUS
  <2>4. marks(C) \in SUBSET (1 .. b - a + 1)
    BY DEF Holds
  <2>5. \A k \in R(C) : k < b
    BY DEF Redirected
  <2> QED BY <2>2, <2>3, <2>4, <2>5
<1>3. RedirectionsIn(K, st) = R({"<", ">"})
  BY DEF RedirectionsIn
<1>4. /\ {k \in RedirectionsIn(K, st) : K[k] = "<"} = R({"<"})
      /\ {k \in RedirectionsIn(K, st) : K[k] = ">"} = R({">"})
  BY DEF RedirectionsIn
<1>5. /\ run.argv = SubSeq(argv, 1, Min(marks({"<", ">"}) \cup {Len(argv) + 1}) - 1)
      /\ run.in = FileAfter(argv, marks({"<"})) /\ run.out = FileAfter(argv, marks({">"}))
      /\ run = [argv |-> run.argv, in |-> run.in, out |-> run.out]
  BY Zenon DEF file_redirection
<1>6. /\ sense.argv = SubSeq(ts, a, Min(R({"<", ">"}) \cup {b + 1}) - 1)
      /\ sense.in = IF R({"<"}) = {} THEN NoFile ELSE ts[Max(R({"<"})) + 1]
      /\ sense.out = IF R({">"}) = {} THEN NoFile ELSE ts[Max(R({">"})) + 1]
      /\ sense = [argv |-> sense.argv, in |-> sense.in, out |-> sense.out]
  BY <1>3, <1>4, Zenon DEF StageMeaning
<1> HIDE DEF marks, R, run, sense
<1>7. run.argv = sense.argv
  <2>1. {"<", ">"} \in {{"<"}, {">"}, {"<", ">"}}
    OBVIOUS
  <2>2. PICK S, T : S = marks({"<", ">"}) /\ T = R({"<", ">"})
    OBVIOUS
  <2>3. Places(S, T, a, b)
    BY <1>2, <2>1, <2>2 DEF Places
  <2>4. Ahead(argv, S, 1, Len(argv)) = Ahead(ts, T, a, b)
    BY <2>3, CutBefore
  <2> QED BY <1>5, <1>6, <2>2, <2>4 DEF Ahead
<1>8. ASSUME NEW c \in {"<", ">"}
      PROVE  FileAfter(argv, marks({c})) =
               IF R({c}) = {} THEN NoFile ELSE ts[Max(R({c})) + 1]
  <2>1. {c} \in {{"<"}, {">"}, {"<", ">"}}
    OBVIOUS
  <2>2. PICK S, T : S = marks({c}) /\ T = R({c})
    OBVIOUS
  <2>3. Places(S, T, a, b) /\ \A k \in T : k < b
    BY <1>2, <2>1, <2>2 DEF Places
  <2>4. FileAfter(argv, S) = IF T = {} THEN NoFile ELSE ts[Max(T) + 1]
    BY <2>3, FileAfterIs
  <2> QED BY <2>2, <2>4
<1>9. run.in = sense.in
  BY <1>5, <1>6, <1>8
<1>10. run.out = sense.out
  BY <1>5, <1>6, <1>8
<1>11. run = sense
  BY <1>5, <1>6, <1>7, <1>9, <1>10, Zenon
<1> QED BY <1>11 DEF run, sense

\* How many words come before the first redirection.
WordsAhead(ts, R, a, b) ==
  /\ Len(Ahead(ts, R, a, b)) \in Nat
  /\ R = {} => Len(Ahead(ts, R, a, b)) = b - a + 1
  /\ R # {} => Len(Ahead(ts, R, a, b)) < b - a + 1

\* They are all of them if there is none, and fewer otherwise.
LEMMA WordsAheadAre ==
  ASSUME NEW a \in Nat, NEW b \in Nat, a <= b, NEW ts, NEW R \in SUBSET (a .. b)
  PROVE  WordsAhead(ts, R, a, b)
<1> DEFINE X == {ts[k] : k \in a .. b}
<1>0. \A k \in a .. b : ts[k] \in X
  OBVIOUS
<1> HIDE DEF X
<1>1. PICK m : m = Min(R \cup {b + 1})
  OBVIOUS
<1>2. R \cup {b + 1} \in SUBSET Nat /\ R \cup {b + 1} # {}
  <2>1. \A i \in a .. b : i \in Nat
    OBVIOUS
  <2> QED BY <2>1
<1>3. m \in R \cup {b + 1} /\ \A i \in R \cup {b + 1} : m <= i
  BY <1>1, <1>2, MinFacts
<1>4. m \in a .. b + 1
  <2>1. m \in R => m \in a .. b
    OBVIOUS
  <2> QED BY <1>3, <2>1
<1>5. R = {} => m = b + 1
  BY <1>3
<1>6. R # {} => m < b + 1
  <2> SUFFICES ASSUME R # {} PROVE m < b + 1
    OBVIOUS
  <2>1. PICK i \in R : i \in a .. b
    OBVIOUS
  <2> QED BY <1>3, <1>4, <2>1
<1>7. PICK p \in Int : p = m - 1
  BY <1>4
<1>8. \A k \in a .. p : ts[k] \in X
  <2>1. \A k \in a .. p : k \in a .. b
    BY <1>4, <1>7
  <2> QED BY <1>0, <2>1
<1>9. Len(SubSeq(ts, a, p)) = IF a <= p THEN p - a + 1 ELSE 0
  BY <1>8, SubSeqProperties
<1>10. Len(SubSeq(ts, a, p)) = m - a
  BY <1>4, <1>7, <1>9
<1>11. Len(Ahead(ts, R, a, b)) = m - a
  BY <1>1, <1>7, <1>10 DEF Ahead
<1> QED BY <1>4, <1>5, <1>6, <1>11 DEF WordsAhead

\* A NULL lies behind the words of a stage unless it is one of NoNullBehind: a
\* redirection leaves argv shorter than it was allocated, and names a file.
LEMMA StageEnds ==
  ASSUME NEW a \in Nat, NEW b \in Nat, 1 <= a, a <= b, NEW L \in Nat, NEW ts, NEW K,
         \A k \in a .. b : ts[k] \in (1 .. L) \X (1 .. L),
         \A k \in a .. b : K[k] \in {"<", ">"} => k < b,
         NEW st
  PROVE  a = st[1] /\ b = st[2] =>
           (Terminated(b - a + 1, StageMeaning(ts, K, st))
              <=> ~NoNullBehind(StageMeaning(ts, K, st)))
<1>0. \A R \in SUBSET (a .. b) : WordsAhead(ts, R, a, b)
  BY WordsAheadAre
<1>i. SUFFICES ASSUME a = st[1], b = st[2]
               PROVE  Terminated(b - a + 1, StageMeaning(ts, K, st))
                        <=> ~NoNullBehind(StageMeaning(ts, K, st))
  OBVIOUS
<1> DEFINE R(C) == {k \in a .. b : K[k] \in C}
<1> DEFINE sense == StageMeaning(ts, K, st)
<1>1. RedirectionsIn(K, st) = R({"<", ">"})
  BY <1>i DEF RedirectionsIn
<1>2. /\ {k \in RedirectionsIn(K, st) : K[k] = "<"} = R({"<"})
      /\ {k \in RedirectionsIn(K, st) : K[k] = ">"} = R({">"})
  BY <1>i DEF RedirectionsIn
<1>3. /\ sense.argv = SubSeq(ts, a, Min(R({"<", ">"}) \cup {b + 1}) - 1)
      /\ sense.in = IF R({"<"}) = {} THEN NoFile ELSE ts[Max(R({"<"})) + 1]
      /\ sense.out = IF R({">"}) = {} THEN NoFile ELSE ts[Max(R({">"})) + 1]
  BY <1>i, <1>1, <1>2, Zenon DEF StageMeaning
<1>4. R({"<", ">"}) \in SUBSET (a .. b)
  OBVIOUS
<1>5. R({"<", ">"}) = {} <=> R({"<"}) = {} /\ R({">"}) = {}
  OBVIOUS
<1>6. ASSUME NEW c \in {"<", ">"}, R({c}) # {} PROVE ts[Max(R({c})) + 1] # NoFile
  <2>1. PICK T : T = R({c})
    OBVIOUS
  <2>2. T \in SUBSET (a .. b) /\ T # {} /\ \A k \in T : k < b
    BY <1>6, <2>1
  <2>3. T \in SUBSET (0 .. b)
    <3>1. \A i \in a .. b : i \in 0 .. b
      OBVIOUS
    <3> QED BY <2>2, <3>1
  <2>4. Max(T) \in T
    BY <2>2, <2>3, MaxFacts
  <2>5. PICK x \in a .. b : x = Max(T) /\ x < b
    BY <2>2, <2>4
  <2>6. x + 1 \in a .. b
    BY <2>5
  <2>7. ts[x + 1] \in (1 .. L) \X (1 .. L)
    BY <2>6
  <2>8. <<0, 0>> \notin (1 .. L) \X (1 .. L)
    OBVIOUS
  <2> QED BY <2>1, <2>5, <2>7, <2>8 DEF NoFile
<1>7. PICK T \in SUBSET (a .. b) : T = R({"<", ">"})
  BY <1>4
<1>8. T = {} <=> sense.in = NoFile /\ sense.out = NoFile
  <2> HIDE DEF R, sense
  <2> QED BY <1>3, <1>5, <1>6, <1>7
<1>9. PICK l \in Nat : /\ l = Len(sense.argv)
                       /\ T = {} => l = b - a + 1
                       /\ T # {} => l < b - a + 1
  <2>1. sense.argv = Ahead(ts, T, a, b)
    BY <1>3, <1>7 DEF Ahead
  <2>2. WordsAhead(ts, T, a, b)
    BY <1>0
  <2> HIDE DEF R, sense
  <2> QED BY <2>1, <2>2 DEF WordsAhead
<1> HIDE DEF R, sense
<1>10. Terminated(b - a + 1, sense)
         <=> l < b - a + 1 \/ b - a + 1 <= 2 \/ (b - a + 1) % 2 = 0
  BY <1>9 DEF Terminated
<1>11. NoNullBehind(sense) <=> T = {} /\ l >= 3 /\ l % 2 = 1
  BY <1>8, <1>9 DEF NoNullBehind
<1>12. l % 2 = 0 \/ l % 2 = 1
  OBVIOUS
<1>13. Terminated(b - a + 1, sense) <=> ~NoNullBehind(sense)
  <2>1. CASE T = {}
    <3>1. l = b - a + 1 /\ ~(l < l)
      BY <1>9, <2>1
    <3>2. l >= 3 <=> ~(l <= 2)
      OBVIOUS
    <3> QED BY <1>10, <1>11, <1>12, <2>1, <3>1, <3>2
  <2>2. CASE T # {}
    BY <1>9, <1>10, <1>11, <2>2
  <2> QED BY <2>1, <2>2
<1> QED BY <1>13 DEF sense

\* On every line that is well formed and spaced and has no byte strtok splits at
\* by mistake, whatever its length, each process of yashd has an argv of the
\* program and the arguments of its stage, and the files of its redirections; a
\* NULL ends it except behind an odd number of words from three on without a
\* redirection; and the job is in the background exactly when the line ends in "&".
THEOREM ArgvIsTyped == Spec => []ArgvIsWhatIsTyped
<1>1. ASSUME LineTyped PROVE ArgvIsWhatIsTyped
  <2> SUFFICES ASSUME Clean, WellFormed(line), Spaced(line)
               PROVE  /\ [n \in DOMAIN job.argv |-> file_redirection(line, job.argv[n])]
                           = Meaning(line)
                      /\ \A n \in DOMAIN job.argv :
                           Terminated(job.argc[n], file_redirection(line, job.argv[n]))
                             <=> ~NoNullBehind(Meaning(line)[n])
                      /\ job.bg = InBackground(Kinds(line))
    BY DEF ArgvIsWhatIsTyped
  <2>1. line \in Seq(Chars) /\ Positions(line, stray) = {}
    BY <1>1 DEF LineTyped, Clean
  <2>2. PICK ts, K, cmd, text, W, P, I, L :
          /\ ts = Tokens(line) /\ K = Kinds(line) /\ cmd = Received(line)
          /\ text = Text(cmd) /\ W = Words(cmd, stray) /\ P = BarWords(text, W)
          /\ I = StagesOf(K) /\ L = Len(line)
    OBVIOUS
  <2>3. PICK M \in Nat, c \in Nat : M = Len(W) /\ c = Cardinality(P)
    <3>1. Len(W) \in Nat /\ P \in SUBSET (1 .. Len(W))
      BY <2>1, <2>2, StagesAreParts
    <3> QED BY <3>1, SubsetsFinite
  <2>4. /\ M <= Len(ts) /\ W \in Bounded(L)
        /\ \A k \in 1 .. M : W[k] = ts[k]
        /\ P \in SUBSET (1 .. M)
        /\ Len(I) = c + 1 /\ DOMAIN I = 1 .. c + 1
    BY <2>1, <2>2, <2>3, StagesAreParts
  <2>5. \A n \in 1 .. c + 1 :
          /\ I[n][1] \in 1 .. M /\ I[n][2] \in 1 .. M /\ I[n][1] <= I[n][2]
          /\ Members(P, n, M) = I[n][1] .. I[n][2]
    <3>1. PartsAre(I, P, M)
      BY <2>1, <2>2, <2>3, StagesAreParts
    <3> QED BY <2>3, <3>1 DEF PartsAre
  <2>6. PICK Q \in Nat : Q = Len(ts) /\ L \in Nat /\ Tokenised(line, ts, L, Q)
    BY <2>1, <2>2, TokensAre
  <2>7. \A k \in 1 .. Q : /\ line[ts[k][1]] \in Special => K[k] = line[ts[k][1]]
                          /\ line[ts[k][1]] \notin Special => K[k] = "w"
    BY <2>1, <2>2, <2>6, KindsAre
  <2>8. \A k \in 1 .. M : k \in 1 .. Q
    BY <2>4, <2>6
  <2>9. ASSUME NEW k \in 1 .. M, NEW C \in {"<", ">"}
        PROVE  IsChar(line, ts[k], {C}) <=> K[k] = C
    <3>1. line[ts[k][1]] = C => ts[k][1] = ts[k][2]
      BY <2>6, <2>8, OtherChars DEF Tokenised
    <3>2. line[ts[k][1]] = C <=> K[k] = C
      <4>1. C # "w" /\ C \in Special
        BY OtherChars
      <4> QED BY <2>7, <2>8, <4>1
    <3> QED BY <3>1, <3>2 DEF IsChar
  <2>10. job.argv = Cut(P, W, M) /\ job.bg = (LastChar(cmd) = "&")
    <3>1. cmd \in Seq(Chars)
      BY <2>1, <2>2, ReceivedIs
    <3> QED BY <2>2, <2>3, <3>1, ParseCommandIs DEF job
  <2>11. /\ DOMAIN job.argv = 1 .. c + 1
         /\ \A n \in 1 .. c + 1 : job.argv[n] = Picked(W, Members(P, n, M))
    <3>1. Part(P, M + 1) = c + 1
      <4>1. M + 1 \in Nat /\ M < M + 1
        OBVIOUS
      <4> QED BY <2>3, <2>4, <4>1, PartFacts
    <3> QED BY <2>10, <3>1 DEF Cut
  <2>12. ASSUME NEW n \in 1 .. c + 1
         PROVE  /\ file_redirection(line, job.argv[n]) = StageMeaning(ts, K, I[n])
                /\ Terminated(Len(job.argv[n]), StageMeaning(ts, K, I[n]))
                     <=> ~NoNullBehind(StageMeaning(ts, K, I[n]))
    <3>1. PICK a \in 1 .. M, b \in 1 .. M : a = I[n][1] /\ b = I[n][2]
      BY <2>5
    <3>2. a <= b /\ Members(P, n, M) = a .. b
      BY <2>5, <3>1
    <3>3. PICK argv : argv = job.argv[n]
      OBVIOUS
    <3>4. /\ Cardinality(a .. b) = b - a + 1
          /\ InOrder(a .. b) = [k \in 1 .. b - a + 1 |-> a + k - 1]
      BY <3>2, InOrderOfInterval
    <3>5. argv = [q \in 1 .. b - a + 1 |-> W[InOrder(a .. b)[q]]]
      BY <2>11, <3>2, <3>3, <3>4 DEF Picked
    <3>6. DOMAIN argv = 1 .. b - a + 1
      BY <3>5
    <3>7. Len(argv) = b - a + 1
      <4>1. b - a + 1 \in Nat
        BY <3>2
      <4> QED BY <3>5, <4>1
    <3>8. \A q \in 1 .. b - a + 1 : argv[q] = ts[a + q - 1]
      <4>1. \A q \in 1 .. b - a + 1 : argv[q] = W[a + q - 1]
        BY <3>4, <3>5
      <4>2. \A q \in 1 .. b - a + 1 : a + q - 1 \in 1 .. M
        OBVIOUS
      <4> QED BY <2>4, <4>1, <4>2
    <3>9. \A k \in a .. b : k \in 1 .. M
      OBVIOUS
    <3>10. \A k \in a .. b : /\ IsChar(line, ts[k], {"<"}) <=> K[k] = "<"
                             /\ IsChar(line, ts[k], {">"}) <=> K[k] = ">"
      BY <2>9, <3>9
    <3>11. \A k \in a .. b : K[k] \in {"<", ">"} => k < b
      <4>1. I = Intervals(StageTokens(K)) /\ n \in 1 .. Len(I)
        BY <2>1, <2>2, <2>4, WellFormedIs
      <4>2. \A k \in I[n][1] .. I[n][2] : K[k] \in {"<", ">"} => k < I[n][2]
        BY <2>1, <2>2, <4>1, WellFormedIs
      <4> QED BY <3>1, <4>2
    <3>12. a \in Nat /\ b \in Nat /\ 1 <= a
      OBVIOUS
    <3>13. Holds(argv, ts, a, b) /\ Redirected(line, ts, K, a, b)
      BY <3>2, <3>6, <3>7, <3>8, <3>10, <3>11, <3>12 DEF Holds, Redirected
    <3>14. PICK st : st = I[n]
      OBVIOUS
    <3>15. file_redirection(line, argv) = StageMeaning(ts, K, st)
      <4>1. a = st[1] /\ b = st[2]
        BY <3>1, <3>14
      <4> QED BY <3>12, <3>13, <4>1, StageRuns
    <3>16. Terminated(b - a + 1, StageMeaning(ts, K, st))
             <=> ~NoNullBehind(StageMeaning(ts, K, st))
      <4>1. a = st[1] /\ b = st[2]
        BY <3>1, <3>14
      <4>2. \A k \in a .. b : ts[k] \in (1 .. L) \X (1 .. L)
        BY <2>6, <2>8, <3>9 DEF Tokenised
      <4> QED BY <2>6, <3>2, <3>11, <3>12, <4>1, <4>2, StageEnds
    <3> QED BY <3>3, <3>7, <3>14, <3>15, <3>16
  <2>13. Meaning(line) = [n \in 1 .. c + 1 |-> StageMeaning(ts, K, I[n])]
    BY <2>2, <2>4, Zenon DEF Meaning, StageMeaning
  <2>14. [n \in DOMAIN job.argv |-> file_redirection(line, job.argv[n])] = Meaning(line)
    BY <2>11, <2>12, <2>13
  <2>16. ASSUME NEW n \in DOMAIN job.argv
         PROVE  Terminated(job.argc[n], file_redirection(line, job.argv[n]))
                  <=> ~NoNullBehind(Meaning(line)[n])
    <3>1. n \in 1 .. c + 1
      BY <2>11
    <3>2. Meaning(line)[n] = StageMeaning(ts, K, I[n])
      BY <2>13, <3>1
    <3>3. Len(job.argv[n]) = job.argc[n]
      <4>1. BarsApart(Received(line))
        BY <2>1, SpacedBarsApart
      <4>2. /\ Len(job.argv) = Len(job.argc)
            /\ DOMAIN job.argv = DOMAIN job.argc
            /\ \A m \in DOMAIN job.argc : Len(job.argv[m]) = job.argc[m]
        BY <1>1, <4>1, SameLengths
      <4> QED BY <4>2
    <3> QED BY <2>12, <3>1, <3>2, <3>3
  <2>15. (LastChar(cmd) = "&") = InBackground(K)
    BY <2>1, <2>2, TokensAreWords
  <2> QED BY <2>2, <2>10, <2>14, <2>15, <2>16
<1> QED BY <1>1, LineIsTyped, PTL

-----------------------------------------------------------------------------
(* What is typed, and what the standalone shell runs.                      *)

\* The longest stretch is known by where it stops.
Stops(s, C, y, i, j) ==
  /\ i \in 1 .. y + 1 /\ j \in i - 1 .. y
  /\ \A k \in i .. j : s[k] \in C
  /\ j = y \/ s[j + 1] \notin C

\* The longest stretch ends where it stops.
LEMMA StretchIs ==
  ASSUME NEW s, NEW C, NEW x, NEW y \in Nat, NEW i, NEW j, Stops(s, C, y, i, j)
  PROVE  Stretch(s, <<x, y>>, i, C) = <<i, j>>
<1> USE DEF Stops
<1> DEFINE S == {i - 1} \cup {l \in i .. y : \A k \in i .. l : s[k] \in C}
<1>1. \A l : l \in S <=> l = i - 1 \/ (l \in i .. y /\ \A k \in i .. l : s[k] \in C)
  OBVIOUS
<1>2. Stretch(s, <<x, y>>, i, C) = <<i, Max(S)>>
  BY DEF Stretch
<1> HIDE DEF S
<1>3. S \in SUBSET Int
  <2>1. \A l : l \in i .. y \/ l = i - 1 => l \in Int
    OBVIOUS
  <2> QED BY <1>1, <2>1
<1>4. j \in S
  <2>1. j = i - 1 \/ j \in i .. y
    OBVIOUS
  <2> QED BY <1>1, <2>1
<1>5. ASSUME NEW l \in S PROVE l <= j
  <2> SUFFICES ASSUME ~(l <= j) PROVE FALSE
    OBVIOUS
  <2>1. l \in Int
    BY <1>3
  <2>2. l # i - 1
    BY <2>1
  <2>3. l \in i .. y /\ \A k \in i .. l : s[k] \in C
    BY <1>1, <2>2
  <2>4. j + 1 \in i .. l /\ j # y
    BY <2>3
  <2> QED BY <2>3, <2>4
<1>6. Max(S) = j
  BY <1>3, <1>4, <1>5, MaxIs
<1> QED BY <1>2, <1>6

\* The tokens a .. b of one side x .. y of a pipe: words and redirections, with
\* nothing but spaces around them up to z, the end of the side or its "&".
Side(s, ts, K, L, x, y, z, a, b) ==
  /\ s \in Seq(Chars) /\ DOMAIN s = 1 .. L
  /\ x \in 1 .. L /\ y \in 1 .. L /\ z \in 1 .. y + 1
  /\ a \in Nat /\ b \in Nat /\ 1 <= a /\ a <= b
  /\ z = y + 1 \/ s[z] = "&"
  /\ \A k \in a .. b :
       /\ ts[k] \in (1 .. L) \X (1 .. L) /\ ts[k][1] <= ts[k][2]
       /\ x <= ts[k][1] /\ ts[k][2] < z
       /\ K[k] = "w" =>
            /\ \A i \in ts[k][1] .. ts[k][2] : i \in Positions(s, WordChars)
            /\ ts[k][1] - 1 \notin Positions(s, WordChars)
            /\ ts[k][2] + 1 \notin Positions(s, WordChars)
       /\ K[k] # "w" => /\ K[k] \in {"<", ">"} /\ s[ts[k][1]] = K[k]
                        /\ ts[k][1] = ts[k][2]
  /\ \A k, l \in a .. b : k < l => ts[k][2] < ts[l][1]
  /\ \A i \in x .. y : s[i] # " " => i = z \/ \E k \in a .. b : i \in ts[k][1] .. ts[k][2]

\* Where token k begins, or what is behind the last one.
Begins(ts, z, b, k) == IF k <= b THEN ts[k][1] ELSE z

\* Between two tokens there are spaces only.
Between(s, ts, K, x, y, z, a, b) ==
  /\ \A k \in a .. b :
       /\ ts[k][1] \in 1 .. y /\ ts[k][2] \in 1 .. y
       /\ ts[k][1] <= ts[k][2] /\ ts[k][2] < z /\ x <= ts[k][1]
       /\ ts[k] = <<ts[k][1], ts[k][2]>>
       /\ \A i \in ts[k][1] .. ts[k][2] : s[i] # " " /\ s[i] # "&"
       /\ K[k] = "w" => \A i \in ts[k][1] .. ts[k][2] : s[i] \in WordChars
       /\ K[k] # "w" => s[ts[k][1]] = K[k]
  /\ \A k \in a .. b : Begins(ts, z, b, k) = ts[k][1]
  /\ Begins(ts, z, b, b + 1) = z
  /\ \A k \in a .. b : Begins(ts, z, b, k + 1) \in ts[k][2] + 1 .. z
  /\ \A k \in a .. b : \A i \in ts[k][2] + 1 .. Begins(ts, z, b, k + 1) - 1 :
       s[i] = " "
  /\ \A i \in x .. ts[a][1] - 1 : s[i] = " "

\* Outside the tokens of a side there are spaces only.
LEMMA SideTokens ==
  ASSUME NEW L \in Nat, NEW x \in 1 .. L, NEW y \in 1 .. L, NEW z \in 1 .. y + 1,
         NEW a \in Nat, NEW b \in Nat,
         NEW s, NEW ts, NEW K, Side(s, ts, K, L, x, y, z, a, b)
  PROVE  Between(s, ts, K, x, y, z, a, b)
<1>1. a <= b /\ 1 <= a
  BY DEF Side
<1>2. ASSUME NEW k \in a .. b
      PROVE  /\ ts[k][1] \in 1 .. y /\ ts[k][2] \in 1 .. y
             /\ ts[k][1] <= ts[k][2] /\ ts[k][2] < z /\ x <= ts[k][1]
             /\ ts[k] = <<ts[k][1], ts[k][2]>>
  <2>1. /\ ts[k] \in (1 .. L) \X (1 .. L) /\ ts[k][1] <= ts[k][2]
        /\ x <= ts[k][1] /\ ts[k][2] < z
    BY DEF Side
  <2>2. ts[k][1] \in 1 .. L /\ ts[k][2] \in 1 .. L /\ ts[k] = <<ts[k][1], ts[k][2]>>
    BY <2>1
  <2> QED BY <2>1, <2>2
<1>3. \A i : i \in Positions(s, WordChars) <=> i \in 1 .. L /\ s[i] \in WordChars
  BY DEF Side, Positions
<1>4. ASSUME NEW k \in a .. b
      PROVE  /\ K[k] = "w" => \A i \in ts[k][1] .. ts[k][2] : s[i] \in WordChars
             /\ K[k] # "w" => s[ts[k][1]] = K[k]
  BY <1>3 DEF Side
<1>5. ASSUME NEW k \in a .. b, NEW i \in ts[k][1] .. ts[k][2]
      PROVE  s[i] # " " /\ s[i] # "&"
  <2>1. CASE K[k] = "w"
    <3>1. s[i] \in WordChars
      BY <1>4, <2>1
    <3>2. "&" \in Special
      BY OtherChars
    <3> QED BY <3>1, <3>2, OtherChars
  <2>2. CASE K[k] # "w"
    <3>1. K[k] \in {"<", ">"} /\ s[ts[k][1]] = K[k] /\ ts[k][1] = ts[k][2]
      BY <2>2 DEF Side
    <3>2. i = ts[k][1]
      BY <1>2, <3>1
    <3> QED BY <3>1, <3>2
  <2> QED BY <2>1, <2>2
<1>6. \A k, l \in a .. b : k < l => ts[k][2] < ts[l][1]
  BY DEF Side
<1>7. \A k \in a .. b : Begins(ts, z, b, k) = ts[k][1]
  <2>1. \A k \in a .. b : k <= b
    OBVIOUS
  <2> QED BY <2>1 DEF Begins
<1>8. Begins(ts, z, b, b + 1) = z
  <2>1. ~(b + 1 <= b)
    OBVIOUS
  <2> QED BY <2>1 DEF Begins
<1>9. ASSUME NEW k \in a .. b
      PROVE  /\ k # b => k + 1 \in a .. b /\ Begins(ts, z, b, k + 1) = ts[k + 1][1]
             /\ Begins(ts, z, b, k + 1) \in ts[k][2] + 1 .. z
  <2>1. CASE k = b
    BY <1>2, <1>8, <2>1
  <2>2. CASE k # b
    <3>1. k + 1 \in a .. b /\ k < k + 1
      BY <2>2
    <3>2. Begins(ts, z, b, k + 1) = ts[k + 1][1]
      BY <1>7, <3>1
    <3>3. ts[k][2] < ts[k + 1][1]
      BY <1>6, <3>1
    <3>4. ts[k + 1][1] \in 1 .. y /\ ts[k + 1][2] \in 1 .. y /\ ts[k + 1][1] <= ts[k + 1][2]
          /\ ts[k + 1][2] < z
      BY <1>2, <3>1
    <3>5. ts[k][2] \in 1 .. y
      BY <1>2
    <3> QED BY <3>1, <3>2, <3>3, <3>4, <3>5
  <2> QED BY <2>1, <2>2
<1>10. \A i \in x .. y : s[i] # " " => i = z \/ \E k \in a .. b : i \in ts[k][1] .. ts[k][2]
  BY DEF Side
<1>11. ASSUME NEW k \in a .. b, NEW i \in ts[k][2] + 1 .. Begins(ts, z, b, k + 1) - 1
       PROVE  s[i] = " "
  <2>1. PICK f \in 1 .. y, e \in 1 .. y : /\ f = ts[k][1] /\ e = ts[k][2]
                                          /\ f <= e /\ e < z /\ x <= f
    BY <1>2
  <2>2. PICK n \in e + 1 .. z : n = Begins(ts, z, b, k + 1)
    BY <1>9, <2>1
  <2>3. i \in e + 1 .. n - 1
    BY <2>1, <2>2
  <2>4. i \in x .. y /\ i # z
    BY <2>1, <2>3
  <2>5. ASSUME NEW l \in a .. b PROVE ~(i \in ts[l][1] .. ts[l][2])
    <3> SUFFICES ASSUME i \in ts[l][1] .. ts[l][2] PROVE FALSE
      OBVIOUS
    <3>1. PICK g \in 1 .. y, h \in 1 .. y : g = ts[l][1] /\ h = ts[l][2]
      BY <1>2
    <3>2. l # k
      BY <2>1, <2>3
    <3>3. ~(l < k)
      <4>1. l < k => h < f
        BY <1>6, <2>1, <3>1
      <4> QED BY <2>1, <2>3, <3>1, <4>1
    <3>4. k < l /\ k # b
      BY <3>2, <3>3
    <3>5. k + 1 \in a .. b /\ n = ts[k + 1][1]
      BY <1>9, <2>2, <3>4
    <3>6. n <= g
      <4>1. CASE k + 1 = l
        BY <3>1, <3>5, <4>1
      <4>2. CASE k + 1 # l
        <5>1. k + 1 < l
          BY <3>4, <4>2
        <5>2. ts[k + 1][2] < g
          BY <1>6, <3>1, <3>5, <5>1
        <5>3. ts[k + 1][2] \in 1 .. y /\ n <= ts[k + 1][2]
          BY <1>2, <3>5
        <5> QED BY <5>2, <5>3
      <4> QED BY <4>1, <4>2
    <3> QED BY <2>3, <3>1, <3>6
  <2> QED BY <1>10, <2>4, <2>5
<1>12. ASSUME NEW i \in x .. ts[a][1] - 1 PROVE s[i] = " "
  <2>1. a \in a .. b
    BY <1>1
  <2>2. PICK f \in 1 .. y, e \in 1 .. y : /\ f = ts[a][1] /\ e = ts[a][2]
                                          /\ f <= e /\ e < z
    BY <1>2, <2>1
  <2>3. i \in x .. y /\ i # z /\ i < f
    BY <2>2
  <2>4. ASSUME NEW l \in a .. b PROVE ~(i \in ts[l][1] .. ts[l][2])
    <3> SUFFICES ASSUME i \in ts[l][1] .. ts[l][2] PROVE FALSE
      OBVIOUS
    <3>1. PICK g \in 1 .. y, h \in 1 .. y : g = ts[l][1] /\ h = ts[l][2]
      BY <1>2
    <3>2. l = a \/ e < g
      BY <1>6, <2>1, <2>2, <3>1
    <3> QED BY <2>2, <2>3, <3>1, <3>2
  <2> QED BY <1>10, <2>3, <2>4
<1> QED BY <1>2, <1>4, <1>5, <1>7, <1>8, <1>9, <1>11, <1>12 DEF Between

\* The spaces behind a token, and those at the next one.
Gap(s, ts, x, y, z, b, k) ==
  LET i == ts[k][2] + 1
      n == Begins(ts, z, b, k + 1)
  IN /\ Stretch(s, <<x, y>>, i, {" "}) = <<i, n - 1>>
     /\ Stretch(s, <<x, y>>, n, {" "}) = <<n, n - 1>>

\* The stretch of spaces behind a token ends at the next one.
LEMMA GapIs ==
  ASSUME NEW L \in Nat, NEW x \in 1 .. L, NEW y \in 1 .. L, NEW z \in 1 .. y + 1,
         NEW a \in Nat, NEW b \in Nat,
         NEW s, NEW ts, NEW K, Side(s, ts, K, L, x, y, z, a, b), NEW k \in a .. b
  PROVE  Gap(s, ts, x, y, z, b, k)
<1>0. Between(s, ts, K, x, y, z, a, b)
  BY SideTokens
<1>1. PICK e \in 1 .. y : e = ts[k][2] /\ e < z
  BY <1>0 DEF Between
<1>2. PICK n \in e + 1 .. z : n = Begins(ts, z, b, k + 1)
  BY <1>1, <1>0 DEF Between
<1>3. \A i \in e + 1 .. n - 1 : s[i] = " "
  <2>1. \A i \in ts[k][2] + 1 .. Begins(ts, z, b, k + 1) - 1 : s[i] = " "
    BY <1>0 DEF Between
  <2> QED BY <1>1, <1>2, <2>1
<1>4. n = y + 1 \/ s[n] \notin {" "}
  <2>1. CASE k = b
    <3>1. n = z
      BY <1>2, <2>1, <1>0 DEF Between
    <3> QED BY <3>1 DEF Side
  <2>2. CASE k # b
    <3>1. k + 1 \in a .. b
      BY <2>2
    <3>2. n = ts[k + 1][1]
      BY <1>2, <3>1, <1>0 DEF Between
    <3>3. ts[k + 1][1] \in ts[k + 1][1] .. ts[k + 1][2]
      <4>1. /\ ts[k + 1][1] \in 1 .. y /\ ts[k + 1][2] \in 1 .. y
            /\ ts[k + 1][1] <= ts[k + 1][2]
        BY <3>1, <1>0 DEF Between
      <4> QED BY <4>1
    <3>4. s[ts[k + 1][1]] # " "
      BY <3>1, <3>3, <1>0 DEF Between
    <3> QED BY <3>2, <3>4
  <2> QED BY <2>1, <2>2
<1>5. PICK m \in Nat : m = n - 1
  BY <1>2
<1>6. m + 1 = n /\ y \in Nat
  BY <1>2, <1>5
<1>7. m = y \/ s[m + 1] \notin {" "}
  <2>1. n = y + 1 => m = y
    BY <1>6
  <2> QED BY <1>4, <1>6, <2>1
<1>8. PICK C : C = {" "}
  OBVIOUS
<1>9. PICK i \in 1 .. y + 1 : i = e + 1
  BY <1>1
<1>10. Stops(s, C, y, i, m)
  <2>1. m \in i - 1 .. y
    BY <1>2, <1>5, <1>9
  <2>2. \A l \in i .. m : s[l] \in C
    BY <1>3, <1>5, <1>8, <1>9
  <2> QED BY <1>7, <1>8, <2>1, <2>2 DEF Stops
<1>11. Stops(s, C, y, n, m)
  <2>1. n \in 1 .. y + 1 /\ m \in n - 1 .. y
    BY <1>2, <1>5
  <2>2. \A l \in n .. m : s[l] \in C
    <3>1. \A l \in n .. m : FALSE
      BY <1>2, <1>5
    <3> QED BY <3>1
  <2> QED BY <1>7, <1>8, <2>1, <2>2 DEF Stops
<1>12. Stretch(s, <<x, y>>, i, C) = <<i, m>> /\ Stretch(s, <<x, y>>, n, C) = <<n, m>>
  BY <1>6, <1>10, <1>11, StretchIs
<1> QED BY <1>1, <1>2, <1>5, <1>8, <1>9, <1>12 DEF Gap

\* A word is the longest stretch of its characters.
LEMMA WordIs ==
  ASSUME NEW L \in Nat, NEW x \in 1 .. L, NEW y \in 1 .. L, NEW z \in 1 .. y + 1,
         NEW a \in Nat, NEW b \in Nat,
         NEW s, NEW ts, NEW K, Side(s, ts, K, L, x, y, z, a, b), NEW k \in a .. b,
         K[k] = "w"
  PROVE  Stretch(s, <<x, y>>, ts[k][1], WordChars) = ts[k]
<1>0. Between(s, ts, K, x, y, z, a, b)
  BY SideTokens
<1>1. PICK f \in 1 .. y, e \in 1 .. y : /\ f = ts[k][1] /\ e = ts[k][2] /\ f <= e
                                        /\ ts[k] = <<f, e>>
  BY <1>0 DEF Between
<1>2. \A i \in f .. e : s[i] \in WordChars
  BY <1>1, <1>0 DEF Between
<1>3. e = y \/ s[e + 1] \notin WordChars
  <2>1. e + 1 \notin Positions(s, WordChars)
    BY <1>1 DEF Side
  <2>2. e # y => e + 1 \in 1 .. L
    OBVIOUS
  <2>3. DOMAIN s = 1 .. L
    BY DEF Side
  <2> QED BY <2>1, <2>2, <2>3 DEF Positions
<1>4. Stretch(s, <<x, y>>, f, WordChars) = <<f, e>>
  <2>1. y \in Nat /\ f \in 1 .. y + 1 /\ e \in f - 1 .. y
    BY <1>1
  <2>2. Stops(s, WordChars, y, f, e)
    BY <1>2, <1>3, <2>1 DEF Stops
  <2> QED BY <2>1, <2>2, StretchIs
<1> QED BY <1>1, <1>4

\* A redirection is found where it is, and none behind the last token.
Takes(s, ts, K, x, y, z, b, k) ==
  Redirection(s, <<x, y>>, Begins(ts, z, b, k)) =
    [kind |-> K[k], file |-> ts[k + 1], next |-> ts[k + 1][2] + 1]

\* A group for a redirection takes the two tokens of one.
LEMMA RedirectionIs ==
  ASSUME NEW L \in Nat, NEW x \in 1 .. L, NEW y \in 1 .. L, NEW z \in 1 .. y + 1,
         NEW a \in Nat, NEW b \in Nat,
         NEW s, NEW ts, NEW K, Side(s, ts, K, L, x, y, z, a, b), NEW k \in a .. b,
         k < b, K[k] # "w", K[k + 1] = "w"
  PROVE  Takes(s, ts, K, x, y, z, b, k)
<1>0. Between(s, ts, K, x, y, z, a, b)
  BY SideTokens
<1>1. PICK f \in 1 .. y : f = ts[k][1] /\ f = ts[k][2] /\ f = Begins(ts, z, b, k)
  <2>1. ts[k][1] \in 1 .. y /\ Begins(ts, z, b, k) = ts[k][1]
    BY <1>0 DEF Between
  <2>2. ts[k][1] = ts[k][2]
    BY DEF Side
  <2> QED BY <2>1, <2>2
<1>2. s[f] = K[k] /\ K[k] \in {"<", ">"}
  BY <1>1 DEF Side
<1>3. k + 1 \in a .. b
  OBVIOUS
<1>4. PICK n \in 1 .. y, e \in 1 .. y :
        /\ n = ts[k + 1][1] /\ e = ts[k + 1][2] /\ n <= e
        /\ n = Begins(ts, z, b, k + 1) /\ ts[k + 1] = <<n, e>>
  BY <1>3, <1>0 DEF Between
<1>5. Stretch(s, <<x, y>>, f + 1, {" "}) = <<f + 1, n - 1>>
  <2>1. Stretch(s, <<x, y>>, ts[k][2] + 1, {" "}) =
          <<ts[k][2] + 1, Begins(ts, z, b, k + 1) - 1>>
    <3>1. Gap(s, ts, x, y, z, b, k)
      BY GapIs
    <3> QED BY <3>1, Zenon DEF Gap
  <2> QED BY <1>1, <1>4, <2>1
<1>6. Stretch(s, <<x, y>>, (n - 1) + 1, WordChars) = <<n, e>>
  <2>1. (n - 1) + 1 = n
    OBVIOUS
  <2>2. Stretch(s, <<x, y>>, ts[k + 1][1], WordChars) = ts[k + 1]
    BY <1>3, WordIs
  <2> QED BY <1>4, <2>1, <2>2
<1>7. PICK gap : gap = Stretch(s, <<x, y>>, f + 1, {" "})
  OBVIOUS
<1>8. PICK file : file = Stretch(s, <<x, y>>, gap[2] + 1, WordChars)
  OBVIOUS
<1>9. file = <<n, e>>
  <2>1. gap[2] = n - 1
    <3>1. gap = <<f + 1, n - 1>>
      BY <1>5, <1>7, Zenon
    <3> QED BY <3>1
  <2> QED BY <1>6, <1>8, <2>1
<1>10. ~IsEmpty(file) /\ f <= <<x, y>>[2]
  BY <1>4, <1>9 DEF IsEmpty
<1>11. Redirection(s, <<x, y>>, f) = [kind |-> s[f], file |-> file, next |-> file[2] + 1]
  BY <1>2, <1>7, <1>8, <1>10, Zenon DEF Redirection
<1>12. file[2] = ts[k + 1][2] /\ file = ts[k + 1]
  BY <1>4, <1>9
<1> QED BY <1>1, <1>2, <1>11, <1>12 DEF Takes

Nothing(z) == [kind |-> "", file |-> NoFile, next |-> z]

\* Behind the tokens of the side there is no redirection.
LEMMA NoRedirection ==
  ASSUME NEW L \in Nat, NEW x \in 1 .. L, NEW y \in 1 .. L, NEW z \in 1 .. y + 1,
         NEW a \in Nat, NEW b \in Nat,
         NEW s, NEW ts, NEW K, Side(s, ts, K, L, x, y, z, a, b)
  PROVE  Redirection(s, <<x, y>>, z) = Nothing(z)
<1>0. Between(s, ts, K, x, y, z, a, b)
  BY SideTokens
<1>1. ~(z <= <<x, y>>[2] /\ s[z] \in {"<", ">"})
  <2>1. z = y + 1 => ~(z <= <<x, y>>[2])
    OBVIOUS
  <2>2. z = y + 1 \/ s[z] = "&"
    BY DEF Side
  <2> QED BY <2>1, <2>2
<1> QED BY <1>1, Zenon DEF Redirection, Nothing

\* The arguments: the words up to token m, which is a redirection or behind the
\* last.
Arguments(s, ts, x, y, z, a, b, m) ==
  LET text == <<ts[a][2] + 1, Begins(ts, z, b, m) - 1>>
  IN /\ Stretch(s, <<x, y>>, ts[a][2] + 1, NotSpecial) = text
     /\ <<ts[a]>> \o addArguments(s, text) = SubSeq(ts, a, m - 1)

\* The group for the arguments takes the words before the first redirection.
LEMMA ArgumentsAre ==
  ASSUME NEW L \in Nat, NEW x \in 1 .. L, NEW y \in 1 .. L, NEW z \in 1 .. y + 1,
         NEW a \in Nat, NEW b \in Nat,
         NEW s, NEW ts, NEW K, Side(s, ts, K, L, x, y, z, a, b),
         NEW m \in a + 1 .. b + 1, \A k \in a .. m - 1 : K[k] = "w",
         m = b + 1 \/ K[m] # "w"
  PROVE  Arguments(s, ts, x, y, z, a, b, m)
<1>0. Between(s, ts, K, x, y, z, a, b)
  BY SideTokens
<1>1. a <= b /\ 1 <= a
  BY DEF Side
<1>2. \A k \in a .. b : /\ ts[k][1] \in 1 .. y /\ ts[k][2] \in 1 .. y
                        /\ ts[k][1] <= ts[k][2] /\ ts[k][2] < z /\ x <= ts[k][1]
  BY <1>0 DEF Between
<1>3. \A k, l \in a .. b : k < l => ts[k][2] < ts[l][1]
  BY DEF Side
<1>4. PICK e \in 1 .. y : e = ts[a][2] /\ e < z /\ x <= e
  <2>1. a \in a .. b
    BY <1>1
  <2> QED BY <1>2, <2>1
<1>5. PICK n \in 1 .. z : n = Begins(ts, z, b, m) /\ n \in ts[m - 1][2] + 1 .. z
  <2>1. m - 1 \in a .. b /\ (m - 1) + 1 = m
    OBVIOUS
  <2>2. Begins(ts, z, b, (m - 1) + 1) \in ts[m - 1][2] + 1 .. z
    BY <1>0, <2>1 DEF Between
  <2>3. ts[m - 1][2] \in 1 .. y
    BY <1>2, <2>1
  <2>4. Begins(ts, z, b, m) \in ts[m - 1][2] + 1 .. z
    BY <2>1, <2>2
  <2> QED BY <2>3, <2>4
<1>6. \A k \in a .. m - 1 : ts[k][2] < n /\ k \in a .. b
  <2> TAKE k \in a .. m - 1
  <2>1. k \in a .. b /\ m - 1 \in a .. b
    OBVIOUS
  <2>2. ts[m - 1][2] \in 1 .. y /\ ts[k][2] \in 1 .. y /\ ts[m - 1][1] \in 1 .. y
        /\ ts[m - 1][1] <= ts[m - 1][2]
    BY <1>2, <2>1
  <2>3. ts[m - 1][2] < n
    BY <1>5, <2>2
  <2>4. CASE k = m - 1
    BY <2>1, <2>3, <2>4
  <2>5. CASE k # m - 1
    <3>1. k < m - 1
      BY <2>5
    <3>2. ts[k][2] < ts[m - 1][1]
      BY <1>3, <2>1, <3>1
    <3> QED BY <2>1, <2>2, <2>3, <3>2
  <2> QED BY <2>4, <2>5
<1>7. \A k \in m .. b : n <= ts[k][1] /\ k \in a .. b
  <2> TAKE k \in m .. b
  <2>1. k \in a .. b /\ m \in a .. b
    OBVIOUS
  <2>2. n = ts[m][1]
    BY <1>0, <1>5, <2>1 DEF Between
  <2>3. /\ ts[m][1] \in 1 .. y /\ ts[m][2] \in 1 .. y /\ ts[m][1] <= ts[m][2]
        /\ ts[k][1] \in 1 .. y
    BY <1>2, <2>1
  <2>4. CASE k = m
    BY <2>1, <2>2, <2>3, <2>4
  <2>5. CASE k # m
    <3>1. m < k
      BY <2>5
    <3>2. ts[m][2] < ts[k][1]
      BY <1>3, <2>1, <3>1
    <3> QED BY <2>1, <2>2, <2>3, <3>2
  <2> QED BY <2>4, <2>5
<1>8. e < n
  <2>1. a \in a .. m - 1
    OBVIOUS
  <2> QED BY <1>4, <1>6, <2>1
<1>9. ASSUME NEW i \in e + 1 .. n - 1
      PROVE  s[i] = " " \/ \E k \in a + 1 .. m - 1 : i \in ts[k][1] .. ts[k][2]
  <2>1. i \in x .. y /\ i # z
    BY <1>4
  <2>2. ASSUME NEW k \in a .. b, i \in ts[k][1] .. ts[k][2] PROVE k \in a + 1 .. m - 1
    <3>1. PICK f \in 1 .. y, h \in 1 .. y : f = ts[k][1] /\ h = ts[k][2]
      BY <1>2
    <3>2. f <= i /\ i <= h
      BY <2>2, <3>1
    <3>3. k # a
      BY <1>4, <3>1, <3>2
    <3>4. ~(k \in m .. b)
      <4>1. k \in m .. b => n <= f
        BY <1>7, <3>1
      <4> QED BY <3>2, <4>1
    <3> QED BY <3>3, <3>4
  <2>3. s[i] # " " => i = z \/ \E k \in a .. b : i \in ts[k][1] .. ts[k][2]
    BY <2>1 DEF Side
  <2> QED BY <2>1, <2>2, <2>3
<1>10. \A k \in a + 1 .. m - 1 : k \in a .. m - 1 /\ k \in a .. b /\ K[k] = "w" /\ a < k
  <2>1. \A k \in a + 1 .. m - 1 : k \in a .. m - 1 /\ k \in a .. b /\ a < k
    OBVIOUS
  <2> QED BY <2>1
<1>11. ASSUME NEW i \in e + 1 .. n - 1 PROVE s[i] \in NotSpecial /\ i \in 1 .. L
  <2>1. i \in 1 .. L
    OBVIOUS
  <2>2. s[i] \in Chars
    <3>1. s \in Seq(Chars) /\ DOMAIN s = 1 .. L
      BY DEF Side
    <3>2. i \in 1 .. Len(s)
      BY <2>1, <3>1, LenProperties
    <3> QED BY <3>1, <3>2, ElementOfSeq
  <2>3. s[i] # " " => s[i] \in WordChars
    <3>1. ASSUME NEW k \in a + 1 .. m - 1, i \in ts[k][1] .. ts[k][2]
          PROVE  s[i] \in WordChars
      BY <1>0, <1>10, <3>1 DEF Between
    <3> QED BY <1>9, <3>1
  <2>4. s[i] \notin Special
    <3>1. " " \notin Special
      BY OtherChars
    <3> QED BY <2>3, <3>1, OtherChars
  <2> QED BY <2>1, <2>2, <2>4 DEF NotSpecial
<1>12. n = y + 1 \/ s[n] \notin NotSpecial
  <2>1. CASE m = b + 1
    <3>1. n = z
      BY <1>0, <1>5, <2>1 DEF Between
    <3>2. "&" \in Special
      BY OtherChars
    <3>3. z = y + 1 \/ s[z] = "&"
      BY DEF Side
    <3> QED BY <3>1, <3>2, <3>3 DEF NotSpecial
  <2>2. CASE m # b + 1
    <3>1. m \in a .. b
      BY <2>2
    <3>2. n = ts[m][1] /\ s[ts[m][1]] = K[m]
      BY <1>0, <1>5, <2>2, <3>1 DEF Between
    <3>3. K[m] \in {"<", ">"}
      BY <2>2, <3>1 DEF Side
    <3>4. K[m] \in Special
      BY <3>3, OtherChars
    <3> QED BY <3>2, <3>4 DEF NotSpecial
  <2> QED BY <2>1, <2>2
<1>13. Stretch(s, <<x, y>>, e + 1, NotSpecial) = <<e + 1, n - 1>>
  <2>1. PICK i \in 1 .. y + 1, j \in Nat : i = e + 1 /\ j = n - 1 /\ j + 1 = n
    BY <1>8
  <2>2. Stops(s, NotSpecial, y, i, j)
    <3>1. j \in i - 1 .. y
      BY <1>8, <2>1
    <3>2. \A k \in i .. j : s[k] \in NotSpecial
      BY <1>11, <2>1
    <3>3. j = y \/ s[j + 1] \notin NotSpecial
      <4>1. n = y + 1 => j = y
        BY <2>1
      <4> QED BY <1>12, <2>1, <4>1
    <3> QED BY <3>1, <3>2, <3>3 DEF Stops
  <2>3. Stretch(s, <<x, y>>, i, NotSpecial) = <<i, j>>
    <3>1. y \in Nat
      OBVIOUS
    <3> QED BY <2>2, <3>1, StretchIs
  <2> QED BY <2>1, <2>3
<1> DEFINE S == {i \in e + 1 .. n - 1 : s[i] # " "}
<1>14. addArguments(s, <<e + 1, n - 1>>) = Intervals(S)
  BY DEF addArguments
<1>15. \A i : i \in S <=> i \in e + 1 .. n - 1 /\ s[i] # " "
  OBVIOUS
<1> HIDE DEF S
<1>16. S \in SUBSET (1 .. L)
  BY <1>11, <1>15
<1>17. ASSUME NEW i \in S PROVE i \in Positions(s, WordChars)
  <2>1. i \in e + 1 .. n - 1 /\ s[i] # " "
    BY <1>15
  <2>2. s[i] \in NotSpecial /\ i \in 1 .. L
    BY <1>11, <2>1
  <2>3. s[i] \in WordChars
    BY <2>1, <2>2, OtherChars DEF NotSpecial
  <2>4. DOMAIN s = 1 .. L
    BY DEF Side
  <2> QED BY <2>2, <2>3, <2>4 DEF Positions
<1>18. ASSUME NEW k \in a + 1 .. m - 1
       PROVE  /\ ts[k][1] <= ts[k][2]
              /\ \A i \in ts[k][1] .. ts[k][2] : i \in S
              /\ ts[k][1] - 1 \notin S /\ ts[k][2] + 1 \notin S
  <2>1. k \in a .. b /\ K[k] = "w"
    BY <1>10
  <2>2. PICK f \in 1 .. y, h \in 1 .. y : f = ts[k][1] /\ h = ts[k][2] /\ f <= h
    BY <1>2, <2>1
  <2>3. e < f /\ h < n
    <3>1. a \in a .. b /\ a < k
      BY <1>1
    <3>2. ts[a][2] < ts[k][1]
      BY <1>3, <2>1, <3>1
    <3> QED BY <1>4, <1>6, <1>10, <2>2, <3>2
  <2>4. ASSUME NEW i \in f .. h PROVE i \in S
    <3>1. i \in e + 1 .. n - 1
      BY <2>3
    <3>2. s[i] # " "
      BY <1>0, <2>1, <2>2 DEF Between
    <3> QED BY <1>15, <3>1, <3>2
  <2>5. f - 1 \notin S /\ h + 1 \notin S
    <3>1. f - 1 \notin Positions(s, WordChars) /\ h + 1 \notin Positions(s, WordChars)
      BY <2>1, <2>2 DEF Side
    <3> QED BY <1>17, <3>1
  <2> QED BY <2>2, <2>4, <2>5
<1>19. ASSUME NEW k \in a + 1 .. m - 1, NEW l \in a + 1 .. m - 1, k < l
       PROVE  ts[k][2] + 1 < ts[l][1]
  <2>1. k \in a .. b /\ l \in a .. b
    BY <1>10
  <2>2. PICK f \in 1 .. y, h \in 1 .. y, g \in 1 .. y :
          f = ts[k][1] /\ h = ts[k][2] /\ g = ts[l][1] /\ f <= h
    BY <1>2, <2>1
  <2>3. h < g
    BY <1>3, <1>19, <2>1, <2>2
  <2>4. h \in f .. h
    BY <2>2
  <2>5. h \in S /\ g - 1 \notin S
    BY <1>18, <2>2, <2>4
  <2>6. h # g - 1
    BY <2>5
  <2> QED BY <2>2, <2>3, <2>6
<1>20. PICK c \in Nat : c = m - 1 - a
  OBVIOUS
<1>21. PICK X : X = (1 .. L) \X (1 .. L)
  OBVIOUS
<1>22. \A k \in a .. m - 1 : ts[k] \in X
  BY <1>6, <1>21 DEF Side
<1>23. PICK J : J = [q \in 1 .. c |-> ts[a + q]]
  OBVIOUS
<1>24. \A q \in 1 .. c : a + q \in a + 1 .. m - 1 /\ a + q \in a .. m - 1
  BY <1>20
<1>25. /\ J \in Seq(X) /\ Len(J) = c
       /\ \A q \in 1 .. c : J[q] = ts[a + q]
  <2>1. \A q \in 1 .. c : ts[a + q] \in X
    BY <1>22, <1>24
  <2> QED BY <1>23, <2>1
<1>26. Tiles(J, S)
  <2>1. ASSUME NEW q \in 1 .. c
        PROVE  /\ J[q][1] <= J[q][2]
               /\ \A i \in J[q][1] .. J[q][2] : i \in S
               /\ J[q][1] - 1 \notin S /\ J[q][2] + 1 \notin S
    BY <1>18, <1>24, <1>25
  <2>2. ASSUME NEW q \in 1 .. c, NEW r \in 1 .. c, q < r PROVE J[q][2] + 1 < J[r][1]
    <3>1. a + q < a + r
      BY <2>2
    <3> QED BY <1>19, <1>24, <1>25, <3>1
  <2>3. ASSUME NEW i \in S PROVE \E q \in 1 .. c : i \in J[q][1] .. J[q][2]
    <3>1. PICK k \in a + 1 .. m - 1 : i \in ts[k][1] .. ts[k][2]
      BY <1>9, <1>15
    <3>2. PICK q \in 1 .. c : a + q = k
      <4>1. k - a \in 1 .. c /\ a + (k - a) = k
        BY <1>20
      <4> QED BY <4>1
    <3> QED BY <1>25, <3>1, <3>2
  <2> QED BY <1>25, <2>1, <2>2, <2>3 DEF Tiles
<1>27. Intervals(S) = J
  <2>1. J \in Bounded(L)
    BY <1>21, <1>25 DEF Bounded
  <2> QED BY <1>16, <1>26, <2>1, TilesAreIntervals
<1>28. PICK t : t = <<ts[a]>>
  OBVIOUS
<1>29. t \in Seq(X) /\ Len(t) = 1 /\ t[1] = ts[a]
  <2>1. a \in a .. m - 1
    OBVIOUS
  <2>2. ts[a] \in X
    BY <1>22, <2>1
  <2> QED BY <1>28, <2>2
<1>30. PICK p \in Nat : p = m - 1
  OBVIOUS
<1>31. /\ SubSeq(ts, a, p) \in Seq(X)
       /\ Len(SubSeq(ts, a, p)) = c + 1
       /\ \A i \in 1 .. c + 1 : SubSeq(ts, a, p)[i] = ts[a + i - 1]
  <2>1. \A i \in a .. p : ts[i] \in X
    BY <1>22, <1>30
  <2>2. /\ SubSeq(ts, a, p) \in Seq(X)
        /\ Len(SubSeq(ts, a, p)) = IF a <= p THEN p - a + 1 ELSE 0
        /\ \A i \in 1 .. p - a + 1 : SubSeq(ts, a, p)[i] = ts[a + i - 1]
    BY <2>1, SubSeqProperties
  <2>3. p - a + 1 = c + 1 /\ a <= p
    BY <1>20, <1>30
  <2> QED BY <2>2, <2>3
<1>32. t \o J = SubSeq(ts, a, p)
  <2>1. PICK v : v = t \o J
    OBVIOUS
  <2>2. /\ v \in Seq(X) /\ Len(v) = 1 + c
        /\ \A i \in 1 .. 1 + c : v[i] = IF i <= 1 THEN t[i] ELSE J[i - 1]
    <3>1. J \in Seq(X) /\ t \in Seq(X) /\ Len(t) = 1 /\ Len(J) = c
      BY <1>25, <1>29
    <3>2. /\ v \in Seq(X) /\ Len(v) = Len(t) + Len(J)
          /\ \A i \in 1 .. Len(t) + Len(J) :
               v[i] = IF i <= Len(t) THEN t[i] ELSE J[i - Len(t)]
      BY <2>1, <3>1, ConcatProperties
    <3> QED BY <3>1, <3>2
  <2>3. ASSUME NEW i \in 1 .. c + 1 PROVE v[i] = ts[a + i - 1]
    <3>1. CASE i = 1
      <4>1. v[i] = ts[a]
        BY <1>29, <2>2, <3>1
      <4>2. a + i - 1 = a
        BY <3>1
      <4> QED BY <4>1, <4>2
    <3>2. CASE i # 1
      <4>1. i - 1 \in 1 .. c /\ i \in 1 .. 1 + c /\ ~(i <= 1) /\ a + (i - 1) = a + i - 1
        BY <3>2
      <4>2. v[i] = J[i - 1]
        BY <2>2, <4>1
      <4> QED BY <1>25, <4>1, <4>2
    <3> QED BY <3>1, <3>2
  <2>4. Len(v) = Len(SubSeq(ts, a, p)) /\ \A i \in 1 .. Len(v) : v[i] = SubSeq(ts, a, p)[i]
    BY <1>31, <2>2, <2>3
  <2>5. v = SubSeq(ts, a, p)
    BY <1>31, <2>2, <2>4, SeqEqual
  <2> QED BY <2>1, <2>5
<1>33. Arguments(s, ts, x, y, z, a, b, m)
  <2>1. <<ts[a]>> \o addArguments(s, <<e + 1, n - 1>>) = SubSeq(ts, a, m - 1)
    BY <1>14, <1>27, <1>28, <1>30, <1>32
  <2> QED BY <1>4, <1>5, <1>13, <2>1, Zenon DEF Arguments
<1> QED BY <1>33

\* Token m is the first that is no word, or behind the last.
WordsUpTo(K, a, b, m) ==
  /\ m \in a + 1 .. b + 1
  /\ \A k \in a .. m - 1 : K[k] = "w"
  /\ m = b + 1 \/ K[m] # "w"

\* What the two groups for redirections find from token m on.
Found(s, ts, x, y, z, b, m, first, second) ==
  LET after(r) == Stretch(s, <<x, y>>, r.next, {" "})[2] + 1
  IN /\ first = Redirection(s, <<x, y>>, Begins(ts, z, b, m))
     /\ second = Redirection(s, <<x, y>>, after(first))
     /\ after(second) = z

Parsed(s, ts, x, y, z, a, m, first, second) ==
  parseCommand(s, <<x, y>>) =
    [argv |-> SubSeq(ts, a, m - 1),
     in |-> FileOf("<", first, second), out |-> FileOf(">", first, second),
     bg |-> z <= y]

\* What parseCommand makes of its groups, from what each of them matches.
LEMMA Groups ==
  ASSUME NEW L \in Nat, NEW x \in 1 .. L, NEW y \in 1 .. L, NEW z \in 1 .. y + 1,
         NEW a \in Nat, NEW b \in Nat,
         NEW s, NEW ts, NEW K, Side(s, ts, K, L, x, y, z, a, b),
         NEW m, WordsUpTo(K, a, b, m),
         NEW first, NEW second, Found(s, ts, x, y, z, b, m, first, second)
  PROVE  Parsed(s, ts, x, y, z, a, m, first, second)
<1>0. Between(s, ts, K, x, y, z, a, b)
  BY SideTokens
<1>1. a \in a .. b /\ a \in a .. m - 1 /\ K[a] = "w"
  <2>1. a \in a .. b
    <3>1. a <= b
      BY DEF Side
    <3> QED BY <3>1
  <2>2. a \in a .. m - 1
    BY DEF WordsUpTo
  <2> QED BY <2>1, <2>2 DEF WordsUpTo
<1>2. Arguments(s, ts, x, y, z, a, b, m)
  <2>1. m \in a + 1 .. b + 1 /\ \A k \in a .. m - 1 : K[k] = "w"
    BY DEF WordsUpTo
  <2>2. m = b + 1 \/ K[m] # "w"
    BY DEF WordsUpTo
  <2> QED BY <2>1, <2>2, ArgumentsAre
<1>3. PICK f \in 1 .. y, e \in 1 .. y : /\ f = ts[a][1] /\ e = ts[a][2] /\ f <= e
                                        /\ ts[a] = <<f, e>> /\ x <= f
  BY <1>0, <1>1 DEF Between
<1>4. PICK text : text = <<x, y>>
  OBVIOUS
<1>5. text[1] = x /\ text[2] = y
  BY <1>4
<1>6. PICK start : start = {i \in x .. y : s[i] \in WordChars}
  OBVIOUS
<1>7. start # {} /\ Min(start) = f
  <2>1. f \in start
    <3>1. f \in x .. y /\ f \in f .. e
      BY <1>3
    <3>2. s[f] \in WordChars
      BY <1>0, <1>1, <1>3, <3>1 DEF Between
    <3> QED BY <1>6, <3>1, <3>2
  <2>2. ASSUME NEW i \in start PROVE f <= i
    <3>1. i \in x .. y /\ s[i] \in WordChars
      BY <1>6
    <3>2. \A j \in x .. f - 1 : s[j] = " "
      BY <1>0, <1>3 DEF Between
    <3>3. ~(i \in x .. f - 1)
      BY <3>1, <3>2, OtherChars
    <3> QED BY <3>1, <3>3
  <2>3. start \in SUBSET Int
    <3>1. \A i \in x .. y : i \in Int
      OBVIOUS
    <3> QED BY <1>6, <3>1
  <2> QED BY <2>1, <2>2, <2>3, MinIs
<1>8. PICK program : program = Stretch(s, text, Min(start), WordChars)
  OBVIOUS
<1>9. program = ts[a]
  <2>1. Stretch(s, <<x, y>>, ts[a][1], WordChars) = ts[a]
    BY <1>1, WordIs
  <2> QED BY <1>3, <1>4, <1>7, <1>8, <2>1
<1>10. PICK arguments : arguments = Stretch(s, text, program[2] + 1, NotSpecial)
  OBVIOUS
<1>11. PICK n \in 1 .. z : n = Begins(ts, z, b, m)
  <2>1. m - 1 \in a .. b /\ (m - 1) + 1 = m
    BY DEF WordsUpTo
  <2>2. Begins(ts, z, b, (m - 1) + 1) \in ts[m - 1][2] + 1 .. z
    BY <1>0, <2>1 DEF Between
  <2>3. ts[m - 1][2] \in 1 .. y
    BY <1>0, <2>1 DEF Between
  <2> QED BY <2>1, <2>2, <2>3
<1>12. /\ arguments = <<e + 1, n - 1>>
       /\ <<program>> \o addArguments(s, arguments) = SubSeq(ts, a, m - 1)
  <2>1. program[2] = e
    BY <1>3, <1>9
  <2>2. arguments = <<ts[a][2] + 1, Begins(ts, z, b, m) - 1>>
    BY <1>2, <1>3, <1>4, <1>10, <2>1, Zenon DEF Arguments
  <2>3. <<ts[a]>> \o addArguments(s, arguments) = SubSeq(ts, a, m - 1)
    BY <1>2, <2>2, Zenon DEF Arguments
  <2> QED BY <1>3, <1>9, <1>11, <2>2, <2>3
<1>13. arguments[2] + 1 = n
  <2>1. arguments[2] = n - 1
    BY <1>12
  <2> QED BY <2>1
<1> DEFINE after(r) == Stretch(s, text, r.next, {" "})[2] + 1
<1>14. /\ first = Redirection(s, text, arguments[2] + 1)
       /\ second = Redirection(s, text, after(first))
       /\ after(second) = z
  BY <1>4, <1>11, <1>13, Zenon DEF Found
<1>15. start = {i \in text[1] .. text[2] : s[i] \in WordChars}
  BY <1>5, <1>6
<1>16. parseCommand(s, text) =
         [argv |-> <<program>> \o addArguments(s, arguments),
          in |-> FileOf("<", first, second), out |-> FileOf(">", first, second),
          bg |-> after(second) <= text[2] /\ s[after(second)] = "&"]
  BY <1>7, <1>8, <1>10, <1>14, <1>15, Zenon DEF parseCommand
<1> HIDE DEF after
<1>17. (after(second) <= text[2] /\ s[after(second)] = "&") = (z <= y)
  <2>1. z = y + 1 => ~(z <= y)
    OBVIOUS
  <2>2. z = y + 1 \/ s[z] = "&"
    BY DEF Side
  <2> QED BY <1>5, <1>14, <2>1, <2>2
<1> QED BY <1>4, <1>12, <1>16, <1>17, Zenon DEF Parsed

\* The file behind the last of the redirections R of a kind.
Target(ts, K, R, kind) ==
  LET S == {k \in R : K[k] = kind}
  IN IF S = {} THEN NoFile ELSE ts[Max(S) + 1]

Latest(ts, K, p, q, kind) ==
  IF K[q] = kind THEN ts[q + 1] ELSE IF K[p] = kind THEN ts[p + 1] ELSE NoFile

\* The last redirection of a kind among two.
LEMMA LastOfTwo ==
  ASSUME NEW ts, NEW K, NEW p \in Nat, NEW q \in Nat, p <= q, NEW kind
  PROVE  Target(ts, K, {p, q}, kind) = Latest(ts, K, p, q, kind)
<1> DEFINE S == {k \in {p, q} : K[k] = kind}
<1>1. \A k : k \in S <=> (k = p \/ k = q) /\ K[k] = kind
  OBVIOUS
<1>2. Target(ts, K, {p, q}, kind) = IF S = {} THEN NoFile ELSE ts[Max(S) + 1]
  BY DEF Target
<1> HIDE DEF S
<1>3. S \in SUBSET Int
  BY <1>1
<1>4. CASE K[q] = kind
  <2>1. q \in S /\ \A k \in S : k <= q
    BY <1>1, <1>4
  <2>2. Max(S) = q
    BY <1>3, <2>1, MaxIs
  <2> QED BY <1>2, <1>4, <2>1, <2>2 DEF Latest
<1>5. CASE K[q] # kind /\ K[p] = kind
  <2>1. p \in S /\ \A k \in S : k <= p
    BY <1>1, <1>5
  <2>2. Max(S) = p
    BY <1>3, <2>1, MaxIs
  <2> QED BY <1>2, <1>5, <2>1, <2>2 DEF Latest
<1>6. CASE K[q] # kind /\ K[p] # kind
  <2>1. S = {}
    BY <1>1, <1>6
  <2> QED BY <1>2, <1>6, <2>1 DEF Latest
<1> QED BY <1>4, <1>5, <1>6

\* The redirections that the two groups have room for.
AtMostTwo(R, K, a, b) ==
  /\ \A k : k \in R <=> k \in a .. b /\ K[k] # "w"
  /\ a \notin R
  /\ R = {} \/ R = {b - 1} \/ R = {b - 3, b - 1}

Gets(K, R, ts, first, second) ==
  \A kind \in {"<", ">"} : FileOf(kind, first, second) = Target(ts, K, R, kind)

\* Where each of the expression's groups matches.
GroupsMatch(s, ts, K, x, y, z, a, b, R) ==
  \E m, first, second :
    /\ WordsUpTo(K, a, b, m)
    /\ Found(s, ts, x, y, z, b, m, first, second)
    /\ \A k \in R : m <= k
    /\ m \in R \/ m = b + 1
    /\ Gets(K, R, ts, first, second)

\* The groups take the words and the redirections of a side, all of them.
LEMMA GroupsAre ==
  ASSUME NEW L \in Nat, NEW x \in 1 .. L, NEW y \in 1 .. L, NEW z \in 1 .. y + 1,
         NEW a \in Nat, NEW b \in Nat,
         NEW s, NEW ts, NEW K, Side(s, ts, K, L, x, y, z, a, b),
         NEW R, AtMostTwo(R, K, a, b)
  PROVE  GroupsMatch(s, ts, K, x, y, z, a, b, R)
<1>0. Between(s, ts, K, x, y, z, a, b)
  BY SideTokens
<1>1. a <= b /\ 1 <= a
  BY DEF Side
<1>2. \A k : k \in R <=> k \in a .. b /\ K[k] # "w"
  BY DEF AtMostTwo
<1>3. a \notin R
  BY DEF AtMostTwo
<1> DEFINE after(r) == Stretch(s, <<x, y>>, r.next, {" "})[2] + 1
<1> DEFINE none == [kind |-> "", file |-> NoFile, next |-> z]
<1> DEFINE taken(k) == [kind |-> K[k], file |-> ts[k + 1], next |-> ts[k + 1][2] + 1]
<1>4. Redirection(s, <<x, y>>, z) = none /\ Begins(ts, z, b, b + 1) = z
  <2>1. Redirection(s, <<x, y>>, z) = none
    <3>1. Redirection(s, <<x, y>>, z) = Nothing(z)
      BY NoRedirection
    <3> QED BY <3>1, Zenon DEF Nothing
  <2> QED BY <1>0, <2>1 DEF Between
<1>5. after(none) = z
  <2>1. b \in a .. b
    BY <1>1
  <2>2. Gap(s, ts, x, y, z, b, b)
    BY <2>1, GapIs
  <2>3. Stretch(s, <<x, y>>, z, {" "}) = <<z, z - 1>>
    BY <1>4, <2>2, Zenon DEF Gap
  <2>4. none.next = z
    OBVIOUS
  <2>5. PICK v : v = Stretch(s, <<x, y>>, none.next, {" "})
    OBVIOUS
  <2>6. v = <<z, z - 1>>
    BY <2>3, <2>4, <2>5, Zenon
  <2>7. v[2] + 1 = z
    BY <2>6
  <2> QED BY <2>5, <2>7
<1>6. ASSUME NEW k \in a .. b, k < b, K[k] # "w", K[k + 1] = "w"
      PROVE  /\ Redirection(s, <<x, y>>, Begins(ts, z, b, k)) = taken(k)
             /\ after(taken(k)) = Begins(ts, z, b, k + 2)
  <2>1. Takes(s, ts, K, x, y, z, b, k)
    BY <1>6, RedirectionIs
  <2>2. PICK l \in a .. b : l = k + 1 /\ l + 1 = k + 2
    BY <1>6
  <2>3. Gap(s, ts, x, y, z, b, l)
    BY GapIs
  <2>4. PICK n \in 1 .. z : n = Begins(ts, z, b, l + 1)
    <3>1. Begins(ts, z, b, l + 1) \in ts[l][2] + 1 .. z /\ ts[l][2] \in 1 .. y
      BY <1>0 DEF Between
    <3> QED BY <3>1
  <2>5. Stretch(s, <<x, y>>, ts[l][2] + 1, {" "}) = <<ts[l][2] + 1, n - 1>>
    BY <2>3, <2>4, Zenon DEF Gap
  <2>6. taken(k).next = ts[l][2] + 1
    BY <2>2
  <2>7. PICK v : v = Stretch(s, <<x, y>>, taken(k).next, {" "})
    OBVIOUS
  <2>8. v = <<ts[l][2] + 1, n - 1>>
    BY <2>5, <2>6, <2>7, Zenon
  <2>9. v[2] + 1 = n
    <3>1. v[2] = n - 1
      BY <2>8
    <3> QED BY <3>1
  <2>10. after(taken(k)) = n
    BY <2>7, <2>9
  <2> QED BY <2>1, <2>2, <2>4, <2>10 DEF Takes
<1>7. CASE R = {}
  <2>1. WordsUpTo(K, a, b, b + 1)
    <3>1. b + 1 \in a + 1 .. b + 1
      BY <1>1
    <3>2. \A k \in a .. (b + 1) - 1 : k \in a .. b
      OBVIOUS
    <3>3. \A k \in a .. (b + 1) - 1 : K[k] = "w"
      BY <1>2, <1>7, <3>2
    <3> QED BY <3>1, <3>3 DEF WordsUpTo
  <2>2. Found(s, ts, x, y, z, b, b + 1, none, none)
    BY <1>4, <1>5, Zenon DEF Found
  <2>3. Gets(K, R, ts, none, none)
    <3>1. ASSUME NEW kind \in {"<", ">"}
          PROVE  FileOf(kind, none, none) = Target(ts, K, R, kind)
      <4>1. {k \in R : K[k] = kind} = {}
        BY <1>7
      <4>2. none.kind # kind
        OBVIOUS
      <4> QED BY <4>1, <4>2 DEF FileOf, Target
    <3> QED BY <3>1 DEF Gets
  <2> QED BY <1>7, <2>1, <2>2, <2>3, Zenon DEF GroupsMatch
<1>8. CASE R = {b - 1}
  <2>1. PICK p \in a .. b : p = b - 1 /\ p < b /\ p # a /\ p + 1 = b /\ p + 2 = b + 1
    <3>1. b - 1 \in a .. b /\ b - 1 # a
      BY <1>2, <1>3, <1>8
    <3> QED BY <3>1
  <2>2. R = {p} /\ \A k \in a .. b : k # p => K[k] = "w"
    BY <1>2, <1>8, <2>1
  <2>3. K[p] # "w" /\ K[p + 1] = "w"
    <3>1. b \in a .. b /\ b # p
      BY <1>1, <2>1
    <3> QED BY <1>2, <2>1, <2>2, <3>1
  <2>4. WordsUpTo(K, a, b, p)
    <3>1. p \in a + 1 .. b + 1
      BY <2>1
    <3>2. \A k \in a .. p - 1 : k \in a .. b /\ k # p
      OBVIOUS
    <3> QED BY <2>2, <2>3, <3>1, <3>2 DEF WordsUpTo
  <2>5. /\ Redirection(s, <<x, y>>, Begins(ts, z, b, p)) = taken(p)
        /\ after(taken(p)) = z
    BY <1>4, <1>6, <2>1, <2>3
  <2>6. Found(s, ts, x, y, z, b, p, taken(p), none)
    BY <1>4, <1>5, <2>5, Zenon DEF Found
  <2>7. Gets(K, R, ts, taken(p), none)
    <3>1. ASSUME NEW kind \in {"<", ">"}
          PROVE  FileOf(kind, taken(p), none) = Target(ts, K, R, kind)
      <4>1. none.kind # kind
        OBVIOUS
      <4>2. FileOf(kind, taken(p), none) = IF K[p] = kind THEN ts[p + 1] ELSE NoFile
        BY <4>1 DEF FileOf
      <4>3. R = {p, p} /\ p \in Nat
        BY <2>1, <2>2
      <4>4. Target(ts, K, {p, p}, kind) = Latest(ts, K, p, p, kind)
        <5>1. p <= p
          BY <4>3
        <5> QED BY <4>3, <5>1, LastOfTwo
      <4> QED BY <4>2, <4>3, <4>4 DEF Latest
    <3> QED BY <3>1 DEF Gets
  <2>8. \A k \in R : p <= k
    BY <2>2
  <2> QED BY <2>2, <2>4, <2>6, <2>7, <2>8, Zenon DEF GroupsMatch
<1>9. CASE R = {b - 3, b - 1}
  <2>1. PICK p \in a .. b, q \in a .. b : /\ p = b - 3 /\ q = b - 1 /\ p < q /\ q < b
                                          /\ p # a /\ p + 2 = q /\ q + 2 = b + 1
                                          /\ p < b
    <3>1. b - 3 \in a .. b /\ b - 3 # a
      BY <1>2, <1>3, <1>9
    <3>2. b - 1 \in a .. b
      BY <3>1
    <3> QED BY <3>1, <3>2
  <2>2. R = {p, q} /\ \A k \in a .. b : k # p /\ k # q => K[k] = "w"
    BY <1>2, <1>9, <2>1
  <2>3. K[p] # "w" /\ K[p + 1] = "w" /\ K[q] # "w" /\ K[q + 1] = "w"
    <3>1. p + 1 \in a .. b /\ p + 1 # p /\ p + 1 # q
      BY <2>1
    <3>2. q + 1 \in a .. b /\ q + 1 # p /\ q + 1 # q
      BY <2>1
    <3> QED BY <1>2, <2>2, <3>1, <3>2
  <2>4. WordsUpTo(K, a, b, p)
    <3>1. p \in a + 1 .. b + 1
      BY <2>1
    <3>2. \A k \in a .. p - 1 : k \in a .. b /\ k # p /\ k # q
      BY <2>1
    <3> QED BY <2>2, <2>3, <3>1, <3>2 DEF WordsUpTo
  <2>5. /\ Redirection(s, <<x, y>>, Begins(ts, z, b, p)) = taken(p)
        /\ after(taken(p)) = Begins(ts, z, b, q)
    BY <1>6, <2>1, <2>3
  <2>6. /\ Redirection(s, <<x, y>>, Begins(ts, z, b, q)) = taken(q)
        /\ after(taken(q)) = z
    BY <1>4, <1>6, <2>1, <2>3
  <2>7. Found(s, ts, x, y, z, b, p, taken(p), taken(q))
    BY <2>5, <2>6, Zenon DEF Found
  <2>8. Gets(K, R, ts, taken(p), taken(q))
    <3>1. ASSUME NEW kind \in {"<", ">"}
          PROVE  FileOf(kind, taken(p), taken(q)) = Target(ts, K, R, kind)
      <4>1. FileOf(kind, taken(p), taken(q)) =
              IF K[q] = kind THEN ts[q + 1] ELSE IF K[p] = kind THEN ts[p + 1] ELSE NoFile
        BY DEF FileOf
      <4>2. p \in Nat /\ q \in Nat /\ p <= q
        BY <2>1
      <4>3. Target(ts, K, {p, q}, kind) = Latest(ts, K, p, q, kind)
        BY <4>2, LastOfTwo
      <4> QED BY <2>2, <4>1, <4>3 DEF Latest
    <3> QED BY <3>1 DEF Gets
  <2>9. \A k \in R : p <= k
    BY <2>1, <2>2
  <2> QED BY <2>2, <2>4, <2>7, <2>8, <2>9, Zenon DEF GroupsMatch
<1> QED BY <1>7, <1>8, <1>9 DEF AtMostTwo

\* What is run for one side of a pipe is what is meant by its tokens.
SideMatches(s, ts, K, x, y, z, st) ==
  LET c == parseCommand(s, <<x, y>>)
  IN /\ [argv |-> c.argv, in |-> c.in, out |-> c.out] = StageMeaning(ts, K, st)
     /\ c.bg = (z <= y)

\* So parseCommand runs what the tokens of its side mean.
LEMMA SideRuns ==
  ASSUME NEW L \in Nat, NEW x \in 1 .. L, NEW y \in 1 .. L, NEW z \in 1 .. y + 1,
         NEW a \in Nat, NEW b \in Nat,
         NEW s, NEW ts, NEW K, Side(s, ts, K, L, x, y, z, a, b),
         NEW st, a = st[1], b = st[2], AtMostTwo(RedirectionsIn(K, st), K, a, b)
  PROVE  SideMatches(s, ts, K, x, y, z, st)
<1>1. PICK R : R = RedirectionsIn(K, st) /\ AtMostTwo(R, K, a, b)
  OBVIOUS
<1>2. GroupsMatch(s, ts, K, x, y, z, a, b, R)
  BY <1>1, GroupsAre
<1>3. PICK m, first, second :
        /\ WordsUpTo(K, a, b, m)
        /\ Found(s, ts, x, y, z, b, m, first, second)
        /\ \A k \in R : m <= k
        /\ m \in R \/ m = b + 1
        /\ Gets(K, R, ts, first, second)
  BY <1>2, Zenon DEF GroupsMatch
<1>4. Parsed(s, ts, x, y, z, a, m, first, second)
  BY <1>3, Groups
<1>5. m \in a + 1 .. b + 1
  BY <1>3 DEF WordsUpTo
<1>6. Min(R \cup {b + 1}) = m
  <2>1. \A k : k \in R => k \in a .. b
    BY <1>1 DEF AtMostTwo
  <2>2. PICK S : S = R \cup {b + 1}
    OBVIOUS
  <2>3. S \in SUBSET Int
    <3>1. \A k \in a .. b : k \in Int
      OBVIOUS
    <3> QED BY <2>1, <2>2, <3>1
  <2>4. m \in S /\ \A k \in S : m <= k
    BY <1>3, <1>5, <2>2
  <2> QED BY <2>2, <2>3, <2>4, MinIs
<1>7. PICK sense : sense = StageMeaning(ts, K, st)
  OBVIOUS
<1>8. /\ sense.argv = SubSeq(ts, a, m - 1)
      /\ sense.in = Target(ts, K, R, "<") /\ sense.out = Target(ts, K, R, ">")
      /\ sense = [argv |-> sense.argv, in |-> sense.in, out |-> sense.out]
  <2>1. sense = [argv |-> SubSeq(ts, a, Min(R \cup {b + 1}) - 1),
                 in |-> Target(ts, K, R, "<"), out |-> Target(ts, K, R, ">")]
    BY <1>1, <1>7, Zenon DEF StageMeaning, Target
  <2>2. sense = [argv |-> SubSeq(ts, a, m - 1),
                 in |-> Target(ts, K, R, "<"), out |-> Target(ts, K, R, ">")]
    BY <1>6, <2>1, Zenon
  <2> QED BY <2>2, Zenon
<1>9. PICK c : c = parseCommand(s, <<x, y>>)
  OBVIOUS
<1>10. /\ c.argv = SubSeq(ts, a, m - 1)
       /\ c.in = FileOf("<", first, second) /\ c.out = FileOf(">", first, second)
       /\ c.bg = (z <= y)
  <2>1. PICK bg : bg = (z <= y)
    OBVIOUS
  <2>2. c = [argv |-> SubSeq(ts, a, m - 1), in |-> FileOf("<", first, second),
             out |-> FileOf(">", first, second), bg |-> bg]
    BY <1>4, <1>9, <2>1, Zenon DEF Parsed
  <2> QED BY <2>1, <2>2, Zenon
<1>11. c.in = Target(ts, K, R, "<") /\ c.out = Target(ts, K, R, ">")
  BY <1>3, <1>10, Zenon DEF Gets
<1>12. [argv |-> c.argv, in |-> c.in, out |-> c.out] = sense
  BY <1>8, <1>10, <1>11, Zenon
<1> QED BY <1>7, <1>9, <1>10, <1>12, Zenon DEF SideMatches

\* A well formed stage alternates redirections and files from the first
\* redirection on, so that two of them have only one place.
LEMMA RedirectionsAre ==
  ASSUME NEW a \in Nat, NEW b \in Nat, a <= b, NEW K, NEW st, st = <<a, b>>,
         StageWellFormed(K, st), Cardinality(RedirectionsIn(K, st)) <= 2
  PROVE  AtMostTwo(RedirectionsIn(K, st), K, a, b)
<1>1. PICK R : R = RedirectionsIn(K, st)
  OBVIOUS
<1>2. st[1] = a /\ st[2] = b
  OBVIOUS
<1>3. \A k : k \in R <=> k \in a .. b /\ K[k] \in {"<", ">"}
  BY <1>1, <1>2 DEF RedirectionsIn
<1>4. PICK m : m = Min(R \cup {b})
  OBVIOUS
<1>5. /\ R = {k \in m .. b - 1 : (b - k) % 2 = 1} \/ R = {}
      /\ \A k \in (a .. b) \ R : K[k] = "w"
      /\ a \notin R
  BY <1>1, <1>2, <1>4 DEF StageWellFormed
<1>6. \A k : k \in R <=> k \in a .. b /\ K[k] # "w"
  BY <1>3, <1>5
<1>7. ASSUME R # {} PROVE R = {b - 1} \/ R = {b - 3, b - 1}
  <2>1. \A k : k \in R => k \in a .. b /\ k \in Nat
    <3>1. \A k \in a .. b : k \in Nat
      OBVIOUS
    <3> QED BY <1>3, <3>1
  <2>2. m \in R \cup {b} /\ m \in Nat
    <3>1. R \cup {b} \in SUBSET Nat /\ R \cup {b} # {}
      BY <2>1
    <3>2. PICK S : S = R \cup {b}
      OBVIOUS
    <3>3. Min(S) \in S /\ S \in SUBSET Nat
      BY <3>1, <3>2, MinFacts
    <3> QED BY <1>4, <3>2, <3>3
  <2>3. \A k : k \in R <=> k \in m .. b - 1 /\ (b - k) % 2 = 1
    BY <1>5, <1>7
  <2>4. m \in R /\ m \in m .. b - 1 /\ (b - m) % 2 = 1
    <3>1. PICK r \in R : r \in m .. b - 1
      BY <1>7, <2>3
    <3>2. m # b
      BY <2>2, <3>1
    <3> QED BY <2>2, <2>3, <3>2
  <2>5. b - 1 \in R
    <3>1. b - 1 \in m .. b - 1 /\ (b - (b - 1)) % 2 = 1
      BY <2>2, <2>4
    <3> QED BY <2>3, <3>1
  <2>6. ASSUME NEW k \in R
        PROVE  k = b - 1 \/ k = b - 3 \/ k < b - 3
    <3>1. k \in m .. b - 1 /\ (b - k) % 2 = 1
      BY <2>3
    <3>2. k # b - 2
      <4>1. k = b - 2 => (b - k) % 2 = 0
        BY <2>2
      <4> QED BY <3>1, <4>1
    <3> QED BY <2>2, <3>1, <3>2
  <2>7. \A k \in R : m <= k
    BY <2>2, <2>3
  <2>8. CASE m = b - 1
    <3>1. \A k \in R : k = b - 1
      BY <2>2, <2>6, <2>7, <2>8
    <3> QED BY <2>5, <3>1
  <2>9. CASE m = b - 3
    <3>1. \A k \in R : k = b - 1 \/ k = b - 3
      BY <2>2, <2>6, <2>7, <2>9
    <3> QED BY <2>4, <2>5, <2>9, <3>1
  <2>10. ASSUME m < b - 3 PROVE FALSE
    <3>1. b - 3 \in R
      <4>1. b - 3 \in m .. b - 1 /\ (b - (b - 3)) % 2 = 1
        BY <2>2, <2>10
      <4> QED BY <2>3, <4>1
    <3>2. IsFiniteSet(R) /\ Cardinality(R) \in Nat
      <4>1. R \in SUBSET (1 .. b)
        <5>1. \A k \in R : k \in 1 .. b
          <6>1. \A k \in R : k # 0
            <7>1. \A k \in R : k \in a .. b /\ k # a
              BY <1>5, <2>1
            <7> QED BY <7>1
          <6> QED BY <2>1, <6>1
        <5> QED BY <5>1
      <4> QED BY <4>1, SubsetsFinite
    <3>3. PICK p, q, r : p = m /\ q = b - 3 /\ r = b - 1 /\ p # q /\ p # r /\ q # r
      BY <2>2, <2>10
    <3>4. {p} \in SUBSET R /\ {p, q} \in SUBSET R /\ {p, q, r} \in SUBSET R
      BY <2>4, <2>5, <3>1, <3>3
    <3>5. Cardinality({p}) = 1 /\ IsFiniteSet({p})
      BY FS_Singleton
    <3>6. IsFiniteSet({p, q}) /\ IsFiniteSet({p, q, r})
      BY <3>2, <3>4, FS_Subset
    <3>7. Cardinality({p}) < Cardinality({p, q}) /\ Cardinality({p, q}) \in Nat
      <4>1. {p} \in SUBSET {p, q} /\ q \in {p, q} /\ q \notin {p}
        BY <3>3
      <4> QED BY <3>6, <4>1, CardinalityGrows
    <3>8. Cardinality({p, q}) < Cardinality({p, q, r}) /\ Cardinality({p, q, r}) \in Nat
      <4>1. {p, q} \in SUBSET {p, q, r} /\ r \in {p, q, r} /\ r \notin {p, q}
        BY <3>3
      <4> QED BY <3>6, <4>1, CardinalityGrows
    <3>9. Cardinality({p, q, r}) <= Cardinality(R)
      BY <3>2, <3>4, FS_Subset
    <3> QED BY <1>1, <3>2, <3>5, <3>7, <3>8, <3>9
  <2> QED BY <2>2, <2>4, <2>6, <2>8, <2>9, <2>10
<1> QED BY <1>1, <1>5, <1>6, <1>7 DEF AtMostTwo

\* The tokens 1 .. b of a well formed line: words, "|" and redirections, and
\* then z, the "&" at the end or the end itself.
Body(s, ts, K, L, b, z) ==
  /\ s \in Seq(Chars) /\ DOMAIN s = 1 .. L
  /\ z = L + 1 \/ s[z] = "&"
  /\ \A k \in 1 .. b :
       /\ ts[k] \in (1 .. L) \X (1 .. L) /\ ts[k][1] <= ts[k][2] /\ ts[k][2] < z
       /\ K[k] = "w" =>
            /\ \A i \in ts[k][1] .. ts[k][2] : i \in Positions(s, WordChars)
            /\ ts[k][1] - 1 \notin Positions(s, WordChars)
            /\ ts[k][2] + 1 \notin Positions(s, WordChars)
       /\ K[k] # "w" => /\ K[k] \in {"|", "<", ">"} /\ s[ts[k][1]] = K[k]
                        /\ ts[k][1] = ts[k][2]
  /\ \A k, l \in 1 .. b : k < l => ts[k][2] < ts[l][1]
  /\ \A i \in 1 .. L : s[i] # " " => i = z \/ \E k \in 1 .. b : i \in ts[k][1] .. ts[k][2]

\* What follows the tokens 1 .. b.
Behind(K, L, b, z) ==
  /\ (z <= L) = InBackground(K)
  /\ StageTokens(K) = {k \in 1 .. b : K[k] # "|"}

\* A token ends before the next one begins.
LEMMA TokensApart ==
  ASSUME NEW L \in Nat, NEW Q \in Nat, NEW s, NEW ts, Tokenised(s, ts, L, Q),
         NEW k \in 1 .. Q, NEW l \in 1 .. Q, k < l
  PROVE  ts[k][2] < ts[l][1]
<1>1. PICK f \in 1 .. L, e \in 1 .. L, g \in 1 .. L :
        f = ts[k][1] /\ e = ts[k][2] /\ g = ts[l][1] /\ f <= e /\ f < g
  <2>1. /\ ts[k] \in (1 .. L) \X (1 .. L) /\ ts[l] \in (1 .. L) \X (1 .. L)
        /\ ts[k][1] <= ts[k][2]
    BY DEF Tokenised
  <2>2. ts[k][1] < ts[l][1]
    BY DEF Tokenised
  <2> QED BY <2>1, <2>2
<1>2. CASE s[f] \in Special
  <2>1. e = f
    BY <1>1, <1>2 DEF Tokenised
  <2> QED BY <1>1, <2>1
<1>3. CASE s[f] \notin Special
  <2> SUFFICES ASSUME ~(e < g) PROVE FALSE
    BY <1>1
  <2>1. \A i \in f .. e : i \in Positions(s, WordChars)
    BY <1>1, <1>3 DEF Tokenised
  <2>2. g \in f .. e /\ g - 1 \in f .. e
    BY <1>1
  <2>3. s[g] \notin Special
    <3>1. s[g] \in WordChars
      BY <2>1, <2>2 DEF Positions
    <3> QED BY <3>1, OtherChars
  <2>4. g - 1 \notin Positions(s, WordChars)
    BY <1>1, <2>3 DEF Tokenised
  <2> QED BY <2>1, <2>2, <2>4
<1> QED BY <1>2, <1>3

\* A well formed line is tokens, and an "&" or nothing behind them.
LEMMA BodyIs ==
  ASSUME NEW s \in Seq(Chars), WellFormed(s)
  PROVE  \E b \in 0 .. Len(Tokens(s)), z \in 1 .. Len(s) + 1 :
           /\ Body(s, Tokens(s), Kinds(s), Len(s), b, z)
           /\ Behind(Kinds(s), Len(s), b, z)
<1>1. PICK L \in Nat, Q \in Nat : L = Len(s) /\ DOMAIN s = 1 .. L /\ Q = Len(Tokens(s))
  BY TokensAre, LenProperties
<1>2. PICK ts : ts = Tokens(s)
  OBVIOUS
<1>3. PICK K : K = Kinds(s)
  OBVIOUS
<1>4. /\ Len(K) = Q /\ DOMAIN K = 1 .. Q
      /\ \A k \in 1 .. Q : /\ s[ts[k][1]] \in Special => K[k] = s[ts[k][1]]
                           /\ s[ts[k][1]] \notin Special => K[k] = "w"
                           /\ K[k] = "&" => k = Q
  BY <1>1, <1>2, <1>3, KindsAre, WellFormedIs
<1>5. Tokenised(s, ts, L, Q)
  BY <1>1, <1>2, TokensAre
<1>6. DOMAIN ts = 1 .. Q /\ Len(ts) = Q
  BY <1>5 DEF Tokenised
<1>7. \A k \in 1 .. Q : /\ ts[k] \in (1 .. L) \X (1 .. L)
                        /\ ts[k][1] \in 1 .. L /\ ts[k][2] \in 1 .. L
                        /\ ts[k][1] <= ts[k][2]
  <2> TAKE k \in 1 .. Q
  <2>1. ts[k] \in (1 .. L) \X (1 .. L) /\ ts[k][1] <= ts[k][2]
    BY <1>5 DEF Tokenised
  <2> QED BY <2>1
<1>8. \A k, l \in 1 .. Q : k < l => ts[k][2] < ts[l][1]
  BY <1>5, TokensApart
<1>9. ASSUME NEW k \in 1 .. Q, K[k] = "w"
      PROVE  /\ \A i \in ts[k][1] .. ts[k][2] : i \in Positions(s, WordChars)
             /\ ts[k][1] - 1 \notin Positions(s, WordChars)
             /\ ts[k][2] + 1 \notin Positions(s, WordChars)
  <2>1. s[ts[k][1]] \notin Special
    <3>1. "w" \notin Special
      BY DEF Special
    <3> QED BY <1>4, <1>9, <3>1
  <2> QED BY <1>5, <2>1 DEF Tokenised
<1>10. ASSUME NEW k \in 1 .. Q, K[k] # "w"
       PROVE  /\ K[k] \in {"|", "&", "<", ">"} /\ s[ts[k][1]] = K[k]
              /\ ts[k][1] = ts[k][2]
  <2>1. s[ts[k][1]] \in Special
    BY <1>4, <1>10
  <2>2. ts[k][1] = ts[k][2]
    BY <1>5, <2>1 DEF Tokenised
  <2> QED BY <1>4, <2>1, <2>2 DEF Special
<1>11. \A i \in 1 .. L : s[i] # " " => \E k \in 1 .. Q : i \in ts[k][1] .. ts[k][2]
  BY <1>5 DEF Tokenised
<1>12. \A k : k \in StageTokens(K) <=> k \in 1 .. Q /\ K[k] # "|" /\ (K[k] = "&" => k < Q)
  BY <1>4 DEF StageTokens
<1>13. InBackground(K) <=> Q # 0 /\ K[Q] = "&"
  <2>1. K = <<>> <=> Q = 0
    <3>1. K = <<>> => Q = 0
      BY <1>4
    <3>2. Q = 0 => K = <<>>
      <4>1. K = [k \in 1 .. Q |-> IF s[ts[k][1]] \in Special THEN s[ts[k][1]] ELSE "w"]
        BY <1>2, <1>3, <1>6 DEF Kinds
      <4>2. Q = 0 => 1 .. Q = {}
        OBVIOUS
      <4> QED BY <4>1, <4>2
    <3> QED BY <3>1, <3>2
  <2> QED BY <1>4, <2>1 DEF InBackground, Last
<1>14. CASE Q # 0 /\ K[Q] = "&"
  <2>1. PICK b \in 0 .. Q : b = Q - 1
    BY <1>14
  <2>2. Q \in 1 .. Q /\ \A k \in 1 .. b : k \in 1 .. Q /\ k < Q
    BY <1>14, <2>1
  <2>3. PICK z \in 1 .. L + 1 : z = ts[Q][1] /\ z \in 1 .. L
    <3>1. \A z \in 1 .. L : z \in 1 .. L + 1
      OBVIOUS
    <3> QED BY <1>7, <2>2, <3>1
  <2>4. s[z] = "&" /\ ts[Q][2] = z
    <3>1. K[Q] # "w"
      BY <1>14
    <3> QED BY <1>10, <1>14, <2>2, <2>3, <3>1
  <2>5. \A k \in 1 .. b : ts[k][2] < z
    BY <1>8, <2>2, <2>3
  <2>6. \A k \in 1 .. b : K[k] # "&"
    <3> TAKE k \in 1 .. b
    <3>1. k \in 1 .. Q /\ k # Q
      BY <2>2
    <3> QED BY <1>4, <3>1
  <2>7. ASSUME NEW i \in 1 .. L, s[i] # " "
        PROVE  i = z \/ \E k \in 1 .. b : i \in ts[k][1] .. ts[k][2]
    <3>1. PICK k \in 1 .. Q : i \in ts[k][1] .. ts[k][2]
      BY <1>11, <2>7
    <3>2. CASE k = Q
      <4>1. i \in z .. z
        BY <2>3, <2>4, <3>1, <3>2
      <4> QED BY <4>1
    <3>3. CASE k # Q
      <4>1. k \in 1 .. b
        BY <2>1, <3>3
      <4> QED BY <3>1, <4>1
    <3> QED BY <3>2, <3>3
  <2>8. Body(s, ts, K, L, b, z)
    <3>1. ASSUME NEW k \in 1 .. b
          PROVE  /\ K[k] # "w" => /\ K[k] \in {"|", "<", ">"} /\ s[ts[k][1]] = K[k]
                                  /\ ts[k][1] = ts[k][2]
                 /\ K[k] = "w" =>
                      /\ \A i \in ts[k][1] .. ts[k][2] : i \in Positions(s, WordChars)
                      /\ ts[k][1] - 1 \notin Positions(s, WordChars)
                      /\ ts[k][2] + 1 \notin Positions(s, WordChars)
      BY <1>9, <1>10, <2>2, <2>6
    <3>2. \A k \in 1 .. b : ts[k] \in (1 .. L) \X (1 .. L) /\ ts[k][1] <= ts[k][2]
      BY <1>7, <2>2
    <3>3. \A k, l \in 1 .. b : k < l => ts[k][2] < ts[l][1]
      BY <1>8, <2>2
    <3> QED BY <1>1, <2>4, <2>5, <2>7, <3>1, <3>2, <3>3 DEF Body
  <2>9. Behind(K, L, b, z)
    <3>1. z <= L
      BY <2>3
    <3>2. \A k : k \in 1 .. b <=> k \in 1 .. Q /\ k < Q
      BY <2>1
    <3>3. StageTokens(K) = {k \in 1 .. b : K[k] # "|"}
      <4>1. \A k \in 1 .. Q : (K[k] = "&" => k < Q) <=> k < Q
        <5> TAKE k \in 1 .. Q
        <5>1. k < Q \/ k = Q
          OBVIOUS
        <5>2. k = Q => ~(k < Q)
          OBVIOUS
        <5> QED BY <1>14, <5>1, <5>2
      <4> QED BY <1>12, <3>2, <4>1
    <3> QED BY <1>13, <1>14, <3>1, <3>3 DEF Behind
  <2> QED BY <1>1, <1>2, <1>3, <2>8, <2>9
<1>15. CASE ~(Q # 0 /\ K[Q] = "&")
  <2>1. Q \in 0 .. Q /\ L + 1 \in 1 .. L + 1
    OBVIOUS
  <2>2. ASSUME NEW k \in 1 .. Q PROVE ts[k][2] < L + 1 /\ K[k] # "&"
    <3>1. ts[k][2] < L + 1
      BY <1>7
    <3>2. k = Q => Q # 0
      OBVIOUS
    <3>3. K[k] # "&"
      BY <1>4, <1>15, <3>2
    <3> QED BY <3>1, <3>3
  <2>3. ASSUME NEW k \in 1 .. Q
        PROVE  /\ K[k] # "w" => /\ K[k] \in {"|", "<", ">"} /\ s[ts[k][1]] = K[k]
                                /\ ts[k][1] = ts[k][2]
               /\ K[k] = "w" =>
                    /\ \A i \in ts[k][1] .. ts[k][2] : i \in Positions(s, WordChars)
                    /\ ts[k][1] - 1 \notin Positions(s, WordChars)
                    /\ ts[k][2] + 1 \notin Positions(s, WordChars)
    BY <1>9, <1>10, <2>2
  <2>4. Body(s, ts, K, L, Q, L + 1)
    BY <1>1, <1>7, <1>8, <1>11, <2>2, <2>3 DEF Body
  <2>5. Behind(K, L, Q, L + 1)
    <3>1. PICK z \in 1 .. L + 1 : z = L + 1
      BY <2>1
    <3>2. ~(z <= L)
      BY <3>1
    <3>3. StageTokens(K) = {k \in 1 .. Q : K[k] # "|"}
      <4>1. ASSUME NEW k \in 1 .. Q PROVE K[k] = "&" => k < Q
        BY <2>2
      <4> QED BY <1>12, <4>1
    <3>4. (z <= L) = InBackground(K)
      <4>1. InBackground(K) = FALSE
        <5>1. ~InBackground(K) /\ InBackground(K) \in BOOLEAN
          BY <1>13, <1>15 DEF InBackground
        <5> QED BY <5>1
      <4>2. (z <= L) = FALSE
        BY <3>2
      <4> QED BY <4>1, <4>2, Zenon
    <3> QED BY <3>1, <3>3, <3>4 DEF Behind
  <2> QED BY <1>1, <1>2, <1>3, <2>1, <2>4, <2>5
<1> QED BY <1>14, <1>15

\* The tokens a .. c are those of the text x .. y up to w.
Within(s, ts, K, x, y, w, a, c) ==
  /\ w = y + 1 \/ s[w] = "&"
  /\ \A k \in a .. c : K[k] # "|" /\ x <= ts[k][1] /\ ts[k][2] < w
  /\ \A i \in x .. y : s[i] # " " => i = w \/ \E k \in a .. c : i \in ts[k][1] .. ts[k][2]

\* A text with tokens of the line in it, and no "|", is a side.
LEMMA SideIs ==
  ASSUME NEW L \in Nat, NEW b \in Nat, NEW z \in 1 .. L + 1,
         NEW s, NEW ts, NEW K, Body(s, ts, K, L, b, z),
         NEW x \in 1 .. L, NEW y \in 1 .. L, NEW w \in 1 .. y + 1,
         NEW a \in 1 .. b, NEW c \in a .. b, Within(s, ts, K, x, y, w, a, c)
  PROVE  Side(s, ts, K, L, x, y, w, a, c)
<1>1. a \in Nat /\ c \in Nat /\ 1 <= a /\ a <= c
  OBVIOUS
<1>2. \A k \in a .. c : k \in 1 .. b
  OBVIOUS
<1>3. w = y + 1 \/ s[w] = "&"
  BY DEF Within
<1>4. ASSUME NEW k \in a .. c
      PROVE  /\ ts[k] \in (1 .. L) \X (1 .. L) /\ ts[k][1] <= ts[k][2]
             /\ x <= ts[k][1] /\ ts[k][2] < w
             /\ K[k] = "w" =>
                  /\ \A i \in ts[k][1] .. ts[k][2] : i \in Positions(s, WordChars)
                  /\ ts[k][1] - 1 \notin Positions(s, WordChars)
                  /\ ts[k][2] + 1 \notin Positions(s, WordChars)
             /\ K[k] # "w" => /\ K[k] \in {"<", ">"} /\ s[ts[k][1]] = K[k]
                              /\ ts[k][1] = ts[k][2]
  <2>1. K[k] # "|" /\ x <= ts[k][1] /\ ts[k][2] < w
    BY DEF Within
  <2>2. /\ ts[k] \in (1 .. L) \X (1 .. L) /\ ts[k][1] <= ts[k][2]
        /\ K[k] = "w" =>
             /\ \A i \in ts[k][1] .. ts[k][2] : i \in Positions(s, WordChars)
             /\ ts[k][1] - 1 \notin Positions(s, WordChars)
             /\ ts[k][2] + 1 \notin Positions(s, WordChars)
        /\ K[k] # "w" => /\ K[k] \in {"|", "<", ">"} /\ s[ts[k][1]] = K[k]
                         /\ ts[k][1] = ts[k][2]
    BY <1>2 DEF Body
  <2> QED BY <2>1, <2>2
<1>5. \A k, l \in a .. c : k < l => ts[k][2] < ts[l][1]
  BY <1>2 DEF Body
<1>6. \A i \in x .. y : s[i] # " " => i = w \/ \E k \in a .. c : i \in ts[k][1] .. ts[k][2]
  BY DEF Within
<1>7. s \in Seq(Chars) /\ DOMAIN s = 1 .. L
  BY DEF Body
<1> QED BY <1>1, <1>3, <1>4, <1>5, <1>6, <1>7, Zenon DEF Side

\* Without a "|" there is one side, the line.
LEMMA WholeSide ==
  ASSUME NEW L \in Nat, NEW b \in Nat, b # 0, NEW z \in 1 .. L + 1,
         NEW s, NEW ts, NEW K, Body(s, ts, K, L, b, z),
         \A k \in 1 .. b : K[k] # "|"
  PROVE  L # 0 /\ Side(s, ts, K, L, 1, L, z, 1, b)
<1>1. 1 \in 1 .. b /\ b \in 1 .. b
  OBVIOUS
<1>2. 1 \in 1 .. L /\ L \in 1 .. L
  <2>1. ts[1] \in (1 .. L) \X (1 .. L)
    BY <1>1 DEF Body
  <2>2. ts[1][1] \in 1 .. L
    BY <2>1
  <2> QED BY <2>2
<1>3. \A k \in 1 .. b : 1 <= ts[k][1] /\ ts[k][2] < z
  <2> TAKE k \in 1 .. b
  <2>1. ts[k] \in (1 .. L) \X (1 .. L) /\ ts[k][2] < z
    BY DEF Body
  <2>2. ts[k][1] \in 1 .. L
    BY <2>1
  <2> QED BY <2>1, <2>2
<1>4. \A i \in 1 .. L : s[i] # " " => i = z \/ \E k \in 1 .. b : i \in ts[k][1] .. ts[k][2]
  BY DEF Body
<1>5. z = L + 1 \/ s[z] = "&"
  BY DEF Body
<1>6. Within(s, ts, K, 1, L, z, 1, b)
  BY <1>3, <1>4, <1>5 DEF Within
<1>7. Side(s, ts, K, L, 1, L, z, 1, b)
  BY <1>1, <1>2, <1>6, SideIs
<1> QED BY <1>2, <1>7

\* The sides of the only "|", token t at p.
Halves(s, ts, K, L, b, z, t, p) ==
  /\ p - 1 \in 1 .. L /\ p + 1 \in 1 .. L /\ ts[t] = <<p, p>>
  /\ Side(s, ts, K, L, 1, p - 1, p, 1, t - 1)
  /\ Side(s, ts, K, L, p + 1, L, z, t + 1, b)

\* With one "|" there are two sides.
LEMMA TwoSides ==
  ASSUME NEW L \in Nat, NEW b \in Nat, NEW z \in 1 .. L + 1,
         NEW s, NEW ts, NEW K, Body(s, ts, K, L, b, z),
         NEW t \in 2 .. b - 1, K[t] = "|", \A k \in 1 .. b : K[k] = "|" => k = t
  PROVE  \E p \in 1 .. L : Halves(s, ts, K, L, b, z, t, p)
<1>1. ASSUME NEW k \in 1 .. b
      PROVE  /\ ts[k] \in (1 .. L) \X (1 .. L) /\ ts[k][1] \in 1 .. L
             /\ ts[k][2] \in 1 .. L /\ ts[k][1] <= ts[k][2] /\ ts[k][2] < z
             /\ ts[k] = <<ts[k][1], ts[k][2]>>
  <2>1. ts[k] \in (1 .. L) \X (1 .. L) /\ ts[k][1] <= ts[k][2] /\ ts[k][2] < z
    BY DEF Body
  <2> QED BY <2>1
<1>2. \A k, l \in 1 .. b : k < l => ts[k][2] < ts[l][1]
  BY DEF Body
<1>3. t \in 1 .. b /\ t - 1 \in 1 .. b /\ t + 1 \in 1 .. b /\ 1 \in 1 .. b
  OBVIOUS
<1>4. PICK p \in 1 .. L : p = ts[t][1] /\ p = ts[t][2] /\ ts[t] = <<p, p>>
  <2>1. K[t] # "w" => ts[t][1] = ts[t][2]
    BY <1>3 DEF Body
  <2> QED BY <1>1, <1>3, <2>1
<1>5. ASSUME NEW k \in 1 .. b, k < t PROVE ts[k][2] < p
  BY <1>2, <1>3, <1>4, <1>5
<1>6. ASSUME NEW k \in 1 .. b, t < k PROVE p < ts[k][1]
  BY <1>2, <1>3, <1>4, <1>6
<1>7. PICK u \in 1 .. L, v \in 1 .. L : u = p - 1 /\ v = p + 1
  <2>1. ts[t - 1][2] < p /\ ts[t - 1][2] \in 1 .. L
    BY <1>1, <1>3, <1>5
  <2>2. p < ts[t + 1][1] /\ ts[t + 1][1] \in 1 .. L
    BY <1>1, <1>3, <1>6
  <2> QED BY <2>1, <2>2
<1>8. p < z
  BY <1>1, <1>3, <1>4
<1>9. \A i \in 1 .. L : s[i] # " " => i = z \/ \E k \in 1 .. b : i \in ts[k][1] .. ts[k][2]
  BY DEF Body
<1>10. z = L + 1 \/ s[z] = "&"
  BY DEF Body
<1>11. PICK c \in 1 .. b, d \in 1 .. b : c = t - 1 /\ d = t + 1
  BY <1>3
<1>12. Within(s, ts, K, 1, u, p, 1, c)
  <2>1. ASSUME NEW k \in 1 .. c PROVE K[k] # "|" /\ 1 <= ts[k][1] /\ ts[k][2] < p
    <3>1. k \in 1 .. b /\ k < t /\ k # t
      BY <1>11
    <3> QED BY <1>1, <1>5, <3>1
  <2>2. ASSUME NEW i \in 1 .. u, s[i] # " "
        PROVE  \E k \in 1 .. c : i \in ts[k][1] .. ts[k][2]
    <3>1. i \in 1 .. L /\ i # z /\ i < p
      BY <1>7, <1>8
    <3>2. PICK k \in 1 .. b : i \in ts[k][1] .. ts[k][2]
      BY <1>9, <2>2, <3>1
    <3>3. k # t
      <4>1. k = t => i \in p .. p
        BY <1>4, <3>2
      <4>2. ~(i \in p .. p)
        BY <3>1
      <4> QED BY <4>1, <4>2
    <3>4. ~(t < k)
      BY <1>1, <1>6, <3>1, <3>2
    <3>5. k \in 1 .. c
      BY <1>11, <3>3, <3>4
    <3> QED BY <3>2, <3>5
  <2>3. p = u + 1
    BY <1>7
  <2> QED BY <2>1, <2>2, <2>3 DEF Within
<1>13. Within(s, ts, K, v, L, z, d, b)
  <2>1. ASSUME NEW k \in d .. b PROVE K[k] # "|" /\ v <= ts[k][1] /\ ts[k][2] < z
    <3>1. k \in 1 .. b /\ t < k /\ k # t
      BY <1>11
    <3>2. p < ts[k][1] /\ ts[k][1] \in 1 .. L
      BY <1>1, <1>6, <3>1
    <3>3. v <= ts[k][1]
      BY <1>7, <3>2
    <3> QED BY <1>1, <3>1, <3>3
  <2>2. ASSUME NEW i \in v .. L, s[i] # " "
        PROVE  i = z \/ \E k \in d .. b : i \in ts[k][1] .. ts[k][2]
    <3> SUFFICES ASSUME i # z PROVE \E k \in d .. b : i \in ts[k][1] .. ts[k][2]
      OBVIOUS
    <3>1. i \in 1 .. L /\ p < i
      BY <1>7
    <3>2. PICK k \in 1 .. b : i \in ts[k][1] .. ts[k][2]
      BY <1>9, <2>2, <3>1
    <3>3. k # t
      <4>1. k = t => i \in p .. p
        BY <1>4, <3>2
      <4>2. ~(i \in p .. p)
        BY <3>1
      <4> QED BY <4>1, <4>2
    <3>4. ~(k < t)
      BY <1>1, <1>5, <3>1, <3>2
    <3>5. k \in d .. b
      BY <1>11, <3>3, <3>4
    <3> QED BY <3>2, <3>5
  <2> QED BY <1>10, <2>1, <2>2 DEF Within
<1>14. Side(s, ts, K, L, 1, u, p, 1, c)
  <2>1. 1 \in 1 .. L /\ p \in 1 .. u + 1 /\ 1 \in 1 .. b /\ c \in 1 .. b
    BY <1>3, <1>7
  <2> QED BY <1>12, <2>1, SideIs
<1>15. Side(s, ts, K, L, v, L, z, d, b)
  <2>1. L \in 1 .. L /\ b \in d .. b
    BY <1>11
  <2> QED BY <1>13, <2>1, SideIs
<1> QED BY <1>4, <1>7, <1>11, <1>14, <1>15 DEF Halves

-----------------------------------------------------------------------------
(* The stages, and the sides of the pipe.                                  *)

\* A single interval of 1 .. b is all of it.
LEMMA OneInterval ==
  ASSUME NEW b \in Nat, Len(Intervals(1 .. b)) = 1
  PROVE  b # 0 /\ Intervals(1 .. b) = <<<<1, b>>>>
<1>1. PICK I : I = Intervals(1 .. b)
  OBVIOUS
<1>2. I \in Bounded(b) /\ Tiles(I, 1 .. b)
  <2>1. 1 .. b \in SUBSET (1 .. b)
    OBVIOUS
  <2> QED BY <1>1, <2>1, IntervalsTile
<1>3. I \in [1 .. 1 -> (1 .. b) \X (1 .. b)]
  BY <1>1, <1>2, LenProperties DEF Bounded
<1>4. PICK f \in 1 .. b, e \in 1 .. b : I[1] = <<f, e>>
  <2>1. I[1] \in (1 .. b) \X (1 .. b)
    BY <1>3
  <2> QED BY <2>1
<1>5. I[1][1] = f /\ I[1][2] = e
  BY <1>4
<1>6. f - 1 \notin 1 .. b /\ e + 1 \notin 1 .. b
  <2>1. 1 \in 1 .. Len(I)
    BY <1>1
  <2> QED BY <1>2, <1>5, <2>1 DEF Tiles
<1>7. f = 1 /\ e = b /\ b # 0
  BY <1>6
<1>8. I = <<I[1]>>
  <2>1. 1 .. 1 = {1}
    OBVIOUS
  <2> QED BY <1>3, <2>1
<1> QED BY <1>1, <1>4, <1>7, <1>8

\* Two intervals of 1 .. b without t are those before and behind t.
LEMMA TwoIntervals ==
  ASSUME NEW b \in Nat, NEW t \in 1 .. b, Len(Intervals((1 .. b) \ {t})) = 2
  PROVE  /\ t \in 2 .. b - 1
         /\ Intervals((1 .. b) \ {t}) = <<<<1, t - 1>>, <<t + 1, b>>>>
<1>1. PICK S : S = (1 .. b) \ {t}
  OBVIOUS
<1>2. PICK I : I = Intervals(S)
  OBVIOUS
<1>3. I \in Bounded(b) /\ Tiles(I, S)
  <2>1. S \in SUBSET (1 .. b)
    BY <1>1
  <2> QED BY <1>2, <2>1, IntervalsTile
<1>4. Len(I) = 2 /\ 1 \in 1 .. Len(I) /\ 2 \in 1 .. Len(I)
  BY <1>1, <1>2
<1>5. I \in [1 .. 2 -> (1 .. b) \X (1 .. b)]
  BY <1>3, <1>4, LenProperties DEF Bounded
<1>6. PICK f \in 1 .. b, e \in 1 .. b : I[1] = <<f, e>> /\ I[1][1] = f /\ I[1][2] = e
  <2>1. I[1] \in (1 .. b) \X (1 .. b)
    BY <1>5
  <2> QED BY <2>1
<1>7. PICK g \in 1 .. b, h \in 1 .. b : I[2] = <<g, h>> /\ I[2][1] = g /\ I[2][2] = h
  <2>1. I[2] \in (1 .. b) \X (1 .. b)
    BY <1>5
  <2> QED BY <2>1
<1>8. /\ f <= e /\ f - 1 \notin S /\ e + 1 \notin S
      /\ g <= h /\ g - 1 \notin S /\ h + 1 \notin S
  BY <1>3, <1>4, <1>6, <1>7 DEF Tiles
<1>9. e + 1 < g
  <2>1. I[1][2] + 1 < I[2][1]
    BY <1>3, <1>4 DEF Tiles
  <2> QED BY <1>6, <1>7, <2>1
<1>10. \A i : i \in S <=> i \in 1 .. b /\ i # t
  BY <1>1
<1>11. e + 1 = t
  <2>1. e + 1 \in 1 .. b
    BY <1>9
  <2> QED BY <1>8, <1>10, <2>1
<1>12. g - 1 = t
  <2>1. g - 1 \in 1 .. b
    BY <1>9
  <2> QED BY <1>8, <1>10, <2>1
<1>13. f = 1
  <2>1. f # 1 => f - 1 \in 1 .. b /\ f - 1 # t
    BY <1>8, <1>11
  <2> QED BY <1>8, <1>10, <2>1
<1>14. h = b
  <2>1. h # b => h + 1 \in 1 .. b /\ h + 1 # t
    BY <1>8, <1>12
  <2> QED BY <1>8, <1>10, <2>1
<1>15. I = <<I[1], I[2]>>
  <2>1. 1 .. 2 = {1, 2}
    OBVIOUS
  <2> QED BY <1>5, <2>1
<1>16. t \in 2 .. b - 1 /\ e = t - 1 /\ g = t + 1
  BY <1>8, <1>11, <1>12, <1>13, <1>14
<1> QED BY <1>1, <1>2, <1>6, <1>7, <1>13, <1>14, <1>15, <1>16

\* Without p, 1 .. L is two intervals.
LEMMA CutInTwo ==
  ASSUME NEW L \in Nat, NEW p \in 2 .. L - 1
  PROVE  Intervals((1 .. L) \ {p}) = <<<<1, p - 1>>, <<p + 1, L>>>>
<1>1. PICK S : S = (1 .. L) \ {p} /\ S \in SUBSET (1 .. L)
  OBVIOUS
<1>2. PICK I : I = <<<<1, p - 1>>, <<p + 1, L>>>>
  OBVIOUS
<1>3. \A i : i \in S <=> i \in 1 .. L /\ i # p
  BY <1>1
<1>4. /\ Len(I) = 2 /\ I[1][1] = 1 /\ I[1][2] = p - 1
      /\ I[2][1] = p + 1 /\ I[2][2] = L
  BY <1>2
<1>5. I \in Bounded(L)
  <2>1. <<1, p - 1>> \in (1 .. L) \X (1 .. L) /\ <<p + 1, L>> \in (1 .. L) \X (1 .. L)
    OBVIOUS
  <2> QED BY <1>2, <2>1 DEF Bounded
<1>6. \A k \in 1 .. 2 : k = 1 \/ k = 2
  OBVIOUS
<1>7. Tiles(I, S)
  <2>1. ASSUME NEW k \in 1 .. 2
        PROVE  /\ I[k][1] <= I[k][2]
               /\ \A i \in I[k][1] .. I[k][2] : i \in S
               /\ I[k][1] - 1 \notin S /\ I[k][2] + 1 \notin S
    <3>1. CASE k = 1
      BY <1>3, <1>4, <3>1
    <3>2. CASE k = 2
      BY <1>3, <1>4, <3>2
    <3> QED BY <1>6, <3>1, <3>2
  <2>2. \A k, l \in 1 .. 2 : k < l => I[k][2] + 1 < I[l][1]
    <3> TAKE k, l \in 1 .. 2
    <3>1. k < l => k = 1 /\ l = 2
      BY <1>6
    <3>2. I[1][2] + 1 < I[2][1]
      BY <1>4
    <3> QED BY <3>1, <3>2
  <2>3. \A i \in S : \E k \in 1 .. 2 : i \in I[k][1] .. I[k][2]
    <3> TAKE i \in S
    <3>1. i \in I[1][1] .. I[1][2] \/ i \in I[2][1] .. I[2][2]
      BY <1>3, <1>4
    <3>2. 1 \in 1 .. 2 /\ 2 \in 1 .. 2
      OBVIOUS
    <3> QED BY <3>1, <3>2
  <2> QED BY <1>4, <2>1, <2>2, <2>3 DEF Tiles
<1> QED BY <1>1, <1>2, <1>5, <1>7, TilesAreIntervals

\* The characters that are no "|" are all the others.
LEMMA NotBars ==
  ASSUME NEW s \in Seq(Chars)
  PROVE  Positions(s, NoBar) = (1 .. Len(s)) \ Positions(s, {"|"})
<1>1. DOMAIN s = 1 .. Len(s)
  BY LenProperties
<1>2. \A i \in 1 .. Len(s) : s[i] \in Chars
  BY ElementOfSeq
<1> QED BY <1>1, <1>2 DEF Positions, NoBar

\* Without a "|" parsePipe parses the line.
LEMMA OneSide ==
  ASSUME NEW s \in Seq(Chars), Positions(s, {"|"}) = {}
  PROVE  parsePipe(s) = <<parseCommand(s, <<1, Len(s)>>)>>
<1>1. PICK L \in Nat : L = Len(s)
  BY LenProperties
<1>2. PICK sides : sides = Intervals(1 .. L)
  OBVIOUS
<1>3. sides \in Bounded(L) /\ Tiles(sides, 1 .. L)
  <2>1. 1 .. L \in SUBSET (1 .. L)
    OBVIOUS
  <2> QED BY <1>2, <2>1, IntervalsTile
<1>4. PICK m \in Nat : /\ m = Len(sides) /\ DOMAIN sides = 1 .. m
                       /\ sides \in [1 .. m -> (1 .. L) \X (1 .. L)]
  BY <1>3, LenProperties DEF Bounded
<1>5. ASSUME NEW n \in 1 .. m, n < m PROVE sides[n + 1][1] # sides[n][2] + 2
  <2>1. n + 1 \in 1 .. m /\ n < n + 1
    BY <1>5
  <2>2. sides[n][2] \in 1 .. L /\ sides[n + 1][1] \in 1 .. L
    BY <1>4, <2>1
  <2>3. sides[n][2] + 1 < sides[n + 1][1] /\ sides[n][2] + 1 \notin 1 .. L
    BY <1>3, <1>4, <2>1 DEF Tiles
  <2> QED BY <2>2, <2>3
<1>6. {n \in DOMAIN sides : n < Len(sides) /\ sides[n + 1][1] = sides[n][2] + 2} = {}
  BY <1>4, <1>5
<1>7. sides = Intervals(Positions(s, NoBar))
  BY <1>1, <1>2, NotBars
<1> QED BY <1>6, <1>7, Zenon DEF parsePipe

\* With one "|" parsePipe parses the texts on both sides of it.
LEMMA BothSides ==
  ASSUME NEW s \in Seq(Chars), NEW p \in 2 .. Len(s) - 1, Positions(s, {"|"}) = {p}
  PROVE  parsePipe(s) = <<parseCommand(s, <<1, p - 1>>),
                          parseCommand(s, <<p + 1, Len(s)>>)>>
<1>1. PICK L \in Nat : L = Len(s)
  BY LenProperties
<1>2. PICK sides : sides = Intervals(Positions(s, NoBar))
  OBVIOUS
<1>3. sides = <<<<1, p - 1>>, <<p + 1, L>>>>
  BY <1>1, <1>2, NotBars, CutInTwo
<1>4. /\ Len(sides) = 2 /\ DOMAIN sides = {1, 2}
      /\ sides[1] = <<1, p - 1>> /\ sides[2] = <<p + 1, L>>
  <2>1. 1 .. 2 = {1, 2}
    OBVIOUS
  <2> QED BY <1>3, <2>1
<1>5. PICK left : left = {n \in DOMAIN sides :
                            n < Len(sides) /\ sides[n + 1][1] = sides[n][2] + 2}
  OBVIOUS
<1>6. left = {1}
  <2>1. 1 \in left
    <3>1. sides[1 + 1][1] = sides[1][2] + 2
      BY <1>1, <1>4
    <3> QED BY <1>4, <1>5, <3>1
  <2>2. 2 \notin left
    BY <1>4, <1>5
  <2>3. \A n \in left : n = 1 \/ n = 2
    BY <1>4, <1>5
  <2> QED BY <2>1, <2>2, <2>3
<1>7. Min(left) = 1 /\ left # {}
  <2>1. left \in SUBSET Int /\ 1 \in left /\ \A i \in left : 1 <= i
    BY <1>6
  <2> QED BY <2>1, MinIs
<1>8. parsePipe(s) = <<parseCommand(s, sides[Min(left)]),
                       parseCommand(s, sides[Min(left) + 1])>>
  BY <1>2, <1>5, <1>7, Zenon DEF parsePipe
<1>9. Min(left) + 1 = 2
  BY <1>7
<1> QED BY <1>1, <1>4, <1>7, <1>8, <1>9, Zenon

\* What is asked of the stage st.
StageFits(K, st) ==
  StageWellFormed(K, st) /\ Cardinality(RedirectionsIn(K, st)) <= 2

\* What is run for one side is what is meant by its stage.
LEMMA StageMatches ==
  ASSUME NEW L \in Nat, NEW x \in 1 .. L, NEW y \in 1 .. L, NEW z \in 1 .. y + 1,
         NEW a \in Nat, NEW b \in Nat,
         NEW s, NEW ts, NEW K, Side(s, ts, K, L, x, y, z, a, b),
         NEW st, st = <<a, b>>, StageFits(K, st)
  PROVE  SideMatches(s, ts, K, x, y, z, st)
<1>1. a <= b
  BY DEF Side
<1>2. AtMostTwo(RedirectionsIn(K, st), K, a, b)
  BY <1>1, RedirectionsAre DEF StageFits
<1>3. a = st[1] /\ b = st[2]
  OBVIOUS
<1> QED BY <1>2, <1>3, SideRuns

\* The tokens of the "|" are the "|".
LEMMA BarTokens ==
  ASSUME NEW L \in Nat, NEW b \in Nat, NEW z \in 1 .. L + 1,
         NEW s, NEW ts, NEW K, Body(s, ts, K, L, b, z)
  PROVE  /\ \A k \in 1 .. b : K[k] = "|" => ts[k][1] \in Positions(s, {"|"})
         /\ \A i \in Positions(s, {"|"}) : \E k \in 1 .. b : K[k] = "|" /\ ts[k][1] = i
         /\ \A k, l \in 1 .. b : ts[k][1] = ts[l][1] => k = l
<1>1. \A i : i \in Positions(s, {"|"}) <=> i \in 1 .. L /\ s[i] = "|"
  BY DEF Body, Positions
<1>2. ASSUME NEW k \in 1 .. b
      PROVE  ts[k][1] \in 1 .. L /\ ts[k][2] \in 1 .. L /\ ts[k][1] <= ts[k][2]
  <2>1. ts[k] \in (1 .. L) \X (1 .. L) /\ ts[k][1] <= ts[k][2]
    BY DEF Body
  <2> QED BY <2>1
<1>3. ASSUME NEW k \in 1 .. b, K[k] # "w"
      PROVE  s[ts[k][1]] = K[k] /\ ts[k][1] = ts[k][2]
  BY <1>3 DEF Body
<1>4. ASSUME NEW k \in 1 .. b, K[k] = "|" PROVE ts[k][1] \in Positions(s, {"|"})
  <2>1. K[k] # "w"
    BY <1>4
  <2> QED BY <1>1, <1>2, <1>3, <1>4, <2>1
<1>5. ASSUME NEW i \in Positions(s, {"|"})
      PROVE  \E k \in 1 .. b : K[k] = "|" /\ ts[k][1] = i
  <2>1. i \in 1 .. L /\ s[i] = "|"
    BY <1>1
  <2>2. i # z
    <3>1. z = L + 1 => i # z
      BY <2>1
    <3>2. z = L + 1 \/ s[z] = "&"
      BY DEF Body
    <3> QED BY <2>1, <3>1, <3>2
  <2>3. PICK k \in 1 .. b : i \in ts[k][1] .. ts[k][2]
    <3>1. s[i] # " "
      BY <2>1
    <3> QED BY <2>1, <2>2, <3>1 DEF Body
  <2>4. K[k] # "w"
    <3> SUFFICES ASSUME K[k] = "w" PROVE FALSE
      OBVIOUS
    <3>1. i \in Positions(s, WordChars)
      BY <2>3 DEF Body
    <3>2. s[i] \in WordChars
      BY <3>1 DEF Positions
    <3>3. "|" \notin WordChars
      BY OtherChars
    <3> QED BY <2>1, <3>2, <3>3
  <2>5. s[ts[k][1]] = K[k] /\ ts[k][1] = ts[k][2]
    BY <1>3, <2>4
  <2>6. i = ts[k][1]
    BY <1>2, <2>3, <2>5
  <2> QED BY <2>1, <2>5, <2>6
<1>6. ASSUME NEW k \in 1 .. b, NEW l \in 1 .. b, k < l PROVE ts[k][1] # ts[l][1]
  <2>1. ts[k][2] < ts[l][1]
    BY <1>6 DEF Body
  <2> QED BY <1>2, <2>1
<1>7. ASSUME NEW k \in 1 .. b, NEW l \in 1 .. b, ts[k][1] = ts[l][1] PROVE k = l
  <2>1. ~(k < l) /\ ~(l < k)
    BY <1>6, <1>7
  <2> QED BY <2>1
<1> QED BY <1>4, <1>5, <1>7

\* Side n is that of stage n, and only the last one is in the background.
Agrees(s, ts, K, I, sides, bg) ==
  /\ DOMAIN sides = DOMAIN I
  /\ \A n \in DOMAIN I :
       [argv |-> sides[n].argv, in |-> sides[n].in, out |-> sides[n].out]
         = StageMeaning(ts, K, I[n])
  /\ \A n \in DOMAIN I : sides[n].bg = (n = Len(I) /\ bg)
  /\ Len(sides) = Len(I)

\* A line without "|" runs what it means.
LEMMA OneAgrees ==
  ASSUME NEW L \in Nat, NEW b \in Nat, NEW z \in 1 .. L + 1,
         NEW s \in Seq(Chars), L = Len(s), NEW ts, NEW K, Body(s, ts, K, L, b, z),
         Behind(K, L, b, z),
         NEW I, I = StagesOf(K), \A n \in DOMAIN I : StageFits(K, I[n]),
         Positions(s, {"|"}) = {}, Len(I) = 1
  PROVE  Agrees(s, ts, K, I, parsePipe(s), InBackground(K))
<1>1. \A k \in 1 .. b : K[k] # "|"
  BY BarTokens
<1>2. I = Intervals(1 .. b)
  <2>1. StageTokens(K) = 1 .. b
    BY <1>1 DEF Behind
  <2> QED BY <2>1 DEF StagesOf, StageTokens
<1>3. PICK st : st = <<1, b>>
  OBVIOUS
<1>4. b # 0 /\ I = <<st>>
  BY <1>2, <1>3, OneInterval
<1>5. DOMAIN I = {1} /\ I[1] = st
  <2>1. 1 .. 1 = {1}
    OBVIOUS
  <2> QED BY <1>4, <2>1
<1>6. L # 0 /\ Side(s, ts, K, L, 1, L, z, 1, b)
  BY <1>1, <1>4, WholeSide
<1>7. SideMatches(s, ts, K, 1, L, z, st)
  <2>1. 1 \in 1 .. L /\ L \in 1 .. L /\ 1 \in Nat
    BY <1>6
  <2>2. StageFits(K, st)
    BY <1>5
  <2> QED BY <1>3, <1>6, <2>1, <2>2, StageMatches
<1>8. PICK c : c = parseCommand(s, <<1, L>>)
  OBVIOUS
<1>9. /\ [argv |-> c.argv, in |-> c.in, out |-> c.out] = StageMeaning(ts, K, st)
      /\ c.bg = InBackground(K)
  <2>1. c.bg = (z <= L)
    BY <1>7, <1>8, Zenon DEF SideMatches
  <2>2. c.bg = InBackground(K)
    BY <2>1, Zenon DEF Behind
  <2> QED BY <1>7, <1>8, <2>2, Zenon DEF SideMatches
<1>10. PICK sides : sides = parsePipe(s)
  OBVIOUS
<1>11. sides = <<c>>
  BY <1>8, <1>10, OneSide
<1>12. DOMAIN sides = {1} /\ Len(sides) = 1 /\ sides[1] = c
  <2>1. 1 .. 1 = {1}
    OBVIOUS
  <2> QED BY <1>11, <2>1
<1>13. c.bg = (1 = Len(I) /\ InBackground(K))
  BY <1>9 DEF InBackground
<1> QED BY <1>5, <1>9, <1>10, <1>12, <1>13, Zenon DEF Agrees

\* A line with one "|" runs what it means.
LEMMA TwoAgree ==
  ASSUME NEW L \in Nat, NEW b \in Nat, NEW z \in 1 .. L + 1,
         NEW s \in Seq(Chars), L = Len(s), NEW ts, NEW K, Body(s, ts, K, L, b, z),
         Behind(K, L, b, z),
         NEW I, I = StagesOf(K), \A n \in DOMAIN I : StageFits(K, I[n]),
         NEW p, Positions(s, {"|"}) = {p}, Len(I) = 2
  PROVE  Agrees(s, ts, K, I, parsePipe(s), InBackground(K))
<1>1. PICK t \in 1 .. b : K[t] = "|" /\ ts[t][1] = p
  BY BarTokens
<1>2. \A k \in 1 .. b : K[k] = "|" => k = t
  <2> TAKE k \in 1 .. b
  <2>1. K[k] = "|" => ts[k][1] = p
    BY BarTokens
  <2> QED BY <1>1, <2>1, BarTokens
<1>3. I = Intervals((1 .. b) \ {t})
  <2>1. StageTokens(K) = (1 .. b) \ {t}
    BY <1>1, <1>2 DEF Behind
  <2> QED BY <2>1 DEF StagesOf, StageTokens
<1>4. t \in 2 .. b - 1 /\ I = <<<<1, t - 1>>, <<t + 1, b>>>>
  BY <1>3, TwoIntervals
<1>5. PICK st, su, c, d : /\ c = t - 1 /\ d = t + 1 /\ c \in Nat /\ d \in Nat
                          /\ st = <<1, c>> /\ su = <<d, b>>
  BY <1>4
<1>6. DOMAIN I = {1, 2} /\ I[1] = st /\ I[2] = su
  <2>1. I = <<st, su>>
    BY <1>4, <1>5
  <2>2. 1 .. 2 = {1, 2}
    OBVIOUS
  <2> QED BY <2>1, <2>2
<1>7. PICK q \in 1 .. L : Halves(s, ts, K, L, b, z, t, q)
  BY <1>1, <1>2, <1>4, TwoSides
<1>8. p = q
  BY <1>1, <1>7 DEF Halves
<1>9. PICK u \in 1 .. L, v \in 1 .. L : u = q - 1 /\ v = q + 1
  BY <1>7 DEF Halves
<1>10. Side(s, ts, K, L, 1, u, q, 1, c) /\ Side(s, ts, K, L, v, L, z, d, b)
  BY <1>5, <1>7, <1>9 DEF Halves
<1>11. SideMatches(s, ts, K, 1, u, q, st)
  <2>1. 1 \in 1 .. L /\ 1 \in Nat /\ q \in 1 .. u + 1
    BY <1>9
  <2>2. StageFits(K, st)
    BY <1>6
  <2> QED BY <1>5, <1>10, <2>1, <2>2, StageMatches
<1>12. SideMatches(s, ts, K, v, L, z, su)
  <2>1. L \in 1 .. L
    BY <1>9
  <2>2. StageFits(K, su)
    BY <1>6
  <2> QED BY <1>5, <1>10, <2>1, <2>2, StageMatches
<1>13. PICK c1, c2 : c1 = parseCommand(s, <<1, u>>) /\ c2 = parseCommand(s, <<v, L>>)
  OBVIOUS
<1>14. /\ [argv |-> c1.argv, in |-> c1.in, out |-> c1.out] = StageMeaning(ts, K, st)
       /\ c1.bg = FALSE
  <2>1. c1.bg = (q <= u)
    BY <1>11, <1>13, Zenon DEF SideMatches
  <2>2. (q <= u) = FALSE
    BY <1>9
  <2>3. c1.bg = FALSE
    BY <2>1, <2>2, Zenon
  <2> QED BY <1>11, <1>13, <2>3, Zenon DEF SideMatches
<1>15. /\ [argv |-> c2.argv, in |-> c2.in, out |-> c2.out] = StageMeaning(ts, K, su)
       /\ c2.bg = InBackground(K)
  <2>1. c2.bg = (z <= L)
    BY <1>12, <1>13, Zenon DEF SideMatches
  <2>2. c2.bg = InBackground(K)
    BY <2>1, Zenon DEF Behind
  <2> QED BY <1>12, <1>13, <2>2, Zenon DEF SideMatches
<1>16. PICK sides : sides = parsePipe(s)
  OBVIOUS
<1>17. sides = <<c1, c2>>
  <2>1. q \in 2 .. L - 1
    BY <1>9
  <2> QED BY <1>8, <1>9, <1>13, <1>16, <2>1, BothSides
<1>18. DOMAIN sides = {1, 2} /\ Len(sides) = 2 /\ sides[1] = c1 /\ sides[2] = c2
  <2>1. 1 .. 2 = {1, 2}
    OBVIOUS
  <2> QED BY <1>17, <2>1
<1>19. c1.bg = (1 = Len(I) /\ InBackground(K))
  <2>1. (1 = Len(I) /\ InBackground(K)) = FALSE
    OBVIOUS
  <2> QED BY <1>14, <2>1, Zenon
<1>20. c2.bg = (2 = Len(I) /\ InBackground(K))
  BY <1>15 DEF InBackground
<1> QED BY <1>6, <1>14, <1>15, <1>16, <1>18, <1>19, <1>20, Zenon DEF Agrees

\* On every well formed line with at most one "|" and at most two redirections a
\* stage, whatever its length and however it is spaced, each side of the pipe runs
\* the program and the arguments typed there with the files of its redirections,
\* and "&" at the end is seen on the last side and on no other.
THEOREM StandaloneRuns == Spec => []StandaloneRunsWhatIsTyped
<1>1. ASSUME LineTyped, InGrammar(line)
      PROVE  Agrees(line, Tokens(line), Kinds(line), StagesOf(Kinds(line)),
                    parsePipe(line), InBackground(Kinds(line)))
  <2>1. line \in Seq(Chars) /\ WellFormed(line)
    BY <1>1 DEF LineTyped, InGrammar
  <2>2. PICK L \in Nat : L = Len(line)
    BY <2>1, LenProperties
  <2>3. PICK ts, K, I, P : /\ ts = Tokens(line) /\ K = Kinds(line) /\ I = StagesOf(K)
                           /\ P = Positions(line, {"|"})
    OBVIOUS
  <2>4. PICK b \in Nat, z \in 1 .. L + 1 : Body(line, ts, K, L, b, z) /\ Behind(K, L, b, z)
    <3>1. PICK b \in 0 .. Len(ts), z \in 1 .. L + 1 :
            Body(line, ts, K, L, b, z) /\ Behind(K, L, b, z)
      BY <2>1, <2>2, <2>3, BodyIs
    <3>2. b \in Nat
      <4>1. Len(ts) \in Nat
        BY <2>1, <2>3, TokensAre
      <4> QED BY <4>1
    <3> QED BY <3>1, <3>2
  <2>5. \A n \in DOMAIN I : StageFits(K, I[n])
    BY <1>1, <2>3 DEF InGrammar, WellFormed, StageFits
  <2>6. Len(I) = Cardinality(P) + 1 /\ Len(I) <= 2
    BY <1>1, <2>1, <2>3 DEF InGrammar, WellFormed
  <2>7. IsFiniteSet(P) /\ Cardinality(P) \in Nat
    <3>1. P \in SUBSET (1 .. L)
      BY <2>1, <2>2, <2>3, LenProperties DEF Positions
    <3> QED BY <3>1, SubsetsFinite
  <2>8. CASE Cardinality(P) = 0
    <3>1. P = {}
      BY <2>7, <2>8, FS_EmptySet
    <3>2. Len(I) = 1
      BY <2>6, <2>8
    <3>3. Agrees(line, ts, K, I, parsePipe(line), InBackground(K))
      BY <2>1, <2>2, <2>3, <2>4, <2>5, <3>1, <3>2, OneAgrees
    <3> QED BY <2>3, <3>3
  <2>9. CASE Cardinality(P) = 1
    <3>1. PICK p : P = {p}
      BY <2>7, <2>9, FS_Singleton
    <3>2. Len(I) = 2
      BY <2>6, <2>9
    <3>3. Agrees(line, ts, K, I, parsePipe(line), InBackground(K))
      BY <2>1, <2>2, <2>3, <2>4, <2>5, <3>1, <3>2, TwoAgree
    <3> QED BY <2>3, <3>3
  <2> QED BY <2>6, <2>7, <2>8, <2>9
<1>2. LineTyped => StandaloneRunsWhatIsTyped
  <2> SUFFICES ASSUME LineTyped, InGrammar(line)
               PROVE  LET sides == parsePipe(line)
                      IN /\ [n \in DOMAIN sides |->
                              [argv |-> sides[n].argv, in |-> sides[n].in,
                               out |-> sides[n].out]] = Meaning(line)
                         /\ \A n \in DOMAIN sides :
                              sides[n].bg = (n = Len(sides) /\ InBackground(Kinds(line)))
    BY Zenon DEF StandaloneRunsWhatIsTyped
  <2>1. PICK ts, K, I, sides, bg :
          /\ ts = Tokens(line) /\ K = Kinds(line) /\ I = StagesOf(K)
          /\ sides = parsePipe(line) /\ bg = InBackground(K)
    OBVIOUS
  <2>2. Agrees(line, ts, K, I, sides, bg)
    BY <1>1, <2>1
  <2>3. Meaning(line) = [n \in DOMAIN I |-> StageMeaning(ts, K, I[n])]
    BY <2>1, Zenon DEF Meaning, StageMeaning
  <2>4. \A n \in DOMAIN I :
          [argv |-> sides[n].argv, in |-> sides[n].in, out |-> sides[n].out]
            = StageMeaning(ts, K, I[n])
    BY <2>2, Zenon DEF Agrees
  <2>5. DOMAIN sides = DOMAIN I /\ Len(sides) = Len(I)
    BY <2>2, Zenon DEF Agrees
  <2>6. \A n \in DOMAIN I : sides[n].bg = (n = Len(I) /\ bg)
    BY <2>2, Zenon DEF Agrees
  <2>7. [n \in DOMAIN sides |->
          [argv |-> sides[n].argv, in |-> sides[n].in, out |-> sides[n].out]]
          = [n \in DOMAIN I |-> StageMeaning(ts, K, I[n])]
    BY <2>4, <2>5
  <2> QED BY <2>1, <2>3, <2>5, <2>6, <2>7, Zenon
<1> QED BY <1>2, LineIsTyped, PTL
=============================================================================
