--------------------------- MODULE Placement_proofs ---------------------------
(***************************************************************************)
(* What the operators of Placement compute, for sets and rings of any size: *)
(* sorting by a key, picking from a sequence, and the walk on the ring,     *)
(* which meets the nodes in the order of their distance.                    *)
(***************************************************************************)
EXTENDS Placement, FiniteSetTheorems, TLAPS

\* d is a number for each member of S, and tells them apart.
Keyed(S, d) ==
    /\ IsFiniteSet(S)
    /\ \A x \in S : d[x] \in Int
    /\ \A x, y \in S : d[x] = d[y] => x = y

LEMMA RankOrder ==
  ASSUME NEW S, NEW d, Keyed(S, d), NEW x \in S, NEW y \in S
  PROVE  /\ Rank(S, d, x) \in 1..Cardinality(S)
         /\ d[x] <= d[y] <=> Rank(S, d, x) <= Rank(S, d, y)
         /\ Rank(S, d, x) = Rank(S, d, y) => x = y
<1> DEFINE below(z) == {u \in S : d[u] <= d[z]}
<1>1. /\ IsFiniteSet(S) /\ Cardinality(S) \in Nat
      /\ \A u \in S : d[u] \in Int
      /\ \A u, v \in S : d[u] = d[v] => u = v
  BY FS_CardinalityType DEF Keyed
<1>2. ASSUME NEW z \in S
      PROVE  /\ Rank(S, d, z) = Cardinality(below(z)) /\ z \in below(z)
             /\ IsFiniteSet(below(z)) /\ Cardinality(below(z)) \in 1..Cardinality(S)
  <2>1. below(z) \in SUBSET S /\ z \in below(z) /\ below(z) # {}
    BY <1>1
  <2>2. IsFiniteSet(below(z)) /\ Cardinality(below(z)) <= Cardinality(S)
    BY <1>1, <2>1, FS_Subset
  <2>3. Cardinality(below(z)) \in Nat /\ Cardinality(below(z)) # 0
    BY <2>1, <2>2, FS_CardinalityType, FS_EmptySet
  <2> QED BY <1>1, <2>1, <2>2, <2>3 DEF Rank
<1>3. ASSUME NEW u \in S, NEW v \in S, d[u] <= d[v]
      PROVE  /\ Cardinality(below(u)) <= Cardinality(below(v))
             /\ Cardinality(below(u)) = Cardinality(below(v)) => u = v
  <2>1. below(u) \in SUBSET below(v)
    BY <1>1, <1>3
  <2>2. /\ Cardinality(below(u)) <= Cardinality(below(v))
        /\ Cardinality(below(v)) = Cardinality(below(u)) => below(v) = below(u)
    BY <1>2, <2>1, FS_Subset
  <2>3. below(u) = below(v) => u = v
    <3>1. ASSUME below(u) = below(v) PROVE d[v] <= d[u]
      <4>1. v \in below(u)
        BY <1>2, <3>1
      <4> QED BY <4>1
    <3> QED BY <1>1, <1>3, <3>1
  <2> QED BY <2>2, <2>3
<1> HIDE DEF below
<1> QED BY <1>1, <1>2, <1>3

\* Every rank is taken.
LEMMA RankOnto ==
  ASSUME NEW S, NEW d, Keyed(S, d), NEW i \in 1..Cardinality(S)
  PROVE  \E x \in S : Rank(S, d, x) = i
<1> DEFINE f == [x \in S |-> Rank(S, d, x)]
           T == 1..Cardinality(S)
<1>1. IsFiniteSet(S) /\ Cardinality(S) \in Nat
  BY FS_CardinalityType DEF Keyed
<1>2. IsFiniteSet(T) /\ Cardinality(T) = Cardinality(S)
  BY <1>1, FS_Interval
<1>3. \A x \in S : Rank(S, d, x) \in T
  BY RankOrder
<1>4. \A x, y \in S : Rank(S, d, x) = Rank(S, d, y) => x = y
  BY RankOrder
<1>5. f \in Injection(S, T)
  BY <1>3, <1>4 DEF Injection, IsInjective
<1>6. f \in Surjection(S, T)
  BY <1>2, <1>5, FS_Injection
<1> QED BY <1>6 DEF Surjection

\* SortBy lists S, each member once, in the order of d.
LEMMA SortByLists ==
  ASSUME NEW S, NEW d, Keyed(S, d)
  PROVE  /\ Cardinality(S) \in Nat
         /\ DOMAIN SortBy(S, d) = 1..Cardinality(S)
         /\ Len(SortBy(S, d)) = Cardinality(S)
         /\ \A i \in 1..Cardinality(S) : SortBy(S, d)[i] \in S
         /\ \A x \in S : \E i \in 1..Cardinality(S) : SortBy(S, d)[i] = x
         /\ \A i, j \in 1..Cardinality(S) :
               i < j => d[SortBy(S, d)[i]] < d[SortBy(S, d)[j]]
<1> DEFINE s == SortBy(S, d)
           n == Cardinality(S)
<1>1. IsFiniteSet(S) /\ n \in Nat
  BY FS_CardinalityType DEF Keyed
<1>2. s = [i \in 1..n |-> CHOOSE x \in S : Rank(S, d, x) = i]
  BY DEF SortBy
<1>3. ASSUME NEW i \in 1..n PROVE s[i] \in S /\ Rank(S, d, s[i]) = i
  <2>1. s[i] = CHOOSE x \in S : Rank(S, d, x) = i
    BY <1>2
  <2> QED BY <2>1, RankOnto
<1>4. DOMAIN s = 1..n /\ Len(s) = n
  BY <1>1, <1>2
<1>5. ASSUME NEW x \in S PROVE \E i \in 1..n : s[i] = x
  <2>1. Rank(S, d, x) \in 1..n
    BY RankOrder
  <2>2. s[Rank(S, d, x)] \in S /\ Rank(S, d, s[Rank(S, d, x)]) = Rank(S, d, x)
    BY <1>3, <2>1
  <2> QED BY <2>1, <2>2, RankOrder
<1>6. ASSUME NEW i \in 1..n, NEW j \in 1..n, i < j PROVE d[s[i]] < d[s[j]]
  <2>1. /\ s[i] \in S /\ Rank(S, d, s[i]) = i
        /\ s[j] \in S /\ Rank(S, d, s[j]) = j
    BY <1>3
  <2>2. ~(d[s[j]] <= d[s[i]])
    BY <2>1, <1>6, RankOrder
  <2>3. d[s[i]] \in Int /\ d[s[j]] \in Int
    BY <2>1 DEF Keyed
  <2> QED BY <2>2, <2>3
<1> QED BY <1>1, <1>3, <1>4, <1>5, <1>6

\* It is the only sequence of members of S, as many as there are, that goes up.
LEMMA SortByUnique ==
  ASSUME NEW S, NEW d, Keyed(S, d), NEW s \in [1..Cardinality(S) -> S],
         \A i, j \in 1..Cardinality(S) : i < j => d[s[i]] < d[s[j]]
  PROVE  s = SortBy(S, d)
<1> DEFINE n == Cardinality(S)
<1>1. IsFiniteSet(S) /\ n \in Nat /\ \A x \in S : d[x] \in Int
  BY FS_CardinalityType DEF Keyed
<1>2. \A i, j \in 1..n : s[i] = s[j] => i = j
  <2> SUFFICES ASSUME NEW i \in 1..n, NEW j \in 1..n, i < j PROVE s[i] # s[j]
    BY <1>1
  <2>1. d[s[i]] < d[s[j]] /\ d[s[i]] \in Int
    BY <1>1
  <2> QED BY <2>1
<1>3. s \in Injection(1..n, S)
  BY <1>2 DEF Injection, IsInjective
<1>4. IsFiniteSet(1..n) /\ Cardinality(1..n) = n
  BY <1>1, FS_Interval
<1>5. s \in Surjection(1..n, S)
  BY <1>1, <1>3, <1>4, FS_Injection
<1>6. ASSUME NEW i \in 1..n PROVE Rank(S, d, s[i]) = i
  <2> DEFINE U == {y \in S : d[y] <= d[s[i]]}
             g == [j \in 1..i |-> s[j]]
  <2>1. \A j \in 1..n : d[s[j]] <= d[s[i]] <=> j <= i
    <3> SUFFICES ASSUME NEW j \in 1..n PROVE d[s[j]] <= d[s[i]] <=> j <= i
      OBVIOUS
    <3>1. d[s[j]] \in Int /\ d[s[i]] \in Int /\ i \in Int /\ j \in Int
      BY <1>1
    <3>2. CASE j < i
      BY <3>1, <3>2
    <3>3. CASE j = i
      BY <3>1, <3>3
    <3>4. CASE i < j
      BY <3>1, <3>4
    <3> QED BY <3>1, <3>2, <3>3, <3>4
  <2>2. g \in [1..i -> U]
    BY <1>1, <2>1
  <2>3. g \in Injection(1..i, U)
    BY <1>1, <1>2, <2>2 DEF Injection, IsInjective
  <2>4. ASSUME NEW y \in U PROVE \E j \in 1..i : g[j] = y
    <3>1. PICK j \in 1..n : s[j] = y
      BY <1>5 DEF Surjection
    <3>2. j <= i
      BY <2>1, <3>1
    <3> QED BY <1>1, <3>1, <3>2
  <2>5. g \in Surjection(1..i, U)
    BY <2>2, <2>4 DEF Surjection
  <2>6. g \in Bijection(1..i, U)
    BY <2>3, <2>5 DEF Bijection
  <2>7. IsFiniteSet(1..i) /\ Cardinality(1..i) = i
    BY <1>1, FS_Interval
  <2>8. Cardinality(U) = i
    BY <2>6, <2>7, FS_Bijection DEF ExistsBijection
  <2> QED BY <2>8 DEF Rank
<1>7. ASSUME NEW i \in 1..n PROVE s[i] = CHOOSE x \in S : Rank(S, d, x) = i
  <2>1. \A x \in S : Rank(S, d, x) = i <=> x = s[i]
    BY <1>6, RankOrder
  <2> QED BY <2>1
<1> QED BY <1>7 DEF SortBy

\* In it a member stands at its rank.
LEMMA SortByRank ==
  ASSUME NEW S, NEW d, Keyed(S, d), NEW i \in 1..Cardinality(S)
  PROVE  Rank(S, d, SortBy(S, d)[i]) = i
<1>1. SortBy(S, d)[i] = CHOOSE x \in S : Rank(S, d, x) = i
  BY DEF SortBy
<1> QED BY <1>1, RankOnto

\* Only the keys of the members count.
LEMMA SortByAgree ==
  ASSUME NEW S, NEW d, NEW e, \A x \in S : d[x] = e[x]
  PROVE  SortBy(S, d) = SortBy(S, e) /\ \A x \in S : Rank(S, d, x) = Rank(S, e, x)
<1>1. ASSUME NEW x \in S PROVE Rank(S, d, x) = Rank(S, e, x)
  <2>1. {y \in S : d[y] <= d[x]} = {y \in S : e[y] <= e[x]}
    OBVIOUS
  <2> QED BY <2>1 DEF Rank
<1>2. ASSUME NEW i \in 1..Cardinality(S)
      PROVE  (CHOOSE x \in S : Rank(S, d, x) = i)
                = CHOOSE x \in S : Rank(S, e, x) = i
  <2>1. \A x \in S : Rank(S, d, x) = i <=> Rank(S, e, x) = i
    BY <1>1
  <2> QED BY <2>1
<1> QED BY <1>1, <1>2 DEF SortBy

\* The least and the greatest of two numbers.
LEMMA MinOfTwo ==
  ASSUME NEW a \in Nat, NEW b \in Nat
  PROVE  Min({a, b}) = IF a <= b THEN a ELSE b
<1>1. CASE a <= b
  <2>1. \A x \in {a, b} : (\A y \in {a, b} : x <= y) <=> x = a
    BY <1>1
  <2> QED BY <1>1, <2>1 DEF Min
<1>2. CASE ~(a <= b)
  <2>1. \A x \in {a, b} : (\A y \in {a, b} : x <= y) <=> x = b
    BY <1>2
  <2> QED BY <1>2, <2>1 DEF Min
<1> QED BY <1>1, <1>2

LEMMA MaxOfTwo ==
  ASSUME NEW a \in Nat, NEW b \in Nat
  PROVE  Max({a, b}) = IF a >= b THEN a ELSE b
<1>1. CASE a >= b
  <2>1. \A x \in {a, b} : (\A y \in {a, b} : x >= y) <=> x = a
    BY <1>1
  <2> QED BY <1>1, <2>1 DEF Max
<1>2. CASE ~(a >= b)
  <2>1. \A x \in {a, b} : (\A y \in {a, b} : x >= y) <=> x = b
    BY <1>2
  <2> QED BY <1>2, <2>1 DEF Max
<1> QED BY <1>1, <1>2

\* A set of numbers that is not empty and finite has a least one.
LEMMA MinIs ==
  ASSUME NEW T \in SUBSET Int, T # {}, IsFiniteSet(T)
  PROVE  Min(T) \in T /\ \A y \in T : Min(T) <= y
<1> DEFINE id == [x \in T |-> x]
           s == SortBy(T, id)
<1>1. Keyed(T, id)
  BY DEF Keyed
<1>2. Cardinality(T) \in Nat /\ Cardinality(T) # 0
  BY FS_CardinalityType, FS_EmptySet
<1>3. 1 \in 1..Cardinality(T)
  BY <1>2
<1>4. /\ s[1] \in T
      /\ \A x \in T : \E i \in 1..Cardinality(T) : s[i] = x
      /\ \A i, j \in 1..Cardinality(T) : i < j => id[s[i]] < id[s[j]]
      /\ \A i \in 1..Cardinality(T) : s[i] \in T
  BY <1>1, <1>3, SortByLists
<1>5. ASSUME NEW y \in T PROVE s[1] <= y
  <2>1. PICK i \in 1..Cardinality(T) : s[i] = y
    BY <1>4
  <2>2. CASE i = 1
    BY <2>1, <2>2
  <2>3. CASE 1 < i
    <3>1. id[s[1]] < id[s[i]]
      BY <1>3, <1>4, <2>3
    <3>2. s[1] < s[i] /\ s[1] \in Int /\ y \in Int
      BY <1>4, <3>1
    <3> HIDE DEF s
    <3> QED BY <2>1, <3>2
  <2> QED BY <1>2, <2>2, <2>3
<1>6. \E x \in T : \A y \in T : x <= y
  BY <1>4, <1>5
<1> QED BY <1>6 DEF Min

\* What a sequence has at some indices is sorted when it goes up there and has
\* every member of U at one of them.
LEMMA PickSorts ==
  ASSUME NEW I \in SUBSET Int, IsFiniteSet(I), NEW U, NEW d, Keyed(U, d), NEW s,
         \A i \in I : s[i] \in U,
         \A x \in U : \E i \in I : s[i] = x,
         \A i, j \in I : i < j => d[s[i]] < d[s[j]]
  PROVE  Pick(s, I) = SortBy(U, d)
<1> DEFINE id == [i \in I |-> i]
           index == SortBy(I, id)
           n == Cardinality(U)
           f == [i \in I |-> s[i]]
<1>1. Keyed(I, id)
  BY DEF Keyed
<1>2. ASSUME NEW i \in I, NEW j \in I, s[i] = s[j] PROVE i = j
  <2>1. d[s[i]] \in Int
    BY DEF Keyed
  <2>2. ~(i < j) /\ ~(j < i)
    BY <1>2, <2>1
  <2> QED BY <2>2
<1>3. f \in Bijection(I, U)
  BY <1>2 DEF Bijection, Injection, IsInjective, Surjection
<1>4. Cardinality(I) = n
  BY <1>3, FS_Bijection DEF ExistsBijection
<1>5. /\ n \in Nat
      /\ DOMAIN index = 1..n
      /\ \A i \in 1..n : index[i] \in I
      /\ \A i, j \in 1..n : i < j => id[index[i]] < id[index[j]]
  BY <1>1, <1>4, SortByLists
<1> HIDE DEF index
<1>6. Pick(s, I) = [j \in 1..n |-> s[index[j]]]
  BY <1>5 DEF Pick, index
<1>7. Pick(s, I) \in [1..n -> U]
  BY <1>5, <1>6
<1>8. ASSUME NEW i \in 1..n, NEW j \in 1..n, i < j
      PROVE  d[Pick(s, I)[i]] < d[Pick(s, I)[j]]
  <2>1. index[i] \in I /\ index[j] \in I /\ index[i] < index[j]
    BY <1>5, <1>8
  <2> QED BY <1>6, <2>1
<1>9. \A i, j \in 1..Cardinality(U) :
         i < j => d[Pick(s, I)[i]] < d[Pick(s, I)[j]]
  BY <1>8
<1> DEFINE r == Pick(s, I)
<1>10. r \in [1..Cardinality(U) -> U]
  BY <1>7
<1>11. \A i, j \in 1..Cardinality(U) : i < j => d[r[i]] < d[r[j]]
  BY <1>9
<1> HIDE DEF r
<1>12. r = SortBy(U, d)
  BY <1>10, <1>11, SortByUnique
<1> QED BY <1>12 DEF r

\* Leaving members out before or after sorting is the same.
LEMMA OnlySorts ==
  ASSUME NEW S, NEW d, Keyed(S, d), NEW T
  PROVE  Only(SortBy(S, d), T) = SortBy(S \cap T, d)
<1> DEFINE s == SortBy(S, d)
           n == Cardinality(S)
           I == {i \in 1..n : s[i] \in T}
<1>1. /\ n \in Nat /\ DOMAIN s = 1..n
      /\ \A i \in 1..n : s[i] \in S
      /\ \A x \in S : \E i \in 1..n : s[i] = x
      /\ \A i, j \in 1..n : i < j => d[s[i]] < d[s[j]]
  BY SortByLists
<1> HIDE DEF s, n
<1>2. Keyed(S \cap T, d)
  BY FS_Subset DEF Keyed
<1>3. I \in SUBSET Int /\ IsFiniteSet(I)
  <2>1. IsFiniteSet(1..n) /\ I \in SUBSET (1..n)
    BY <1>1, FS_Interval
  <2> QED BY <1>1, <2>1, FS_Subset
<1>4. Pick(s, I) = SortBy(S \cap T, d)
  <2>1. \A i \in I : s[i] \in S \cap T
    BY <1>1
  <2>2. \A x \in S \cap T : \E i \in I : s[i] = x
    BY <1>1
  <2>3. \A i, j \in I : i < j => d[s[i]] < d[s[j]]
    BY <1>1
  <2> QED BY <1>2, <1>3, <2>1, <2>2, <2>3, PickSorts
<1> QED BY <1>1, <1>4 DEF Only, s
-----------------------------------------------------------------------------
(* The walk. *)

\* A set of numbers from 1 on without gaps is an interval.
LEMMA NoGaps ==
  ASSUME NEW n \in Nat, NEW D \in SUBSET (1..n),
         \A i \in 1..n, j \in D : i <= j => i \in D
  PROVE  Cardinality(D) \in 0..n /\ D = 1..Cardinality(D)
<1> DEFINE out == (1..(n + 1)) \ D
           m == Min(out)
<1>1. IsFiniteSet(1..(n + 1)) /\ IsFiniteSet(1..n)
  BY FS_Interval
<1>2. out \in SUBSET Int /\ n + 1 \in out /\ IsFiniteSet(out)
  BY <1>1, FS_Subset
<1>3. m \in out /\ \A i \in out : m <= i
  BY <1>2, MinIs
<1> HIDE DEF m
<1>4. \A i \in 1..n : i < m => i \in D
  BY <1>3
<1>5. ASSUME NEW i \in D PROVE i < m
  <2>1. CASE m = n + 1
    BY <2>1
  <2>2. CASE m \in 1..n /\ m \notin D
    BY <2>2
  <2> QED BY <1>3, <2>1, <2>2
<1>6. D = 1..(m - 1) /\ m - 1 \in 0..n
  <2>1. m \in 1..(n + 1)
    BY <1>3
  <2>2. \A i \in D : i \in 1..(m - 1)
    BY <1>5, <2>1
  <2>3. \A i \in 1..(m - 1) : i \in D
    BY <1>4, <2>1
  <2>4. D = 1..(m - 1)
    BY <2>2, <2>3, Zenon
  <2> QED BY <2>1, <2>4
<1>7. Cardinality(1..(m - 1)) = m - 1
  BY <1>6, FS_Interval
<1> QED BY <1>6, <1>7

\* Going around once.
LEMMA ModOnce ==
  ASSUME NEW r \in Nat \ {0}, NEW a \in 0..(2 * r - 1)
  PROVE  a % r = IF a < r THEN a ELSE a - r
<1>1. CASE a < r
  BY <1>1
<1>2. CASE a >= r
  <2>1. a - r \in 0..(r - 1)
    BY <1>2
  <2>2. a = r * 1 + (a - r)
    OBVIOUS
  <2>3. a % r = a - r
    BY <2>1, <2>2
  <2> QED BY <1>2, <2>3
<1> QED BY <1>1, <1>2

\* How far it is from start up to p, and around.
Around(start, p) == (p + RingSize - start) % RingSize

LEMMA AroundIs ==
  ASSUME NEW start \in Positions, NEW p \in Positions
  PROVE  /\ Around(start, p) = IF p >= start THEN p - start
                                             ELSE p + RingSize - start
         /\ Around(start, p) \in Nat
<1>1. RingSize \in Nat \ {0} /\ start \in 0..(RingSize - 1)
      /\ p \in 0..(RingSize - 1)
  BY RingAssumption DEF Positions
<1> DEFINE a == p + RingSize - start
<1>2. a \in 0..(2 * RingSize - 1)
  BY <1>1
<1>3. Around(start, p) = a % RingSize
  BY DEF Around
<1> HIDE DEF a
<1>4. a % RingSize = IF a < RingSize THEN a ELSE a - RingSize
  BY <1>1, <1>2, ModOnce
<1> QED BY <1>1, <1>3, <1>4 DEF a

\* The virtual nodes in the order in which the walk from start meets them.
Turn(ring, start) ==
    LET first == StartIndex(ring, start)
    IN  [i \in DOMAIN ring |-> ring[((first + i - 1) % Len(ring)) + 1]]

\* That order is the order of their distance.
LEMMA TurnSorts ==
  ASSUME NEW E, NEW position, Keyed(E, position), NEW start \in Positions,
         \A e \in E : position[e] = e.position /\ position[e] \in Positions
  PROVE  /\ Keyed(E, [e \in E |-> Around(start, position[e])])
         /\ Turn(SortBy(E, position), start)
               = SortBy(E, [e \in E |-> Around(start, position[e])])
<1> DEFINE s == SortBy(E, position)
           n == Cardinality(E)
           far == [e \in E |-> Around(start, position[e])]
           D == {i \in 1..n : s[i].position < start}
           behind == Cardinality(D)
           first == StartIndex(s, start)
           at(i) == ((first + i - 1) % n) + 1
           t == Turn(s, start)
<1>1. /\ n \in Nat /\ DOMAIN s = 1..n /\ Len(s) = n
      /\ \A i \in 1..n : s[i] \in E
      /\ \A i, j \in 1..n : i < j => position[s[i]] < position[s[j]]
  BY SortByLists
<1> HIDE DEF s, n
<1>2. RingSize \in Nat \ {0} /\ start \in 0..(RingSize - 1)
      /\ \A e \in E : position[e] \in 0..(RingSize - 1)
  BY RingAssumption DEF Positions
<1>3. \A e \in E :
         /\ Around(start, position[e]) \in Nat
         /\ Around(start, position[e])
               = IF position[e] >= start THEN position[e] - start
                                         ELSE position[e] + RingSize - start
  BY AroundIs
<1>4. Keyed(E, far)
  <2>1. ASSUME NEW e \in E, NEW f \in E,
               Around(start, position[e]) = Around(start, position[f])
        PROVE  e = f
    <3>1. position[e] = position[f]
      BY <1>2, <1>3, <2>1
    <3> QED BY <3>1 DEF Keyed
  <2> QED BY <1>3, <2>1 DEF Keyed
<1>5. behind \in 0..n /\ \A i \in 1..n : i <= behind <=> position[s[i]] < start
  <2>1. D \in SUBSET (1..n) /\ \A i \in 1..n : i \in D <=> position[s[i]] < start
    BY <1>1
  <2>2. ASSUME NEW i \in 1..n, NEW j \in D, i <= j PROVE i \in D
    <3>1. position[s[i]] <= position[s[j]]
      BY <1>1, <1>2, <2>1, <2>2
    <3>2. position[s[j]] < start /\ position[s[i]] \in Int
          /\ position[s[j]] \in Int
      BY <1>1, <1>2, <2>1, <2>2
    <3> QED BY <1>2, <2>1, <3>1, <3>2
  <2>3. behind \in 0..n /\ D = 1..behind
    BY <1>1, <2>1, <2>2, NoGaps
  <2> HIDE DEF D
  <2> QED BY <2>1, <2>3
<1>6. first = IF behind = n THEN 0 ELSE behind
  BY <1>1 DEF StartIndex
<1> HIDE DEF behind, first
<1>7. ASSUME NEW i \in 1..n
      PROVE  at(i) = IF first + i <= n THEN first + i ELSE first + i - n
  <2>1. n \in Nat \ {0} /\ first \in 0..(n - 1)
    BY <1>1, <1>5, <1>6
  <2> DEFINE a == first + i - 1
  <2>2. a \in 0..(2 * n - 1) /\ at(i) = (a % n) + 1
    BY <2>1
  <2> HIDE DEF a, at
  <2>3. a % n = IF a < n THEN a ELSE a - n
    BY <2>1, <2>2, ModOnce
  <2> QED BY <2>1, <2>2, <2>3 DEF a
<1>8. \A i \in 1..n : at(i) \in 1..n
  BY <1>1, <1>5, <1>6, <1>7
<1>9. t = [i \in 1..n |-> s[at(i)]]
  BY <1>1 DEF Turn, first
<1> HIDE DEF at
<1>10. ASSUME NEW i \in 1..n, NEW j \in 1..n, i < j
       PROVE  far[s[at(i)]] < far[s[at(j)]]
  <2>1. at(i) \in 1..n /\ at(j) \in 1..n /\ s[at(i)] \in E /\ s[at(j)] \in E
    BY <1>1, <1>8
  <2> DEFINE p == position[s[at(i)]]
             q == position[s[at(j)]]
  <2>2. p \in 0..(RingSize - 1) /\ q \in 0..(RingSize - 1)
    BY <1>2, <2>1
  <2>3. /\ far[s[at(i)]] = IF p >= start THEN p - start ELSE p + RingSize - start
        /\ far[s[at(j)]] = IF q >= start THEN q - start ELSE q + RingSize - start
    BY <1>3, <2>1
  <2>4. /\ at(i) <= behind <=> p < start
        /\ at(j) <= behind <=> q < start
        /\ at(i) < at(j) => p < q
    BY <1>1, <1>5, <2>1
  <2> HIDE DEF p, q
  <2>5. CASE at(i) < at(j) /\ (at(i) > behind \/ at(j) <= behind)
    BY <1>2, <1>5, <2>1, <2>2, <2>3, <2>4, <2>5
  <2>6. CASE at(i) > behind /\ at(j) <= behind
    BY <1>2, <1>5, <2>1, <2>2, <2>3, <2>4, <2>6
  <2>7. \/ at(i) < at(j) /\ (at(i) > behind \/ at(j) <= behind)
        \/ at(i) > behind /\ at(j) <= behind
    BY <1>1, <1>5, <1>6, <1>7, <1>10
  <2> QED BY <2>5, <2>6, <2>7
<1>11. t \in [1..Cardinality(E) -> E]
  BY <1>1, <1>8, <1>9 DEF n
<1>12. \A i, j \in 1..Cardinality(E) : i < j => far[t[i]] < far[t[j]]
  BY <1>9, <1>10 DEF n
<1> HIDE DEF t, far
<1>13. t = SortBy(E, far)
  BY <1>4, <1>11, <1>12, SortByUnique
<1> QED BY <1>4, <1>13 DEF t, far, s
-----------------------------------------------------------------------------
(* The candidates. *)

Count(r) == VirtualNodeCount(EffectiveCapacity(r))
Virtual(table) ==
    UNION {Entries(n, table, [m \in DOMAIN table |-> m]) : n \in DOMAIN table}

\* There are finitely many nodes, each has a virtual node, and two of them have
\* none at the same position.
WellPlaced(table) ==
    /\ IsFiniteSet(DOMAIN table)
    /\ \A n \in DOMAIN table : Count(table[n]) \in Nat \ {0}
    /\ \A m, n \in DOMAIN table :
          \A j \in 1..Count(table[m]), k \in 1..Count(table[n]) :
             /\ RingPosition(m, j) \in Positions
             /\ RingPosition(m, j) = RingPosition(n, k) => m = n

\* How far each node is from start, to its nearest virtual node.
Far(table, start) ==
    [n \in DOMAIN table |->
        Min({Around(start, RingPosition(n, k)) : k \in 1..Count(table[n])})]

LEMMA VirtualNodes ==
  ASSUME NEW table, WellPlaced(table)
  PROVE  /\ Keyed(Virtual(table), [e \in Virtual(table) |-> e.position])
         /\ \A e \in Virtual(table) :
               /\ e.position \in Positions /\ e.node \in DOMAIN table
               /\ \E k \in 1..Count(table[e.node]) :
                     e.position = RingPosition(e.node, k)
         /\ \A n \in DOMAIN table : \A k \in 1..Count(table[n]) :
               [position |-> RingPosition(n, k), node |-> n] \in Virtual(table)
<1> DEFINE V == Virtual(table)
           own(n) == {[position |-> RingPosition(n, k), node |-> n] :
                         k \in 1..Count(table[n])}
<1>1. \A n \in DOMAIN table :
         Entries(n, table, [m \in DOMAIN table |-> m]) = own(n)
  BY DEF Entries, Count
<1>2. V = UNION {own(n) : n \in DOMAIN table}
  <2> HIDE DEF own
  <2>1. {Entries(n, table, [m \in DOMAIN table |-> m]) : n \in DOMAIN table}
           = {own(n) : n \in DOMAIN table}
    BY <1>1, Zenon
  <2> QED BY <2>1 DEF Virtual
<1>3. ASSUME NEW n \in DOMAIN table PROVE IsFiniteSet(own(n))
  <2> DEFINE f == [k \in 1..Count(table[n]) |->
                      [position |-> RingPosition(n, k), node |-> n]]
  <2>1. Count(table[n]) \in Nat
    BY DEF WellPlaced
  <2>2. IsFiniteSet(1..Count(table[n]))
    BY <2>1, FS_Interval
  <2>3. f \in Surjection(1..Count(table[n]), own(n))
    BY DEF Surjection
  <2> QED BY <2>2, <2>3, FS_Surjection
<1>4. IsFiniteSet(V)
  <2> DEFINE g == [n \in DOMAIN table |-> own(n)]
             all == {own(n) : n \in DOMAIN table}
  <2>1. g \in Surjection(DOMAIN table, all)
    BY DEF Surjection
  <2>2. IsFiniteSet(all)
    BY <2>1, FS_Surjection DEF WellPlaced
  <2>3. \A x \in all : IsFiniteSet(x)
    BY <1>3
  <2> QED BY <1>2, <2>2, <2>3, FS_UNION
<1>5. ASSUME NEW e \in V
      PROVE  /\ e.node \in DOMAIN table /\ e.position \in Positions
             /\ e = [position |-> e.position, node |-> e.node]
             /\ \E k \in 1..Count(table[e.node]) :
                   e.position = RingPosition(e.node, k)
  <2>1. PICK n \in DOMAIN table : e \in own(n)
    <3> HIDE DEF own
    <3> QED BY <1>2
  <2>2. PICK k \in 1..Count(table[n]) :
           e = [position |-> RingPosition(n, k), node |-> n]
    BY <2>1
  <2> QED BY <2>2 DEF WellPlaced
<1>6. ASSUME NEW e \in V, NEW f \in V, e.position = f.position PROVE e = f
  <2>1. e.node = f.node
    BY <1>5, <1>6 DEF WellPlaced
  <2> QED BY <1>5, <1>6, <2>1
<1>7. \A e \in V : e.position \in Int
  BY <1>5, RingAssumption DEF Positions
<1>8. \A n \in DOMAIN table : \A k \in 1..Count(table[n]) :
         [position |-> RingPosition(n, k), node |-> n] \in V
  BY <1>2
<1> HIDE DEF V
<1>9. Keyed(V, [e \in V |-> e.position])
  BY <1>4, <1>6, <1>7 DEF Keyed
<1> QED BY <1>5, <1>8, <1>9 DEF V

\* The distance of a node is that of one of its virtual nodes, and no other of
\* them is nearer; it tells the nodes apart.
LEMMA FarIs ==
  ASSUME NEW table, WellPlaced(table), NEW start \in Positions
  PROVE  /\ Keyed(DOMAIN table, Far(table, start))
         /\ \A n \in DOMAIN table : \E e \in Virtual(table) :
               e.node = n /\ Far(table, start)[n] = Around(start, e.position)
         /\ \A e \in Virtual(table) :
               Far(table, start)[e.node] <= Around(start, e.position)
<1> DEFINE far == Far(table, start)
           V == Virtual(table)
           own(n) == {Around(start, RingPosition(n, k)) : k \in 1..Count(table[n])}
<1>1. ASSUME NEW n \in DOMAIN table
      PROVE  far[n] \in own(n) /\ far[n] \in Nat /\ \A a \in own(n) : far[n] <= a
  <2> DEFINE f == [k \in 1..Count(table[n]) |-> Around(start, RingPosition(n, k))]
  <2>1. Count(table[n]) \in Nat \ {0}
        /\ \A k \in 1..Count(table[n]) : RingPosition(n, k) \in Positions
    BY DEF WellPlaced
  <2>2. \A k \in 1..Count(table[n]) : Around(start, RingPosition(n, k)) \in Nat
    BY <2>1, AroundIs
  <2>3. own(n) \in SUBSET Nat
    BY <2>2
  <2>4. own(n) # {}
    <3>1. 1 \in 1..Count(table[n])
      BY <2>1
    <3> QED BY <3>1
  <2>5. f \in Surjection(1..Count(table[n]), own(n))
    BY DEF Surjection
  <2>6. IsFiniteSet(own(n))
    BY <2>1, <2>5, FS_Interval, FS_Surjection
  <2>7. far[n] = Min(own(n))
    BY DEF Far
  <2> HIDE DEF own, far
  <2>8. own(n) \in SUBSET Int
    BY <2>3
  <2> QED BY <2>3, <2>4, <2>6, <2>7, <2>8, MinIs
<1>2. ASSUME NEW n \in DOMAIN table
      PROVE  \E e \in V : e.node = n /\ far[n] = Around(start, e.position)
  <2>1. PICK k \in 1..Count(table[n]) : far[n] = Around(start, RingPosition(n, k))
    BY <1>1
  <2>2. [position |-> RingPosition(n, k), node |-> n] \in V
    BY VirtualNodes
  <2> QED BY <2>1, <2>2
<1>3. ASSUME NEW e \in V PROVE far[e.node] <= Around(start, e.position)
  <2>1. e.node \in DOMAIN table
        /\ \E k \in 1..Count(table[e.node]) :
              e.position = RingPosition(e.node, k)
    BY VirtualNodes
  <2>2. Around(start, e.position) \in own(e.node)
    BY <2>1
  <2> HIDE DEF own, far
  <2> QED BY <1>1, <2>1, <2>2
<1>4. ASSUME NEW m \in DOMAIN table, NEW n \in DOMAIN table, far[m] = far[n]
      PROVE  m = n
  <2>1. PICK e \in V : e.node = m /\ far[m] = Around(start, e.position)
    BY <1>2
  <2>2. PICK f \in V : f.node = n /\ far[n] = Around(start, f.position)
    BY <1>2
  <2>3. e.position \in Positions /\ f.position \in Positions
    BY VirtualNodes
  <2>4. e.position = f.position
    <3>1. start \in 0..(RingSize - 1) /\ RingSize \in Nat
          /\ e.position \in 0..(RingSize - 1) /\ f.position \in 0..(RingSize - 1)
      BY <2>3, RingAssumption DEF Positions
    <3>2. Around(start, e.position) = Around(start, f.position)
      BY <1>4, <2>1, <2>2
    <3> DEFINE p == e.position
               q == f.position
    <3> HIDE DEF p, q
    <3>3. /\ p \in Positions /\ q \in Positions
          /\ Around(start, p) = Around(start, q)
      BY <2>3, <3>2 DEF p, q
    <3>4. p = q
      <4>1. /\ Around(start, p) = IF p >= start THEN p - start
                                                ELSE p + RingSize - start
            /\ Around(start, q) = IF q >= start THEN q - start
                                                ELSE q + RingSize - start
        BY <3>3, AroundIs
      <4>2. p \in 0..(RingSize - 1) /\ q \in 0..(RingSize - 1)
        BY <3>3 DEF Positions
      <4>3. (IF p >= start THEN p - start ELSE p + RingSize - start)
               = IF q >= start THEN q - start ELSE q + RingSize - start
        BY <3>3, <4>1, Zenon
      <4>4. p \in Int /\ q \in Int /\ start \in Int /\ RingSize \in Int
            /\ 0 <= p /\ p < RingSize /\ 0 <= q /\ q < RingSize
        BY <3>1, <4>2
      <4> QED BY <4>3, <4>4
    <3> QED BY <3>4 DEF p, q
  <2>5. e = f
    BY <2>4, VirtualNodes DEF Keyed
  <2> QED BY <2>1, <2>2, <2>5
<1>5. Keyed(DOMAIN table, far)
  BY <1>1, <1>4 DEF Keyed, WellPlaced
<1> QED BY <1>2, <1>3, <1>5

Usable(table, exclude) ==
    {n \in DOMAIN table \ exclude : IsEligible(table[n])}

\* Whom the walk takes: the nodes that can be used, by their distance.
LEMMA TakenAreNearest ==
  ASSUME NEW table, WellPlaced(table), NEW start \in Positions, NEW exclude
  PROVE  LET walk == Walk(BuildRing(table), start)
         IN  Pick(walk, Taken(walk, table, exclude))
                = SortBy(Usable(table, exclude), Far(table, start))
<1> DEFINE V == Virtual(table)
           position == [e \in V |-> e.position]
           near == [e \in V |-> Around(start, position[e])]
           t == SortBy(V, near)
           n == Cardinality(V)
           far == Far(table, start)
           walk == Walk(BuildRing(table), start)
           I == Taken(walk, table, exclude)
           U == Usable(table, exclude)
<1>1. BuildRing(table) = SortBy(V, position)
  BY DEF BuildRing, Ring, Virtual
<1>2. /\ Keyed(V, near)
      /\ Turn(BuildRing(table), start) = t
  <2>1. Keyed(V, position) /\ \A e \in V : position[e] = e.position
                                           /\ position[e] \in Positions
    BY VirtualNodes
  <2> HIDE DEF V, position
  <2> QED BY <1>1, <2>1, TurnSorts
<1>3. /\ n \in Nat /\ DOMAIN t = 1..n
      /\ \A i \in 1..n : t[i] \in V
      /\ \A e \in V : \E i \in 1..n : t[i] = e
      /\ \A i, j \in 1..n : i < j => near[t[i]] < near[t[j]]
      /\ \A e \in V : near[e] \in Int
  <2>1. Keyed(V, near)
    BY <1>2
  <2> HIDE DEF near, V
  <2> QED BY <2>1, SortByLists DEF Keyed
<1>4. \A e \in V : near[e] = Around(start, e.position)
  OBVIOUS
<1>5. walk = [i \in 1..n |-> t[i].node]
  <2>1. DOMAIN BuildRing(table) = 1..n
    <3>1. Keyed(V, position)
      BY VirtualNodes
    <3> HIDE DEF V, position
    <3> QED BY <1>1, <3>1, SortByLists
  <2>2. Turn(BuildRing(table), start)
           = [i \in 1..n |-> BuildRing(table)[((StartIndex(BuildRing(table), start)
                                + i - 1) % Len(BuildRing(table))) + 1]]
    BY <2>1 DEF Turn
  <2>3. walk = [i \in 1..n |-> Turn(BuildRing(table), start)[i].node]
    BY <2>1, <2>2 DEF Walk
  <2> QED BY <1>2, <2>3
<1> HIDE DEF t, n, near, V, far, walk
<1>6. /\ Keyed(DOMAIN table, far)
      /\ \A m \in DOMAIN table : \E e \in V : e.node = m /\ far[m] = near[e]
      /\ \A e \in V : e.node \in DOMAIN table /\ far[e.node] <= near[e]
  <2>1. /\ \A m \in DOMAIN table : \E e \in Virtual(table) :
              e.node = m /\ Far(table, start)[m] = Around(start, e.position)
        /\ \A e \in Virtual(table) :
              Far(table, start)[e.node] <= Around(start, e.position)
    BY FarIs
  <2>2. \A e \in Virtual(table) : e.node \in DOMAIN table
    BY VirtualNodes
  <2>3. Keyed(DOMAIN table, far)
    BY FarIs DEF far
  <2> QED BY <1>4, <2>1, <2>2, <2>3 DEF far, V
<1>7. /\ I = {i \in 1..n : /\ walk[i] \notin exclude
                           /\ \A j \in 1..(i - 1) : walk[j] # walk[i]
                           /\ IsEligible(table[walk[i]])}
      /\ \A i \in 1..n : walk[i] = t[i].node /\ walk[i] \in DOMAIN table
  BY <1>3, <1>5, <1>6 DEF Taken
<1> HIDE DEF I
<1>8. ASSUME NEW i \in I PROVE walk[i] \in U /\ far[walk[i]] = near[t[i]]
  <2>1. i \in 1..n /\ walk[i] = t[i].node /\ walk[i] \in U /\ t[i] \in V
    BY <1>3, <1>7 DEF Usable
  <2>2. PICK e \in V : e.node = walk[i] /\ far[walk[i]] = near[e]
    BY <1>6, <1>7, <2>1
  <2>3. PICK j \in 1..n : t[j] = e
    BY <1>3
  <2>4. ~(j < i)
    <3>1. walk[j] = walk[i]
      BY <1>7, <2>2, <2>3
    <3>2. \A k \in 1..(i - 1) : walk[k] # walk[i]
      BY <1>7
    <3> QED BY <1>3, <2>1, <3>1, <3>2
  <2>5. near[t[i]] <= near[t[j]]
    BY <1>3, <2>1, <2>3, <2>4
  <2>6. far[walk[i]] <= near[t[i]]
    BY <1>6, <2>1
  <2>7. far[walk[i]] \in Int /\ near[t[i]] \in Int
    BY <1>3, <2>1, <2>2
  <2> QED BY <2>1, <2>2, <2>3, <2>5, <2>6, <2>7
<1>9. ASSUME NEW m \in U PROVE \E i \in I : walk[i] = m
  <2>1. m \in DOMAIN table /\ m \notin exclude /\ IsEligible(table[m])
    BY DEF Usable
  <2>2. PICK e \in V : e.node = m /\ far[m] = near[e]
    BY <1>6, <2>1
  <2>3. PICK i \in 1..n : t[i] = e
    BY <1>3
  <2>4. ASSUME NEW j \in 1..(i - 1) PROVE walk[j] # walk[i]
    <3>1. j \in 1..n /\ j < i
      BY <1>3, <2>3
    <3>2. near[t[j]] < near[t[i]] /\ t[j] \in V
      BY <1>3, <3>1
    <3>3. walk[j] = m => far[m] <= near[t[j]]
      BY <1>6, <1>7, <3>1, <3>2
    <3>4. walk[i] = m /\ far[m] = near[t[i]] /\ near[t[j]] \in Int /\ far[m] \in Int
      BY <1>3, <1>7, <2>2, <2>3, <3>2
    <3> QED BY <3>2, <3>3, <3>4
  <2> QED BY <1>7, <2>1, <2>2, <2>3, <2>4
<1>10. I \in SUBSET Int /\ IsFiniteSet(I)
  <2>1. IsFiniteSet(1..n) /\ I \in SUBSET (1..n)
    BY <1>3, <1>7, FS_Interval
  <2>2. I \in SUBSET Int
    BY <1>3, <2>1
  <2> QED BY <2>1, <2>2, FS_Subset
<1>11. Keyed(U, far)
  <2>1. U \in SUBSET DOMAIN table
    BY DEF Usable
  <2> QED BY <1>6, <2>1, FS_Subset DEF Keyed
<1>12. \A i, j \in I : i < j => far[walk[i]] < far[walk[j]]
  BY <1>3, <1>7, <1>8
<1> HIDE DEF U
<1>13. Pick(walk, I) = SortBy(U, far)
  BY <1>8, <1>9, <1>10, <1>11, <1>12, PickSorts
<1> QED BY <1>13 DEF walk, I, U, far

\* The beginning of a sequence.
LEMMA Beginning ==
  ASSUME NEW s, NEW m \in Nat
  PROVE  SubSeq(s, 1, m) = [i \in 1..m |-> s[i]]
OBVIOUS

\* placement_candidates finds the nodes that are eligible and not excluded,
\* the nearest first: as many as it is asked for, or all there are, whatever
\* the table, the position and the number (placement.py:92-119).
THEOREM NearestFirst ==
  ASSUME NEW table, WellPlaced(table), NEW start \in Positions, NEW exclude,
         NEW count \in Nat
  PROVE  LET nearest == SortBy(Usable(table, exclude), Far(table, start))
         IN  PlacementCandidates(BuildRing(table), table, start, count, exclude)
                = [i \in 1..Min({count, Cardinality(Usable(table, exclude))}) |->
                      nearest[i]]
<1> DEFINE nearest == SortBy(Usable(table, exclude), Far(table, start))
           U == Usable(table, exclude)
           walk == Walk(BuildRing(table), start)
<1>1. Pick(walk, Taken(walk, table, exclude)) = nearest
  BY TakenAreNearest
<1>2. Keyed(U, Far(table, start))
  <2>1. U \in SUBSET DOMAIN table
    BY DEF Usable
  <2> QED BY <2>1, FarIs, FS_Subset DEF Keyed
<1>3. Len(nearest) = Cardinality(U)
  BY <1>2, SortByLists
<1>4. CASE BuildRing(table) # <<>>
  <2> DEFINE m == Min({count, Cardinality(U)})
  <2>1. PlacementCandidates(BuildRing(table), table, start, count, exclude)
           = SubSeq(nearest, 1, m)
    BY <1>1, <1>3, <1>4 DEF PlacementCandidates
  <2>2. m \in Nat
    BY <1>2, FS_CardinalityType, MinOfTwo DEF Keyed
  <2> HIDE DEF nearest, m
  <2> QED BY <2>1, <2>2, Beginning DEF nearest, m
<1>5. CASE BuildRing(table) = <<>>
  <2>1. Virtual(table) = {}
    <3> DEFINE V == Virtual(table)
               position == [e \in V |-> e.position]
    <3>1. BuildRing(table) = SortBy(V, position)
      BY DEF BuildRing, Ring, Virtual
    <3>2. Keyed(V, position)
      BY VirtualNodes
    <3> HIDE DEF V, position
    <3>3. ASSUME NEW e \in V PROVE FALSE
      <4>1. \E i \in 1..Cardinality(V) : SortBy(V, position)[i] = e
        BY <3>2, SortByLists
      <4>2. 1..Cardinality(V) = {}
        <5>1. DOMAIN BuildRing(table) = 1..Cardinality(V)
          BY <3>1, <3>2, SortByLists
        <5> QED BY <1>5, <5>1
      <4> QED BY <4>1, <4>2
    <3>4. V = {}
      BY <3>3
    <3> QED BY <3>4 DEF V
  <2>2. U = {}
    BY <2>1, FarIs DEF Usable
  <2>3. Cardinality(U) = 0
    BY <2>2, FS_EmptySet
  <2>4. Min({count, 0}) = 0
    <3>1. \A x \in {count, 0} : (\A y \in {count, 0} : x <= y) <=> x = 0
      OBVIOUS
    <3> QED BY <3>1 DEF Min
  <2>5. PlacementCandidates(BuildRing(table), table, start, count, exclude) = <<>>
    BY <1>5 DEF PlacementCandidates
  <2>6. Min({count, Cardinality(U)}) = 0
    BY <2>3, <2>4
  <2> HIDE DEF nearest, U
  <2>7. [i \in 1..Min({count, Cardinality(U)}) |-> nearest[i]] = <<>>
    <3> DEFINE e == [i \in 1..0 |-> nearest[i]]
    <3>1. e \in Seq({nearest[i] : i \in {}})
      OBVIOUS
    <3>2. Len(e) = 0
      OBVIOUS
    <3> HIDE DEF e
    <3>3. e = <<>>
      BY <3>1, <3>2
    <3> QED BY <2>6, <3>3 DEF e
  <2> QED BY <2>5, <2>7 DEF nearest, U
<1> QED BY <1>4, <1>5
=============================================================================
