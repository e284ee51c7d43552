---------------------------- MODULE RegionsProofs ----------------------------
(***************************************************************************)
(* Proofs that the regions of the mock cluster partition the keys and that *)
(* a scan which pages through them returns every committed key once and in *)
(* order, for any number of keys, stores, clients and cluster operations,  *)
(* any batch size, any ranges given to SplitKeys that hold data and any    *)
(* number of groups.                                                       *)
(***************************************************************************)
EXTENDS Regions, FiniteSetTheorems, SequenceTheorems, TLAPS

-----------------------------------------------------------------------------
(* Sorting and searching. *)

\* A strict total order on S.
TotalOn(before, S) ==
    /\ \A x \in S : <<x, x>> \notin before
    /\ \A x, y, z \in S : <<x, y>> \in before /\ <<y, z>> \in before => <<x, z>> \in before
    /\ \A x, y \in S : x # y => <<x, y>> \in before \/ <<y, x>> \in before

\* sort.Slice: Ordered lists every element of a finite set once and in order.
LEMMA OrderedSorts ==
    ASSUME NEW S, IsFiniteSet(S), NEW before, TotalOn(before, S)
    PROVE  /\ Ordered(S, before) \in [1 .. Cardinality(S) -> S]
           /\ \A x \in S : \E n \in 1 .. Cardinality(S) : Ordered(S, before)[n] = x
           /\ \A m, n \in 1 .. Cardinality(S) :
                m < n => <<Ordered(S, before)[m], Ordered(S, before)[n]>> \in before
<1> DEFINE N == Cardinality(S)
           lower(x) == {y \in S : <<y, x>> \in before}
           rank == [x \in S |-> Cardinality(lower(x)) + 1]
           q == Ordered(S, before)
<1>1. N \in Nat
  BY FS_CardinalityType
<1>2. \A x \in S : IsFiniteSet(lower(x)) /\ Cardinality(lower(x)) \in Nat
  BY FS_Subset, FS_CardinalityType
<1>r. \A x \in S : rank[x] = Cardinality(lower(x)) + 1
  OBVIOUS
<1>f. rank = [x \in S |-> rank[x]]
  OBVIOUS
<1> HIDE DEF rank
<1>3. ASSUME NEW x \in S
      PROVE  rank[x] \in 1 .. N
  <2>1. lower(x) \in SUBSET (S \ {x})
    BY DEF TotalOn
  <2>2. IsFiniteSet(S \ {x}) /\ Cardinality(S \ {x}) = N - 1
    BY FS_RemoveElement
  <2>3. Cardinality(lower(x)) <= N - 1
    <3> HIDE DEF lower
    <3> QED  BY ONLY <2>1, <2>2, FS_Subset
  <2> QED  BY <2>3, <1>1, <1>2, <1>r
<1>4. ASSUME NEW x \in S, NEW y \in S, <<x, y>> \in before
      PROVE  rank[x] < rank[y]
  <2>1. lower(x) \cup {x} \in SUBSET lower(y) /\ x \notin lower(x)
    BY <1>4 DEF TotalOn
  <2>2. Cardinality(lower(x) \cup {x}) = Cardinality(lower(x)) + 1
    BY <2>1, <1>2, FS_AddElement
  <2>3. Cardinality(lower(x) \cup {x}) <= Cardinality(lower(y))
    BY ONLY <2>1, <1>2, FS_Subset
  <2>4. rank[x] = Cardinality(lower(x)) + 1 /\ rank[y] = Cardinality(lower(y)) + 1
    BY <1>r
  <2> HIDE DEF lower
  <2> QED  BY <2>2, <2>3, <2>4, <1>2
<1>5. \A x, y \in S : rank[x] = rank[y] => x = y
  <2> SUFFICES ASSUME NEW x \in S, NEW y \in S, x # y
               PROVE  rank[x] # rank[y]
    OBVIOUS
  <2>1. rank[x] \in Int /\ rank[y] \in Int
    BY <1>3
  <2>2. rank[x] < rank[y] \/ rank[y] < rank[x]
    BY <1>4 DEF TotalOn
  <2> QED  BY <2>1, <2>2
<1>6. rank \in Injection(S, 1 .. N)
  <2>1. rank \in [S -> 1 .. N]
    BY <1>3, <1>f
  <2> QED  BY <2>1, <1>5 DEF Injection, IsInjective
<1>7. IsFiniteSet(1 .. N) /\ Cardinality(1 .. N) = N
  BY <1>1, FS_Interval
<1>8. rank \in Surjection(S, 1 .. N)
  BY <1>6, <1>7, FS_Injection
<1>9. \A n \in 1 .. N : \E x \in S : rank[x] = n
  BY <1>8 DEF Surjection
<1>10. ASSUME NEW n \in 1 .. N
       PROVE  q[n] \in S /\ rank[q[n]] = n
  <2>1. q[n] = CHOOSE y \in S : Cardinality(lower(y)) = n - 1
    BY DEF Ordered
  <2>2. \A x \in S : rank[x] = n <=> Cardinality(lower(x)) = n - 1
    <3> HIDE DEF lower
    <3> QED  BY <1>1, <1>2, <1>r
  <2> HIDE DEF q, lower
  <2> QED  BY <2>1, <2>2, <1>9
<1>11. q \in [1 .. N -> S]
  BY <1>10 DEF Ordered
<1>12. \A x \in S : rank[x] \in 1 .. N /\ q[rank[x]] = x
  BY <1>3, <1>10, <1>5
<1>13. ASSUME NEW m \in 1 .. N, NEW n \in 1 .. N, m < n
       PROVE  <<q[m], q[n]>> \in before
  <2>1. rank[q[m]] = m /\ rank[q[n]] = n /\ q[m] \in S /\ q[n] \in S
    BY <1>10
  <2> HIDE DEF q
  <2>2. q[m] # q[n]
    BY <2>1, <1>13
  <2>3. ~(<<q[n], q[m]>> \in before)
    BY <2>1, <1>4, <1>13, <1>1
  <2> QED  BY <2>1, <2>2, <2>3 DEF TotalOn
<1> QED  BY <1>11, <1>12, <1>13

\* Bounds that begin at or below k and end above it hold k between two of them.
LEMMA BetweenBounds ==
    ASSUME NEW g \in Nat, NEW b, \A j \in 1 .. g + 1 : b[j] \in Int,
           NEW k \in Int, b[1] <= k, k < b[g + 1]
    PROVE  \E j \in 1 .. g : b[j] <= k /\ k < b[j + 1]
<1> SUFFICES ASSUME \A j \in 1 .. g : b[j] <= k => b[j + 1] <= k
             PROVE  FALSE
  <2>1. \A j \in 1 .. g : b[j + 1] \in Int
    OBVIOUS
  <2> QED  BY <2>1
<1> DEFINE J == {j \in 1 .. g + 1 : b[j] <= k}
           f == [j \in J |-> j + 1]
<1>1. IsFiniteSet(J) /\ Cardinality(J) \in Nat
  <2>1. IsFiniteSet(1 .. g + 1)
    BY FS_Interval
  <2> QED  BY <2>1, FS_Subset, FS_CardinalityType
<1>2. 1 \in J
  OBVIOUS
<1>3. IsFiniteSet(J \ {1}) /\ Cardinality(J \ {1}) = Cardinality(J) - 1
  BY <1>1, <1>2, FS_RemoveElement
<1>4. \A j \in J : j \in Nat /\ j + 1 \in J \ {1}
  OBVIOUS
<1> HIDE DEF J
<1>5. f \in Injection(J, J \ {1})
  BY <1>4 DEF Injection, IsInjective
<1>6. Cardinality(J) <= Cardinality(J \ {1})
  BY <1>3, <1>5, FS_Injection
<1> QED  BY <1>1, <1>3, <1>6

-----------------------------------------------------------------------------
(* The groups of getEntriesGroupByRegions. *)

LEMMA MoreTimes ==
    ASSUME NEW a \in Nat, NEW b \in Nat, NEW q \in Nat \ {0}, a < b
    PROVE  a * q < b * q /\ a * q \in Nat /\ b * q \in Nat
<1>1. b * q = a * q + (b - a) * q
  OBVIOUS
<1>2. (b - a) * q \in Nat \ {0}
  OBVIOUS
<1>3. a * q \in Nat
  OBVIOUS
<1> QED  BY <1>1, <1>2, <1>3

\* A group starts after the one before it, and at one of the pairs.
LEMMA GroupsGrow ==
    ASSUME NEW n \in Nat \ {0}, NEW count \in Nat \ {0}
    PROVE  /\ Groups(n, count) \in 1 .. n
           /\ GroupStart(n, count, 1) = 1
           /\ \A j \in 1 .. Groups(n, count) : GroupStart(n, count, j) \in 1 .. n
           /\ \A j, l \in 1 .. Groups(n, count) :
                j < l => GroupStart(n, count, j) < GroupStart(n, count, l)
<1> DEFINE q == n \div count
           m == n % count
<1>1. q \in Nat /\ m \in Nat /\ n = count * q + m /\ m < count
  OBVIOUS
<1>2. GroupStart(n, count, 1) = 1
  BY <1>1 DEF GroupStart
<1>3. CASE n < count
  <2>1. q = 0 /\ m = n
    BY <1>1, <1>3
  <2>2. Groups(n, count) = n
    BY <1>3 DEF Groups
  <2>3. \A j \in 1 .. n : GroupStart(n, count, j) = j
    BY <2>1 DEF GroupStart
  <2> QED  BY <1>2, <2>2, <2>3
<1>4. CASE ~(n < count)
  <2>1. q \in Nat \ {0}
    <3>1. q = 0 => n = m
      BY <1>1
    <3> QED  BY <3>1, <1>1, <1>4
  <2>2. Groups(n, count) = count
    BY <1>4 DEF Groups
  <2>3. \A j \in 1 .. count : (j - 1) * q \in Nat
    BY <2>1
  <2>4. \A j \in 1 .. count :
           GroupStart(n, count, j) = (j - 1) * q + (IF j - 1 <= m THEN j - 1 ELSE m) + 1
    BY DEF GroupStart
  <2>5. ASSUME NEW j \in 1 .. count, NEW l \in 1 .. count, j < l
        PROVE  (j - 1) * q < (l - 1) * q
    <3> HIDE DEF q
    <3>1. j - 1 \in Nat /\ l - 1 \in Nat /\ j - 1 < l - 1
      BY <2>5
    <3> QED  BY ONLY <3>1, <2>1, MoreTimes
  <2>6. (count - 1) * q + q + m = n
    <3> HIDE DEF q, m
    <3> QED  BY <1>1
  <2>7. \A j \in 1 .. count : (j - 1) * q <= (count - 1) * q
    <3> HIDE DEF q
    <3>1. SUFFICES ASSUME NEW j \in 1 .. count, j # count PROVE (j - 1) * q <= (count - 1) * q
      BY <2>3
    <3>2. (j - 1) * q < (count - 1) * q
      BY <2>5, <3>1
    <3>3. (j - 1) * q \in Nat /\ (count - 1) * q \in Nat
      BY <2>3
    <3> QED  BY <3>2, <3>3
  <2> DEFINE t(j) == (j - 1) * q
  <2>8. \A j \in 1 .. count : t(j) \in Nat /\ t(j) + q + m <= n
                              /\ GroupStart(n, count, j) = t(j) + (IF j - 1 <= m THEN j - 1 ELSE m) + 1
    <3>1. \A j \in 1 .. count : t(j) \in Nat /\ t(j) <= t(count) /\ t(count) + q + m = n
      BY <2>3, <2>6, <2>7
    <3>2. count \in 1 .. count
      OBVIOUS
    <3> HIDE DEF t, q, m
    <3> QED  BY <3>1, <3>2, <2>1, <1>1, <2>4 DEF t
  <2>9. \A j, l \in 1 .. count : j < l => t(j) < t(l)
    BY <2>5
  <2> HIDE DEF t, q, m
  <2>10. \A j \in 1 .. count : GroupStart(n, count, j) \in 1 .. n
    BY <2>8, <2>1, <1>1
  <2>11. \A j, l \in 1 .. count : j < l => GroupStart(n, count, j) < GroupStart(n, count, l)
    BY <2>8, <2>9, <1>1
  <2> QED  BY <1>2, <2>2, <2>10, <2>11, <1>4
<1> QED  BY <1>3, <1>4

-----------------------------------------------------------------------------
(* The ranges createNewRegions makes. *)

LEMMA KeysAreNat ==
    /\ MaxKey \in Nat \ {0} /\ Data \subseteq Key
    /\ \A k \in Key : k \in Nat /\ k # 0 /\ k <= MaxKey
<1>1. MaxKey \in Nat \ {0} /\ Data \subseteq Key
  BY RegionsAssumption
<1> QED  BY <1>1 DEF Key

PairsOf(s, e) == Ascending({k \in Data : s <= k /\ k < e})

\* The pairs scanned for [s, e) lie in it, in order.
LEMMA PairsSorted ==
    ASSUME NEW s \in Key, NEW e \in Key, {k \in Data : s <= k /\ k < e} # {}
    PROVE  /\ PairsOf(s, e) \in Seq(Key) /\ Len(PairsOf(s, e)) \in Nat \ {0}
           /\ \A n \in 1 .. Len(PairsOf(s, e)) :
                PairsOf(s, e)[n] \in Key /\ s <= PairsOf(s, e)[n] /\ PairsOf(s, e)[n] < e
           /\ \A m, n \in 1 .. Len(PairsOf(s, e)) : m < n => PairsOf(s, e)[m] < PairsOf(s, e)[n]
<1> DEFINE S == {k \in Data : s <= k /\ k < e}
           before == {p \in Key \X Key : p[1] < p[2]}
           q == Ordered(S, before)
<1>1. S \subseteq Key /\ Data \subseteq Key /\ \A k \in Key : k \in Nat
  BY KeysAreNat
<1>2. IsFiniteSet(S) /\ Cardinality(S) \in Nat \ {0}
  <2>1. IsFiniteSet(Key)
    BY KeysAreNat, FS_Interval DEF Key
  <2>2. IsFiniteSet(S)
    BY <1>1, <2>1, FS_Subset
  <2> QED  BY <2>2, FS_EmptySet, FS_CardinalityType
<1>3. \A x, y \in S : <<x, y>> \in before <=> x < y
  BY <1>1
<1>4. TotalOn(before, S)
  <2>1. \A x \in S : x \in Nat
    BY <1>1
  <2> HIDE DEF S, before
  <2> QED  BY <1>3, <2>1 DEF TotalOn
<1> HIDE DEF before
<1>5. /\ q \in [1 .. Cardinality(S) -> S]
      /\ \A m, n \in 1 .. Cardinality(S) : m < n => <<q[m], q[n]>> \in before
  <2> HIDE DEF S
  <2> QED  BY <1>2, <1>4, OrderedSorts
<1>6. \A n \in 1 .. Cardinality(S) : q[n] \in S /\ q[n] \in Key /\ s <= q[n] /\ q[n] < e
  BY <1>5, <1>1
<1>7. \A m, n \in 1 .. Cardinality(S) : m < n => q[m] < q[n]
  <2> HIDE DEF S, q
  <2> QED  BY <1>3, <1>5, <1>6
<1>8. q \in Seq(Key) /\ Len(q) = Cardinality(S)
  <2> HIDE DEF S, q
  <2> QED  BY <1>2, <1>5, <1>6
<1>9. PairsOf(s, e) = q
  BY DEF PairsOf, Ascending, before
<1> HIDE DEF S, q
<1> QED  BY <1>2, <1>6, <1>7, <1>8, <1>9

\* They follow one another from s to e, and none is empty.
TileRange(made, s, e) ==
    /\ made \in Seq(Key \X Key)
    /\ \A n \in 1 .. Len(made) : s <= made[n][1] /\ made[n][1] < made[n][2] /\ made[n][2] <= e
    /\ \A k \in s .. e - 1 : \E n \in 1 .. Len(made) : made[n][1] <= k /\ k < made[n][2]
    /\ \A m, n \in 1 .. Len(made) : m < n => made[m][2] <= made[n][1]

LEMMA NewRangesTile ==
    ASSUME NEW s \in Key, NEW e \in Key, NEW count \in Nat \ {0},
           {k \in Data : s <= k /\ k < e} # {}
    PROVE  TileRange(NewRanges(s, e, count), s, e)
<1> DEFINE pairs == PairsOf(s, e)
           L == Len(pairs)
           g == Groups(L, count)
           first(j) == GroupStart(L, count, j)
           b == [j \in 1 .. g + 1 |-> IF j = 1 THEN s ELSE IF j = g + 1 THEN e ELSE pairs[first(j)]]
           made == [j \in 1 .. g |-> <<b[j], b[j + 1]>>]
<1>1. /\ L \in Nat \ {0}
      /\ \A n \in 1 .. L : pairs[n] \in Key /\ s <= pairs[n] /\ pairs[n] < e
      /\ \A m, n \in 1 .. L : m < n => pairs[m] < pairs[n]
  BY PairsSorted
<1>2. (\A k \in Key : k \in Nat) /\ s < e
  <2>1. 1 \in 1 .. L
    BY <1>1
  <2> HIDE DEF pairs, L
  <2> QED  BY <2>1, <1>1, KeysAreNat
<1>3. /\ g \in 1 .. L /\ first(1) = 1
      /\ \A j \in 1 .. g : first(j) \in 1 .. L
      /\ \A j, l \in 1 .. g : j < l => first(j) < first(l)
  <2> HIDE DEF L
  <2> QED  BY <1>1, GroupsGrow
<1>4. g \in Nat \ {0}
  <2> HIDE DEF g, L
  <2> QED  BY <1>1, <1>3
<1>5. NewRanges(s, e, count) = made
  <2>1. \A j \in 1 .. g : j + 1 # 1 /\ j # g + 1 /\ (j + 1 = g + 1 <=> j = g)
                          /\ j \in 1 .. g + 1 /\ j + 1 \in 1 .. g + 1
    <3> HIDE DEF g
    <3> QED  BY <1>4
  <2>2. NewRanges(s, e, count) =
           [j \in 1 .. g |-> <<IF j = 1 THEN s ELSE pairs[first(j)],
                               IF j = g THEN e ELSE pairs[first(j + 1)]>>]
    BY DEF NewRanges, PairsOf
  <2> HIDE DEF g, pairs, L, first
  <2> QED  BY <2>1, <2>2
<1>6. \A j \in 1 .. g + 1 : b[j] \in Key /\ s <= b[j] /\ b[j] <= e
  <2> SUFFICES ASSUME NEW j \in 1 .. g + 1
               PROVE  b[j] \in Key /\ s <= b[j] /\ b[j] <= e
    OBVIOUS
  <2>1. b[j] = IF j = 1 THEN s ELSE IF j = g + 1 THEN e ELSE pairs[first(j)]
    OBVIOUS
  <2>2. j # g + 1 => j \in 1 .. g
    <3> HIDE DEF g
    <3> QED  BY <1>4
  <2> HIDE DEF b, g, pairs, L, first
  <2> QED  BY <2>1, <2>2, <1>1, <1>2, <1>3
<1>7. \A j \in 1 .. g : b[j] < b[j + 1]
  <2> SUFFICES ASSUME NEW j \in 1 .. g
               PROVE  b[j] < b[j + 1]
    OBVIOUS
  <2>1. j \in 1 .. g + 1 /\ j + 1 \in 1 .. g + 1 /\ j # g + 1 /\ j + 1 # 1
        /\ (j = g <=> j + 1 = g + 1) /\ (j # g => j + 1 \in 1 .. g) /\ j < j + 1 /\ 1 \in 1 .. g
    <3> HIDE DEF g
    <3> QED  BY <1>4
  <2>2. /\ b[j] = IF j = 1 THEN s ELSE pairs[first(j)]
        /\ b[j + 1] = IF j = g THEN e ELSE pairs[first(j + 1)]
    BY <2>1
  <2> HIDE DEF b, g
  <2>3. first(j) \in 1 .. L /\ (j # g => first(j + 1) \in 1 .. L /\ first(j) < first(j + 1))
    BY <2>1, <1>3
  <2>4. pairs[first(j)] \in Key /\ s <= pairs[first(j)] /\ pairs[first(j)] < e
    BY <2>3, <1>1
  <2>5. j # g => pairs[first(j + 1)] \in Key /\ pairs[first(j)] < pairs[first(j + 1)]
    BY <2>3, <1>1
  <2> HIDE DEF first, pairs, L
  <2> QED  BY <2>2, <2>4, <2>5, <1>2
<1>8. ASSUME NEW m \in 1 .. g, NEW n \in 1 .. g, m < n
      PROVE  b[m + 1] <= b[n]
  <2>1. m + 1 \in 1 .. g /\ m + 1 # 1 /\ m + 1 # g + 1 /\ n # 1 /\ n # g + 1
        /\ m + 1 \in 1 .. g + 1 /\ n \in 1 .. g + 1 /\ (m + 1 = n \/ m + 1 < n)
    <3> HIDE DEF g
    <3> QED  BY <1>4, <1>8
  <2>2. b[m + 1] = pairs[first(m + 1)] /\ b[n] = pairs[first(n)]
    BY <2>1
  <2>3. b[m + 1] \in Nat /\ b[n] \in Nat
    BY <2>1, <1>6, <1>2
  <2> HIDE DEF b, g
  <2>4. CASE m + 1 = n
    BY <2>4, <2>3
  <2>5. CASE m + 1 < n
    <3>1. first(m + 1) \in 1 .. L /\ first(n) \in 1 .. L /\ first(m + 1) < first(n)
      BY <2>1, <2>5, <1>3
    <3>2. pairs[first(m + 1)] < pairs[first(n)]
      BY <3>1, <1>1
    <3> HIDE DEF first, pairs, L
    <3> QED  BY <3>2, <2>2, <2>3
  <2> QED  BY <2>1, <2>4, <2>5
<1>9. ASSUME NEW k \in s .. e - 1
      PROVE  \E j \in 1 .. g : b[j] <= k /\ k < b[j + 1]
  <2>1. b[1] = s /\ b[g + 1] = e
    <3>1. 1 \in 1 .. g + 1 /\ g + 1 \in 1 .. g + 1 /\ g + 1 # 1
      <4> HIDE DEF g
      <4> QED  BY <1>4
    <3> QED  BY <3>1
  <2> HIDE DEF b, g
  <2>2. k \in Int /\ b[1] <= k /\ k < b[g + 1]
    BY <2>1, <1>2
  <2>3. \A j \in 1 .. g + 1 : b[j] \in Int
    BY <1>6, <1>2
  <2> QED  BY ONLY <2>2, <2>3, <1>4, BetweenBounds
<1>10. \A n \in 1 .. g : n \in 1 .. g + 1 /\ n + 1 \in 1 .. g + 1
  <2> HIDE DEF g
  <2> QED  BY <1>4
<1> HIDE DEF b, g
<1>11. made \in Seq(Key \X Key) /\ Len(made) = g
  BY <1>4, <1>6, <1>10
<1>12. \A n \in 1 .. g : made[n][1] = b[n] /\ made[n][2] = b[n + 1]
  OBVIOUS
<1> HIDE DEF made
<1>13. \A n \in 1 .. g : s <= made[n][1] /\ made[n][1] < made[n][2] /\ made[n][2] <= e
  BY <1>6, <1>7, <1>10, <1>12
<1>14. \A k \in s .. e - 1 : \E n \in 1 .. g : made[n][1] <= k /\ k < made[n][2]
  BY <1>9, <1>12
<1>15. \A m, n \in 1 .. g : m < n => made[m][2] <= made[n][1]
  BY <1>8, <1>12
<1> QED  BY <1>5, <1>11, <1>13, <1>14, <1>15 DEF TileRange

-----------------------------------------------------------------------------
(* The inductive invariant. *)

RegionFields == {"start", "end", "conf", "ver", "peers", "leader"}

RegionTyped(r) ==
    /\ DOMAIN r = RegionFields
    /\ r.start \in 0 .. MaxKey /\ r.end \in 1 .. NoEnd
    /\ r.ver \in Nat
    /\ IsFiniteSet(r.peers)

\* Region rs[i] for the i of its domain, IDs that were given out.
RegionsTyped(rs, last) ==
    /\ last \in Nat
    /\ DOMAIN rs \subseteq 1 .. last
    /\ rs = [i \in DOMAIN rs |-> rs[i]]
    /\ \A i \in DOMAIN rs : RegionTyped(rs[i])

Holds(r, k) == r.start <= k /\ k < r.end

\* Every key, and the empty start key 0, lies in one region.
Tiling(rs) ==
    /\ \A i \in DOMAIN rs : rs[i].start <= rs[i].end
    /\ \A k \in 0 .. MaxKey : \E i \in DOMAIN rs : Holds(rs[i], k)
    /\ \A k \in 0 .. MaxKey : \A i, j \in DOMAIN rs : Holds(rs[i], k) /\ Holds(rs[j], k) => i = j

Proper(rs) == \A i \in DOMAIN rs : rs[i].start < rs[i].end

\* What a client may have cached as r: with the same version, the range is the same.
SameOrNewer(r, new) ==
    /\ r.ver <= new.ver
    /\ new.ver = r.ver => new.start = r.start /\ new.end = r.end

\* A region that stays is as it was or has a newer version; no ID comes back.
Aged(rs, last, new) ==
    \A i \in DOMAIN new :
        IF i \in DOMAIN rs THEN SameOrNewer(rs[i], new[i]) ELSE i > last

\* What an operation on the regions keeps.
RegionsFollow(rs, last, new) ==
    /\ Aged(rs, last, new)
    /\ Tiling(rs) => Tiling(new)
    /\ Proper(rs) => Proper(new)

\* A split left an empty region, or overlapping ones.
Emptied == StaleSplit \/ RepeatedSplit

ClientFields == {"cmd", "key", "to", "pc", "region", "meta", "peer", "start", "end", "err", "out"}

\* Only a splitter splits, at a key, and a stale split is its last step.
ClientTyped(c, m) ==
    /\ DOMAIN m = ClientFields
    /\ m.cmd = "SplitRegion" => c \in Splitter /\ m.key \in Key
    /\ m.pc = "split" => m.cmd = "SplitRegion"
    /\ m.err \in {"stale", "repeated"} => m.pc = "done"

ClientsTyped ==
    /\ DOMAIN cli = Client
    /\ \A c \in Client : ClientTyped(c, cli[c])

RegionsInv ==
    /\ RegionsTyped(regions, id)
    /\ ClientsTyped
    /\ StaleSplit \/ Tiling(regions)
    /\ Emptied \/ Proper(regions)

-----------------------------------------------------------------------------
(* What the operations on regions do. *)

LEMMA RegionsFinite ==
    ASSUME NEW rs, NEW last, RegionsTyped(rs, last)
    PROVE  IsFiniteSet(DOMAIN rs)
<1>1. DOMAIN rs \subseteq 1 .. last /\ last \in Nat
  BY DEF RegionsTyped
<1>2. IsFiniteSet(1 .. last)
  BY <1>1, FS_Interval
<1> QED  BY <1>1, <1>2, FS_Subset

LEMMA ContainsHolds ==
    ASSUME NEW r, RegionTyped(r), NEW k \in 0 .. MaxKey
    PROVE  RegionContains(r, k) <=> Holds(r, k)
BY KeysAreNat DEF RegionTyped, RegionContains, Holds, NoEnd

LEMMA RangeUpdated ==
    ASSUME NEW r, DOMAIN r = RegionFields, IsFiniteSet(r.peers), r.ver \in Nat,
           NEW s \in 0 .. MaxKey, NEW e \in 1 .. NoEnd
    PROVE  LET u == UpdateKeyRange(r, s, e) IN
           RegionTyped(u) /\ u.start = s /\ u.end = e /\ u.peers = r.peers /\ u.ver = r.ver + 1
BY DEF UpdateKeyRange, RegionTyped, RegionFields

LEMMA RegionMade ==
    ASSUME NEW s, NEW e, NEW peers, NEW leader
    PROVE  LET r == NewRegion(s, e, peers, leader) IN
           DOMAIN r = RegionFields /\ r.start = s /\ r.end = e /\ r.peers = peers /\ r.ver = 0
BY DEF NewRegion, RegionFields

\* Peers or the leader of a region change: its keys do not.
LEMMA SameKeysTile ==
    ASSUME NEW rs, NEW new, DOMAIN new = DOMAIN rs, Tiling(rs),
           \A i \in DOMAIN rs : new[i].start = rs[i].start /\ new[i].end = rs[i].end
    PROVE  Tiling(new)
BY DEF Tiling, Holds

\* Region i of rs gives the keys from k on to the new region.
IsSplit(split, rs, i, new, k) ==
    /\ DOMAIN split = DOMAIN rs \cup {new} /\ new \notin DOMAIN rs
    /\ split[i].start = rs[i].start /\ split[i].end = k /\ split[i].ver = rs[i].ver + 1
    /\ split[new].start = k /\ split[new].end = rs[i].end
    /\ \A j \in DOMAIN rs \ {i} : split[j] = rs[j]

LEMMA SplitTyped ==
    ASSUME NEW rs, NEW last, RegionsTyped(rs, last), NEW i \in DOMAIN rs,
           NEW k \in Key, NEW peers, IsFiniteSet(peers), NEW leader
    PROVE  LET split == SplitAt(rs, i, last + 1, k, peers, leader) IN
           /\ \A n \in Nat : last + 1 <= n => RegionsTyped(split, n)
           /\ IsSplit(split, rs, i, last + 1, k)
<1> DEFINE new == last + 1
           low == UpdateKeyRange(rs[i], rs[i].start, k)
           made == NewRegion(0, 0, peers, leader)
           high == UpdateKeyRange(made, k, rs[i].end)
           split == SplitAt(rs, i, last + 1, k, peers, leader)
<1>1. last \in Nat /\ (\A j \in DOMAIN rs : j \in 1 .. last /\ RegionTyped(rs[j]))
  BY DEF RegionsTyped
<1>2. k \in 0 .. MaxKey /\ k \in 1 .. NoEnd
  BY KeysAreNat DEF NoEnd
<1>3. DOMAIN rs[i] = RegionFields /\ rs[i].start \in 0 .. MaxKey /\ rs[i].end \in 1 .. NoEnd
      /\ IsFiniteSet(rs[i].peers) /\ rs[i].ver \in Nat
  BY <1>1 DEF RegionTyped
<1>4. RegionTyped(low) /\ low.start = rs[i].start /\ low.end = k /\ low.ver = rs[i].ver + 1
  BY <1>2, <1>3, RangeUpdated
<1>5. RegionTyped(high) /\ high.start = k /\ high.end = rs[i].end
  <2>1. DOMAIN made = RegionFields /\ made.peers = peers /\ made.ver = 0
    BY RegionMade
  <2> HIDE DEF made
  <2> QED  BY <2>1, <1>2, <1>3, RangeUpdated
<1>6. new \notin DOMAIN rs /\ new # i /\ \A j \in DOMAIN rs : j # new
  BY <1>1
<1>7. split = [j \in DOMAIN rs \cup {new} |->
                 IF j = new THEN high ELSE IF j = i THEN low ELSE rs[j]]
  <2> HIDE DEF low, high, made
  <2>1. split = Put(Put(rs, i, low), new, high)
    BY DEF SplitAt, low, high, made
  <2> QED  BY <2>1, <1>6 DEF Put
<1> HIDE DEF low, high, split, made
<1>8. DOMAIN split = DOMAIN rs \cup {new} /\ split[new] = high /\ split[i] = low
      /\ \A j \in DOMAIN rs \ {i} : split[j] = rs[j]
  BY <1>6, <1>7
<1>9. ASSUME NEW n \in Nat, last + 1 <= n
      PROVE  RegionsTyped(split, n)
  <2>1. new \in 1 .. n /\ \A j \in DOMAIN rs : j \in 1 .. n
    BY <1>1, <1>9
  <2>2. \A j \in DOMAIN split : RegionTyped(split[j])
    BY <1>1, <1>4, <1>5, <1>8
  <2>3. split = [j \in DOMAIN split |-> split[j]]
    BY <1>7
  <2> HIDE DEF new
  <2> QED  BY <2>1, <2>2, <2>3, <1>6, <1>8 DEF RegionsTyped
<1>10. IsSplit(split, rs, i, new, k)
  BY <1>4, <1>5, <1>6, <1>8 DEF IsSplit
<1> QED  BY <1>9, <1>10 DEF split

\* Region.split at a key of the region.
LEMMA SplitTiles ==
    ASSUME NEW rs, NEW last, RegionsTyped(rs, last), Tiling(rs), NEW i \in DOMAIN rs,
           NEW k \in Key, Holds(rs[i], k), NEW peers, IsFiniteSet(peers), NEW leader
    PROVE  Tiling(SplitAt(rs, i, last + 1, k, peers, leader))
<1> DEFINE new == last + 1
           split == SplitAt(rs, i, last + 1, k, peers, leader)
<1>1. /\ DOMAIN split = DOMAIN rs \cup {new} /\ new \notin DOMAIN rs
      /\ split[i].start = rs[i].start /\ split[i].end = k
      /\ split[new].start = k /\ split[new].end = rs[i].end
      /\ \A j \in DOMAIN rs \ {i} : split[j] = rs[j]
  <2>1. IsSplit(split, rs, i, new, k)
    BY SplitTyped
  <2> HIDE DEF split, new
  <2> QED  BY <2>1 DEF IsSplit
<1>2. k \in Nat /\ rs[i].start <= k /\ k < rs[i].end
      /\ \A j \in DOMAIN rs : rs[j].start \in Nat /\ rs[j].end \in Nat /\ rs[j].start <= rs[j].end
  BY KeysAreNat DEF Holds, RegionsTyped, RegionTyped, NoEnd, Tiling
<1> HIDE DEF split, new
<1>3. \A x \in 0 .. MaxKey :
        /\ Holds(split[new], x) <=> Holds(rs[i], x) /\ k <= x
        /\ Holds(split[i], x) <=> Holds(rs[i], x) /\ x < k
        /\ \A j \in DOMAIN rs \ {i} : Holds(split[j], x) <=> Holds(rs[j], x)
  <2>1. \A x \in 0 .. MaxKey : x \in Nat
    OBVIOUS
  <2> QED  BY <2>1, <1>1, <1>2 DEF Holds
<1>4. \A x \in 0 .. MaxKey : x \in Nat /\ ~(x < k /\ k <= x) /\ (x < k \/ k <= x)
  BY <1>2
<1>5. \A j \in DOMAIN split : split[j].start <= split[j].end
  BY <1>1, <1>2
<1>6. \A x \in 0 .. MaxKey : \E j \in DOMAIN split : Holds(split[j], x)
  <2> SUFFICES ASSUME NEW x \in 0 .. MaxKey
               PROVE  \E j \in DOMAIN split : Holds(split[j], x)
    OBVIOUS
  <2>1. PICK j \in DOMAIN rs : Holds(rs[j], x)
    BY DEF Tiling
  <2> QED  BY <2>1, <1>1, <1>3, <1>4
<1>7. ASSUME NEW x \in 0 .. MaxKey, NEW j \in DOMAIN split, NEW l \in DOMAIN split,
             Holds(split[j], x), Holds(split[l], x)
      PROVE  j = l
  <2>1. \A a \in DOMAIN rs : Holds(split[a], x) => Holds(rs[a], x)
    BY <1>3
  <2>2. \A a, b \in DOMAIN rs : Holds(rs[a], x) /\ Holds(rs[b], x) => a = b
    BY DEF Tiling
  <2>3. \A a \in DOMAIN rs : ~(Holds(split[a], x) /\ Holds(split[new], x))
    BY <1>3, <1>4, <2>2
  <2> QED  BY <1>7, <1>1, <2>1, <2>2, <2>3
<1>8. Tiling(split)
  BY <1>5, <1>6, <1>7 DEF Tiling
<1> QED  BY <1>8 DEF split, new

\* Cluster.merge of two adjacent regions.
LEMMA MergeKeeps ==
    ASSUME NEW rs, NEW last, RegionsTyped(rs, last), NEW i \in DOMAIN rs, NEW j \in DOMAIN rs,
           i # j, rs[i].end = rs[j].start
    PROVE  LET merged == Without([rs EXCEPT ![i].end = rs[j].end, ![i].ver = @ + 1], {j}) IN
           RegionsTyped(merged, last) /\ RegionsFollow(rs, last, merged)
<1> DEFINE merged == Without([rs EXCEPT ![i].end = rs[j].end, ![i].ver = @ + 1], {j})
<1>1. /\ last \in Nat
      /\ \A l \in DOMAIN rs : l \in 1 .. last /\ RegionTyped(rs[l])
  BY DEF RegionsTyped
<1>2. /\ DOMAIN merged = DOMAIN rs \ {j}
      /\ merged = [l \in DOMAIN rs \ {j} |-> merged[l]]
      /\ \A l \in DOMAIN rs \ {i, j} : merged[l] = rs[l]
  BY DEF Without
<1>3. /\ DOMAIN merged[i] = RegionFields
      /\ merged[i].start = rs[i].start /\ merged[i].end = rs[j].end /\ merged[i].peers = rs[i].peers
      /\ merged[i].ver = rs[i].ver + 1
  <2>1. DOMAIN rs[i] = RegionFields
    BY <1>1 DEF RegionTyped
  <2> QED  BY <2>1 DEF Without, RegionFields
<1> HIDE DEF merged
<1>4. RegionTyped(merged[i])
  BY <1>1, <1>3 DEF RegionTyped
<1>5. RegionsTyped(merged, last)
  <2>1. \A l \in DOMAIN merged : l \in 1 .. last /\ RegionTyped(merged[l])
    BY <1>1, <1>2, <1>4
  <2> QED  BY <2>1, <1>1, <1>2 DEF RegionsTyped
<1>6. ASSUME Tiling(rs)
      PROVE  Tiling(merged)
  <2>1. \A l \in DOMAIN rs : rs[l].start \in Nat /\ rs[l].end \in Nat /\ rs[l].start <= rs[l].end
    BY <1>1, <1>6, KeysAreNat DEF RegionTyped, Tiling, NoEnd
  <2>2. \A k \in 0 .. MaxKey : Holds(merged[i], k) <=> Holds(rs[i], k) \/ Holds(rs[j], k)
    <3>1. \A k \in 0 .. MaxKey : k \in Nat
      OBVIOUS
    <3> QED  BY <3>1, <2>1, <1>3 DEF Holds
  <2>3. \A k \in 0 .. MaxKey : \A l \in DOMAIN merged \ {i} : Holds(merged[l], k) <=> Holds(rs[l], k)
    BY <1>2
  <2>4. \A l \in DOMAIN merged : merged[l].start <= merged[l].end
    <3>1. rs[i].start <= rs[j].end
      <4>1. /\ rs[i].start \in Nat /\ rs[i].end \in Nat /\ rs[i].start <= rs[i].end
            /\ rs[j].start \in Nat /\ rs[j].end \in Nat /\ rs[j].start <= rs[j].end
        BY <2>1
      <4> QED  BY <4>1
    <3> QED  BY <3>1, <1>2, <1>3, <2>1
  <2>5. \A k \in 0 .. MaxKey : \E l \in DOMAIN merged : Holds(merged[l], k)
    <3> SUFFICES ASSUME NEW k \in 0 .. MaxKey
                 PROVE  \E l \in DOMAIN merged : Holds(merged[l], k)
      OBVIOUS
    <3>1. PICK l \in DOMAIN rs : Holds(rs[l], k)
      BY <1>6 DEF Tiling
    <3>2. i \in DOMAIN merged
      BY <1>2
    <3>3. CASE l \in {i, j}
      BY <3>1, <3>2, <3>3, <2>2
    <3>4. CASE l \notin {i, j}
      BY <3>1, <3>4, <2>3, <1>2
    <3> QED  BY <3>3, <3>4
  <2>6. ASSUME NEW k \in 0 .. MaxKey, NEW l \in DOMAIN merged, NEW m \in DOMAIN merged,
               Holds(merged[l], k), Holds(merged[m], k)
        PROVE  l = m
    <3>1. \A a, b \in DOMAIN rs : Holds(rs[a], k) /\ Holds(rs[b], k) => a = b
      BY <1>6 DEF Tiling
    <3> QED  BY <3>1, <2>2, <2>3, <2>6, <1>2
  <2> QED  BY <2>4, <2>5, <2>6 DEF Tiling
<1>7. ASSUME Proper(rs)
      PROVE  Proper(merged)
  <2>1. rs[i].start < rs[j].end
    <3>1. /\ rs[i].start < rs[i].end /\ rs[j].start < rs[j].end
          /\ rs[i].start \in Nat /\ rs[j].start \in Nat /\ rs[j].end \in Nat
      BY <1>1, <1>7, KeysAreNat DEF Proper, RegionTyped, NoEnd
    <3> QED  BY <3>1
  <2> QED  BY <2>1, <1>2, <1>3, <1>7 DEF Proper
<1>8. Aged(rs, last, merged)
  <2>1. \A l \in DOMAIN merged : l \in DOMAIN rs /\ rs[l].ver \in Nat
    BY <1>1, <1>2 DEF RegionTyped
  <2>2. ASSUME NEW l \in DOMAIN merged
        PROVE  SameOrNewer(rs[l], merged[l])
    <3>1. CASE l = i
      BY <2>1, <3>1, <1>3 DEF SameOrNewer
    <3>2. CASE l # i
      <4>1. merged[l] = rs[l] /\ rs[l].ver \in Nat
        BY <2>1, <3>2, <1>2
      <4> QED  BY <4>1 DEF SameOrNewer
    <3> QED  BY <3>1, <3>2
  <2> QED  BY <2>1, <2>2 DEF Aged
<1>9. RegionsFollow(rs, last, merged)
  BY <1>6, <1>7, <1>8 DEF RegionsFollow
<1> QED  BY <1>5, <1>9 DEF merged

-----------------------------------------------------------------------------
(* splitRange. *)

Inside(k, s, e) == s <= k /\ k < e

\* Where the keys of an old region go: none is kept, a part left or right of the
\* range is kept, or the left part is kept and the right part is for a new region.
EvacuatedTo(r, s, e, v) ==
    \/ /\ v.kept = {} /\ v.fresh = {}
       /\ s <= r.start /\ r.end <= e
    \/ /\ v.fresh = {} /\ r.start < s /\ r.end <= e
       /\ \E x : v.kept = {x} /\ RegionTyped(x) /\ x.start = r.start /\ x.end = s /\ x.ver = r.ver + 1
    \/ /\ v.fresh = {} /\ s <= r.start /\ e < r.end
       /\ \E x : v.kept = {x} /\ RegionTyped(x) /\ x.start = e /\ x.end = r.end /\ x.ver = r.ver + 1
    \/ /\ v.fresh = {<<e, r.end>>} /\ r.start < s /\ e < r.end
       /\ \E x : v.kept = {x} /\ RegionTyped(x) /\ x.start = r.start /\ x.end = s /\ x.ver = r.ver + 1

LEMMA EvacuateCases ==
    ASSUME NEW r, RegionTyped(r), NEW s \in Key, NEW e \in Key
    PROVE  EvacuatedTo(r, s, e, Evacuate(r, s, e))
<1> DEFINE inside == r.start >= s /\ r.end # NoEnd /\ r.end <= e
           left == UpdateKeyRange(r, r.start, s)
           right == UpdateKeyRange(r, e, r.end)
           v == Evacuate(r, s, e)
<1>1. /\ s \in Nat /\ e \in Nat /\ e <= MaxKey /\ MaxKey \in Nat
      /\ s \in 1 .. NoEnd /\ e \in 0 .. MaxKey
      /\ r.start \in Nat /\ r.end \in Nat /\ r.start \in 0 .. MaxKey /\ r.end \in 1 .. NoEnd
  BY KeysAreNat DEF RegionTyped, NoEnd
<1>2. DOMAIN r = RegionFields /\ IsFiniteSet(r.peers) /\ r.ver \in Nat
  BY DEF RegionTyped
<1>3. RegionTyped(left) /\ left.start = r.start /\ left.end = s /\ left.ver = r.ver + 1
  BY <1>1, <1>2, RangeUpdated
<1>4. RegionTyped(right) /\ right.start = e /\ right.end = r.end /\ right.ver = r.ver + 1
  BY <1>1, <1>2, RangeUpdated
<1>5. inside <=> s <= r.start /\ r.end <= e
  BY <1>1 DEF NoEnd
<1>6. (r.end = NoEnd \/ r.end > e) <=> e < r.end
  BY <1>1 DEF NoEnd
<1>7. v = CASE inside -> [kept |-> {}, fresh |-> {}]
            [] ~inside /\ r.start < s /\ e < r.end -> [kept |-> {left}, fresh |-> {<<e, r.end>>}]
            [] ~inside /\ r.start < s /\ ~(e < r.end) -> [kept |-> {left}, fresh |-> {}]
            [] OTHER -> [kept |-> {right}, fresh |-> {}]
  BY <1>6 DEF Evacuate
<1> HIDE DEF left, right, v
<1>8. CASE s <= r.start /\ r.end <= e
  <2>1. v.kept = {} /\ v.fresh = {}
    BY <1>5, <1>7, <1>8
  <2> QED  BY <2>1, <1>8 DEF EvacuatedTo, v
<1>9. CASE r.start < s /\ e < r.end
  <2>1. v.kept = {left} /\ v.fresh = {<<e, r.end>>}
    BY <1>1, <1>5, <1>7, <1>9
  <2> QED  BY <2>1, <1>3, <1>9 DEF EvacuatedTo, v
<1>10. CASE r.start < s /\ r.end <= e
  <2>1. v.kept = {left} /\ v.fresh = {}
    BY <1>1, <1>5, <1>7, <1>10
  <2> QED  BY <2>1, <1>3, <1>10 DEF EvacuatedTo, v
<1>11. CASE s <= r.start /\ e < r.end
  <2>1. v.kept = {right} /\ v.fresh = {}
    BY <1>1, <1>5, <1>7, <1>11
  <2> QED  BY <2>1, <1>4, <1>11 DEF EvacuatedTo, v
<1> QED  BY <1>1, <1>8, <1>9, <1>10, <1>11

LEMMA EvacuateKeeps ==
    ASSUME NEW r, RegionTyped(r), NEW s \in Key, NEW e \in Key, s < e, Overlaps(r, s, e),
           NEW v, EvacuatedTo(r, s, e, v)
    PROVE  LET kept == CHOOSE x \in v.kept : TRUE
               fresh == CHOOSE x \in v.fresh : TRUE IN
           /\ v.kept # {} =>
                /\ RegionTyped(kept)
                /\ kept.start < kept.end /\ kept.ver = r.ver + 1
                /\ \A k \in 0 .. MaxKey :
                     Holds(kept, k) <=> Holds(r, k) /\ ~Inside(k, s, e) /\ (v.fresh # {} => k < s)
           /\ v.fresh # {} =>
                /\ fresh = <<e, r.end>> /\ e < r.end
                /\ \A k \in 0 .. MaxKey : e <= k /\ k < r.end => Holds(r, k)
           /\ \A k \in 0 .. MaxKey :
                Holds(r, k) /\ ~Inside(k, s, e) =>
                    v.kept # {} /\ (k < s \/ v.fresh = {} \/ (e <= k /\ k < r.end))
<1> DEFINE kept == CHOOSE x \in v.kept : TRUE
           fresh == CHOOSE x \in v.fresh : TRUE
<1>1. /\ s \in Nat /\ e \in Nat /\ r.start \in Nat /\ r.end \in Nat
      /\ \A k \in 0 .. MaxKey : k \in Nat
  BY KeysAreNat DEF RegionTyped, NoEnd
<1>0. r.start < e /\ s < r.end
  BY <1>1, KeysAreNat DEF Overlaps, NoEnd
<1>2. CASE v.kept = {} /\ v.fresh = {} /\ s <= r.start /\ r.end <= e
  <2>1. \A k \in 0 .. MaxKey : Holds(r, k) => Inside(k, s, e)
    BY <1>1, <1>2 DEF Holds, Inside
  <2> QED  BY <1>2, <2>1
<1>3. CASE /\ v.fresh = {} /\ r.start < s /\ r.end <= e
           /\ \E x : v.kept = {x} /\ RegionTyped(x) /\ x.start = r.start /\ x.end = s /\ x.ver = r.ver + 1
  <2>1. PICK x : v.kept = {x} /\ RegionTyped(x) /\ x.start = r.start /\ x.end = s /\ x.ver = r.ver + 1
    BY <1>3
  <2>2. kept = x
    BY <2>1
  <2>3. \A k \in 0 .. MaxKey : Holds(x, k) <=> Holds(r, k) /\ ~Inside(k, s, e)
    <3>1. \A k \in 0 .. MaxKey : Holds(x, k) <=> r.start <= k /\ k < s
      BY <2>1 DEF Holds
    <3> QED  BY <1>0, <1>1, <1>3, <3>1 DEF Holds, Inside
  <2>4. x.start < x.end
    BY <1>1, <1>3, <2>1
  <2> HIDE DEF kept, fresh
  <2> QED  BY <1>3, <2>1, <2>2, <2>3, <2>4 DEF kept
<1>4. CASE /\ v.fresh = {} /\ s <= r.start /\ e < r.end
           /\ \E x : v.kept = {x} /\ RegionTyped(x) /\ x.start = e /\ x.end = r.end /\ x.ver = r.ver + 1
  <2>1. PICK x : v.kept = {x} /\ RegionTyped(x) /\ x.start = e /\ x.end = r.end /\ x.ver = r.ver + 1
    BY <1>4
  <2>2. kept = x
    BY <2>1
  <2>3. \A k \in 0 .. MaxKey : Holds(x, k) <=> Holds(r, k) /\ ~Inside(k, s, e)
    <3>1. \A k \in 0 .. MaxKey : Holds(x, k) <=> e <= k /\ k < r.end
      BY <2>1 DEF Holds
    <3> QED  BY <1>0, <1>1, <1>4, <3>1 DEF Holds, Inside
  <2>4. x.start < x.end
    BY <1>1, <1>4, <2>1
  <2> HIDE DEF kept, fresh
  <2> QED  BY <1>4, <2>1, <2>2, <2>3, <2>4 DEF kept
<1>5. CASE /\ v.fresh = {<<e, r.end>>} /\ r.start < s /\ e < r.end
           /\ \E x : v.kept = {x} /\ RegionTyped(x) /\ x.start = r.start /\ x.end = s /\ x.ver = r.ver + 1
  <2>1. PICK x : v.kept = {x} /\ RegionTyped(x) /\ x.start = r.start /\ x.end = s /\ x.ver = r.ver + 1
    BY <1>5
  <2>2. kept = x /\ fresh = <<e, r.end>> /\ v.fresh # {}
    BY <1>5, <2>1
  <2>3. \A k \in 0 .. MaxKey : Holds(x, k) <=> Holds(r, k) /\ ~Inside(k, s, e) /\ k < s
    <3>1. \A k \in 0 .. MaxKey : Holds(x, k) <=> r.start <= k /\ k < s
      BY <2>1 DEF Holds
    <3> QED  BY <1>1, <1>5, <3>1 DEF Holds, Inside
  <2>4. x.start < x.end
    BY <1>1, <1>5, <2>1
  <2>5. \A k \in 0 .. MaxKey : e <= k /\ k < r.end => Holds(r, k)
    BY <1>1, <1>5 DEF Holds
  <2>6. \A k \in 0 .. MaxKey : Holds(r, k) /\ ~Inside(k, s, e) => k < s \/ (e <= k /\ k < r.end)
    BY <1>1 DEF Holds, Inside
  <2> HIDE DEF kept, fresh
  <2> QED  BY <1>5, <2>1, <2>2, <2>3, <2>4, <2>5, <2>6 DEF kept, fresh
<1> QED  BY <1>2, <1>3, <1>4, <1>5 DEF EvacuatedTo

\* SetToSeq lists a finite set without repeating.
LEMMA SetToSeqLists ==
    ASSUME NEW S, IsFiniteSet(S)
    PROVE  /\ SetToSeq(S) \in Seq(S)
           /\ \A n \in 1 .. Len(SetToSeq(S)) : SetToSeq(S)[n] \in S
           /\ \A m, n \in 1 .. Len(SetToSeq(S)) : SetToSeq(S)[m] = SetToSeq(S)[n] => m = n
           /\ \A x \in S : \E n \in 1 .. Len(SetToSeq(S)) : SetToSeq(S)[n] = x
<1> DEFINE N == Cardinality(S)
           q == SetToSeq(S)
<1>1. N \in Nat /\ ExistsBijection(1 .. N, S)
  BY FS_CardinalityType
<1>2. \E f \in [1 .. N -> S] : IsInjective(f)
  BY <1>1 DEF ExistsBijection, Bijection, Injection
<1>3. q \in [1 .. N -> S] /\ IsInjective(q)
  <2>1. q = CHOOSE f \in [1 .. N -> S] : IsInjective(f)
    BY DEF SetToSeq
  <2> HIDE DEF q
  <2> QED  BY <1>2, <2>1
<1> HIDE DEF q, N
<1>4. q \in Injection(1 .. N, S)
  BY <1>3 DEF Injection
<1>5. Cardinality(1 .. N) = N
  BY <1>1, FS_Interval
<1>6. q \in Surjection(1 .. N, S)
  BY <1>4, <1>5, FS_Injection DEF N
<1>7. q \in Seq(S) /\ Len(q) = N
  BY <1>1, <1>3
<1>8. \A m, n \in 1 .. N : q[m] = q[n] => m = n
  BY <1>3 DEF IsInjective
<1>9. \A x \in S : \E n \in 1 .. N : q[n] = x
  BY <1>6 DEF Surjection
<1> QED  BY <1>3, <1>7, <1>8, <1>9 DEF q

Wide(s, e) ==
    {i \in DOMAIN regions : Overlaps(regions[i], s, e) /\ Evacuate(regions[i], s, e).fresh # {}}

LEMMA RemainingIs ==
    ASSUME RegionsTyped(regions, id), NEW s \in Key, NEW e \in Key, s < e
    PROVE  LET cut == Remaining(s, e) IN
           /\ DOMAIN cut \subseteq DOMAIN regions
           /\ \A i \in DOMAIN cut :
                /\ RegionTyped(cut[i]) /\ SameOrNewer(regions[i], cut[i])
                /\ cut[i].start < cut[i].end \/ cut[i] = regions[i]
                /\ \A k \in 0 .. MaxKey :
                     Holds(cut[i], k) <=>
                        Holds(regions[i], k) /\ ~Inside(k, s, e) /\ (i \in Wide(s, e) => k < s)
           /\ \A i \in DOMAIN regions : \A k \in 0 .. MaxKey :
                Holds(regions[i], k) /\ ~Inside(k, s, e) =>
                    /\ i \in DOMAIN cut
                    /\ k < s \/ i \notin Wide(s, e) \/ (e <= k /\ k < regions[i].end)
<1> DEFINE old == {i \in DOMAIN regions : Overlaps(regions[i], s, e)}
           ev(i) == Evacuate(regions[i], s, e)
           kept(i) == CHOOSE r \in ev(i).kept : TRUE
           cut == Remaining(s, e)
<1>1. \A i \in DOMAIN regions : RegionTyped(regions[i])
  BY DEF RegionsTyped
<1>2. /\ DOMAIN cut = {i \in DOMAIN regions : i \in old => ev(i).kept # {}}
      /\ \A i \in DOMAIN cut : cut[i] = IF i \in old THEN kept(i) ELSE regions[i]
  BY DEF Remaining
<1>3. \A i \in DOMAIN regions : i \in Wide(s, e) <=> i \in old /\ ev(i).fresh # {}
  BY DEF Wide
<1> HIDE DEF cut
<1>4. ASSUME NEW i \in old
      PROVE  /\ ev(i).kept # {} =>
                  /\ RegionTyped(kept(i)) /\ SameOrNewer(regions[i], kept(i))
                  /\ kept(i).start < kept(i).end
                  /\ \A k \in 0 .. MaxKey :
                       Holds(kept(i), k) <=> Holds(regions[i], k) /\ ~Inside(k, s, e)
                                             /\ (ev(i).fresh # {} => k < s)
             /\ \A k \in 0 .. MaxKey :
                  Holds(regions[i], k) /\ ~Inside(k, s, e) =>
                      ev(i).kept # {} /\ (k < s \/ ev(i).fresh = {} \/ (e <= k /\ k < regions[i].end))
  <2>1. RegionTyped(regions[i]) /\ Overlaps(regions[i], s, e)
    BY <1>1
  <2>2. EvacuatedTo(regions[i], s, e, ev(i))
    BY <2>1, EvacuateCases
  <2> DEFINE r == regions[i]
             v == ev(i)
  <2>3. RegionTyped(r) /\ Overlaps(r, s, e) /\ EvacuatedTo(r, s, e, v)
    BY <2>1, <2>2
  <2> HIDE DEF r, v
  <2>4. /\ v.kept # {} =>
             /\ RegionTyped(CHOOSE x \in v.kept : TRUE)
             /\ (CHOOSE x \in v.kept : TRUE).start < (CHOOSE x \in v.kept : TRUE).end
             /\ (CHOOSE x \in v.kept : TRUE).ver = r.ver + 1
             /\ \A k \in 0 .. MaxKey :
                  Holds(CHOOSE x \in v.kept : TRUE, k) <=>
                      Holds(r, k) /\ ~Inside(k, s, e) /\ (v.fresh # {} => k < s)
        /\ \A k \in 0 .. MaxKey :
             Holds(r, k) /\ ~Inside(k, s, e) =>
                 v.kept # {} /\ (k < s \/ v.fresh = {} \/ (e <= k /\ k < r.end))
    BY <2>3, EvacuateKeeps
  <2>5. v.kept # {} => SameOrNewer(r, CHOOSE x \in v.kept : TRUE)
    BY <2>3, <2>4 DEF SameOrNewer, RegionTyped
  <2> QED  BY <2>4, <2>5 DEF r, v
<1>5. ASSUME NEW i \in DOMAIN regions, i \notin old, NEW k \in 0 .. MaxKey
      PROVE  ~(Holds(regions[i], k) /\ Inside(k, s, e))
  <2>1. RegionTyped(regions[i]) /\ ~Overlaps(regions[i], s, e)
    BY <1>1, <1>5
  <2>2. e <= regions[i].start \/ regions[i].end <= s
    BY <2>1 DEF Overlaps
  <2>3. regions[i].start \in Nat /\ regions[i].end \in Nat /\ s \in Nat /\ e \in Nat /\ k \in Nat
    BY <2>1, KeysAreNat DEF RegionTyped, NoEnd
  <2> QED  BY <2>2, <2>3 DEF Holds, Inside
<1>6. \A i \in DOMAIN cut : i \in DOMAIN regions /\ (i \in old => ev(i).kept # {})
  BY <1>2
<1> HIDE DEF old, ev, kept
<1>7. ASSUME NEW i \in DOMAIN cut
      PROVE  /\ RegionTyped(cut[i]) /\ SameOrNewer(regions[i], cut[i])
             /\ cut[i].start < cut[i].end \/ cut[i] = regions[i]
             /\ \A k \in 0 .. MaxKey :
                  Holds(cut[i], k) <=>
                     Holds(regions[i], k) /\ ~Inside(k, s, e) /\ (i \in Wide(s, e) => k < s)
  <2>1. CASE i \in old
    BY <2>1, <1>2, <1>3, <1>4, <1>6
  <2>2. CASE i \notin old
    <3>1. cut[i] = regions[i] /\ regions[i].ver \in Nat
      BY <2>2, <1>1, <1>2, <1>6 DEF RegionTyped
    <3>2. SameOrNewer(regions[i], cut[i])
      BY <3>1 DEF SameOrNewer
    <3> QED  BY <2>2, <3>1, <3>2, <1>1, <1>3, <1>5, <1>6
  <2> QED  BY <2>1, <2>2
<1>8. ASSUME NEW i \in DOMAIN regions, NEW k \in 0 .. MaxKey,
             Holds(regions[i], k), ~Inside(k, s, e)
      PROVE  /\ i \in DOMAIN cut
             /\ k < s \/ i \notin Wide(s, e) \/ (e <= k /\ k < regions[i].end)
  <2>1. CASE i \in old
    BY <2>1, <1>2, <1>3, <1>4, <1>8
  <2>2. CASE i \notin old
    BY <2>2, <1>2, <1>3
  <2> QED  BY <2>1, <2>2
<1> QED  BY <1>6, <1>7, <1>8 DEF cut

RightsThenGroups(fresh, wide, made, s, e) ==
    /\ Len(fresh) = Len(wide) + Len(made) /\ Len(wide) \in Nat /\ Len(made) \in Nat
    /\ DOMAIN fresh = 1 .. Len(fresh)
    /\ \A n \in 1 .. Len(wide) :
         wide[n] \in Wide(s, e) /\ fresh[n] = <<e, regions[wide[n]].end>>
         /\ e < regions[wide[n]].end
    /\ \A n \in 1 .. Len(made) : fresh[Len(wide) + n] = made[n]

LEMMA FreshRangesAre ==
    ASSUME RegionsTyped(regions, id), NEW s \in Key, NEW e \in Key, s < e, NEW count \in Nat \ {0},
           {k \in Data : s <= k /\ k < e} # {}
    PROVE  RightsThenGroups(FreshRanges(s, e, count), SetToSeq(Wide(s, e)), NewRanges(s, e, count), s, e)
<1> DEFINE W == Wide(s, e)
           wide == SetToSeq(W)
           made == NewRanges(s, e, count)
           ev(i) == Evacuate(regions[i], s, e)
           rights == [n \in DOMAIN wide |-> CHOOSE x \in ev(wide[n]).fresh : TRUE]
           fresh == FreshRanges(s, e, count)
<1>1. IsFiniteSet(W)
  BY RegionsFinite, FS_Subset DEF Wide
<1>2. /\ wide \in Seq(W) /\ Len(wide) \in Nat /\ DOMAIN wide = 1 .. Len(wide)
      /\ \A n \in 1 .. Len(wide) : wide[n] \in W
  <2> HIDE DEF W
  <2> QED  BY <1>1, SetToSeqLists
<1>3. made \in Seq(Key \X Key)
  BY NewRangesTile DEF TileRange
<1>4. ASSUME NEW i \in W
      PROVE  (CHOOSE x \in ev(i).fresh : TRUE) = <<e, regions[i].end>> /\ e < regions[i].end
             /\ regions[i].end \in 1 .. NoEnd
  <2>1. RegionTyped(regions[i]) /\ Overlaps(regions[i], s, e) /\ ev(i).fresh # {}
    BY DEF Wide, RegionsTyped
  <2>2. EvacuatedTo(regions[i], s, e, ev(i))
    BY <2>1, EvacuateCases
  <2> DEFINE r == regions[i]
             v == ev(i)
  <2>3. RegionTyped(r) /\ Overlaps(r, s, e) /\ EvacuatedTo(r, s, e, v) /\ v.fresh # {}
    BY <2>1, <2>2
  <2> HIDE DEF r, v
  <2>4. (CHOOSE x \in v.fresh : TRUE) = <<e, r.end>> /\ e < r.end
    BY <2>3, EvacuateKeeps
  <2> QED  BY <2>1, <2>4 DEF r, v, RegionTyped
<1>5. fresh = rights \o made
  BY DEF FreshRanges, Wide
<1> HIDE DEF W, wide, ev, made, fresh
<1>6. \A n \in 1 .. Len(wide) : rights[n] = <<e, regions[wide[n]].end>> /\ e < regions[wide[n]].end
  BY <1>2, <1>4
<1>7. rights \in Seq(Key \X (1 .. NoEnd)) /\ Len(rights) = Len(wide)
  <2>1. \A n \in 1 .. Len(wide) : rights[n] \in Key \X (1 .. NoEnd)
    <3> SUFFICES ASSUME NEW n \in 1 .. Len(wide)
                 PROVE  rights[n] \in Key \X (1 .. NoEnd)
      OBVIOUS
    <3>1. rights[n] = <<e, regions[wide[n]].end>> /\ regions[wide[n]].end \in 1 .. NoEnd
      BY <1>2, <1>4, <1>6
    <3> HIDE DEF rights
    <3> QED  BY <3>1
  <2>2. rights = [n \in 1 .. Len(wide) |-> rights[n]]
    BY <1>2
  <2> HIDE DEF rights
  <2> QED  BY <2>1, <2>2, <1>2
<1> HIDE DEF rights
<1>8. made \in Seq(Key \X (1 .. NoEnd))
  <2>1. \A x \in Key \X Key : x \in Key \X (1 .. NoEnd)
    BY KeysAreNat DEF Key, NoEnd
  <2> DEFINE K == Key \X Key
             T == Key \X (1 .. NoEnd)
  <2>2. made \in Seq(K) /\ \A x \in K : x \in T
    BY <2>1, <1>3
  <2> HIDE DEF K, T
  <2>3. made \in Seq(T)
    BY <2>2
  <2> QED  BY <2>3 DEF T
<1>9. /\ Len(fresh) = Len(wide) + Len(made) /\ DOMAIN fresh = 1 .. Len(fresh)
      /\ Len(made) \in Nat
      /\ \A n \in 1 .. Len(wide) : fresh[n] = rights[n]
      /\ \A n \in 1 .. Len(made) : fresh[Len(wide) + n] = made[n]
  <2> DEFINE T == Key \X (1 .. NoEnd)
  <2>1. made \in Seq(T) /\ rights \in Seq(T)
    BY <1>7, <1>8
  <2> HIDE DEF T
  <2>2. Len(made) \in Nat /\ Len(wide) \in Nat /\ Len(rights) = Len(wide)
    BY <2>1, <1>2, <1>7
  <2>3. /\ Len(fresh) = Len(rights) + Len(made) /\ DOMAIN fresh = 1 .. Len(fresh)
        /\ \A n \in 1 .. Len(rights) + Len(made) :
             fresh[n] = IF n <= Len(rights) THEN rights[n] ELSE made[n - Len(rights)]
    BY ONLY <2>1, <1>5, ConcatProperties
  <2>4. \A n \in 1 .. Len(wide) : n \in 1 .. Len(rights) + Len(made) /\ n <= Len(rights)
    BY <2>2
  <2>5. \A n \in 1 .. Len(made) : /\ Len(wide) + n \in 1 .. Len(rights) + Len(made)
                                 /\ ~(Len(wide) + n <= Len(rights))
                                 /\ (Len(wide) + n) - Len(rights) = n
    BY <2>2
  <2> QED  BY <2>2, <2>3, <2>4, <2>5
<1>10. RightsThenGroups(fresh, wide, made, s, e)
  BY <1>2, <1>6, <1>9 DEF RightsThenGroups, W
<1> QED  BY <1>10 DEF fresh, wide, made, W

\* The regions after splitRange: the remaining ones and the new ones.
AfterSplitRange(cut, fresh) ==
    [i \in DOMAIN cut \cup {id + 2 * n : n \in DOMAIN fresh} |->
        IF i \in DOMAIN cut THEN cut[i]
        ELSE MadeRegion(fresh[(i - id) \div 2], (i - id) \div 2)]

LEMMA SplitRangeKeeps ==
    ASSUME RegionsTyped(regions, id), NEW s \in Key, NEW e \in Key, s < e, NEW count \in Nat \ {0},
           {k \in Data : s <= k /\ k < e} # {}
    PROVE  LET fresh == FreshRanges(s, e, count)
               new == AfterSplitRange(Remaining(s, e), fresh) IN
           RegionsTyped(new, id + 2 * Len(fresh)) /\ RegionsFollow(regions, id, new)
<1> DEFINE cut == Remaining(s, e)
           fresh == FreshRanges(s, e, count)
           wide == SetToSeq(Wide(s, e))
           made == NewRanges(s, e, count)
           W == Len(wide)
           N == Len(fresh)
           new == AfterSplitRange(cut, fresh)
           newID(n) == id + 2 * n
<1>1. /\ id \in Nat
      /\ \A i \in DOMAIN regions : i \in 1 .. id /\ RegionTyped(regions[i])
  BY DEF RegionsTyped
<1>2. /\ \A i \in DOMAIN cut : i \in DOMAIN regions /\ RegionTyped(cut[i])
      /\ \A i \in DOMAIN cut :
            /\ SameOrNewer(regions[i], cut[i])
            /\ cut[i].start < cut[i].end \/ cut[i] = regions[i]
      /\ \A i \in DOMAIN cut : \A k \in 0 .. MaxKey :
            Holds(cut[i], k) <=>
               Holds(regions[i], k) /\ ~Inside(k, s, e) /\ (i \in Wide(s, e) => k < s)
      /\ \A i \in DOMAIN regions : \A k \in 0 .. MaxKey :
            Holds(regions[i], k) /\ ~Inside(k, s, e) =>
                i \in DOMAIN cut /\ (k < s \/ i \notin Wide(s, e) \/ (e <= k /\ k < regions[i].end))
  BY RemainingIs
<1>3. /\ N = W + Len(made) /\ W \in Nat /\ Len(made) \in Nat /\ N \in Nat
      /\ DOMAIN fresh = 1 .. N
      /\ \A n \in 1 .. W :
            wide[n] \in Wide(s, e) /\ fresh[n] = <<e, regions[wide[n]].end>>
            /\ e < regions[wide[n]].end
      /\ \A n \in 1 .. Len(made) : fresh[W + n] = made[n]
  <2>1. RightsThenGroups(fresh, wide, made, s, e)
    BY FreshRangesAre
  <2> HIDE DEF fresh, wide, made
  <2> QED  BY <2>1 DEF RightsThenGroups
<1>4. /\ \A n \in 1 .. Len(made) :
            made[n] \in Key \X Key /\ s <= made[n][1] /\ made[n][1] < made[n][2] /\ made[n][2] <= e
      /\ \A k \in s .. e - 1 : \E n \in 1 .. Len(made) : made[n][1] <= k /\ k < made[n][2]
      /\ \A m, n \in 1 .. Len(made) : m < n => made[m][2] <= made[n][1]
  <2>1. TileRange(made, s, e)
    BY NewRangesTile
  <2> HIDE DEF made
  <2>2. \A n \in 1 .. Len(made) : made[n] \in Key \X Key
    BY <2>1 DEF TileRange
  <2> QED  BY <2>1, <2>2 DEF TileRange
<1>5. /\ \A m, n \in 1 .. W : wide[m] = wide[n] => m = n
      /\ \A i \in Wide(s, e) : \E n \in 1 .. W : wide[n] = i
  <2>1. IsFiniteSet(Wide(s, e))
    BY RegionsFinite, FS_Subset DEF Wide
  <2> QED  BY <2>1, SetToSeqLists
<1>6. \A i \in Wide(s, e) : i \in DOMAIN regions
  BY DEF Wide
<1>7. s \in Nat /\ e \in Nat /\ s \in 1 .. NoEnd /\ e \in 0 .. MaxKey
      /\ \A k \in Key : k \in 0 .. MaxKey /\ k \in 1 .. NoEnd
  BY KeysAreNat DEF NoEnd
<1> HIDE DEF cut, fresh, wide, made, W, N
\* A new range is what is right of the range or one of its groups.
<1>8. \A n \in 1 .. N :
        \/ n \in 1 .. W
        \/ n - W \in 1 .. Len(made) /\ n = W + (n - W)
  BY <1>3
<1>9. ASSUME NEW n \in 1 .. N
      PROVE  fresh[n][1] \in 0 .. MaxKey /\ fresh[n][2] \in 1 .. NoEnd /\ fresh[n][1] < fresh[n][2]
  <2>1. CASE n \in 1 .. W
    <3>1. fresh[n] = <<e, regions[wide[n]].end>> /\ e < regions[wide[n]].end
          /\ regions[wide[n]].end \in 1 .. NoEnd
      BY <2>1, <1>1, <1>3, <1>6 DEF RegionTyped
    <3> QED  BY <3>1, <1>7
  <2>2. CASE n - W \in 1 .. Len(made) /\ n = W + (n - W)
    <3>1. fresh[n] = made[n - W]
      BY <2>2, <1>3
    <3>2. made[n - W] \in Key \X Key /\ made[n - W][1] < made[n - W][2]
      BY <2>2, <1>4
    <3> QED  BY <3>1, <3>2, <1>7
  <2> QED  BY <1>8, <2>1, <2>2
<1>10. ASSUME NEW n \in 1 .. N
       PROVE  /\ newID(n) \in 1 .. id + 2 * N /\ newID(n) \notin DOMAIN cut
              /\ (newID(n) - id) \div 2 = n
  <2>1. n \in Nat /\ n >= 1 /\ n <= N /\ N \in Nat /\ id \in Nat
    BY <1>1, <1>3
  <2>2. newID(n) \notin DOMAIN cut
    <3>1. \A i \in DOMAIN cut : i \in 1 .. id
      BY <1>1, <1>2
    <3> QED  BY <2>1, <3>1
  <2> QED  BY <2>1, <2>2
<1>11. ASSUME NEW n \in 1 .. N
       PROVE  /\ RegionTyped(MadeRegion(fresh[n], n))
              /\ MadeRegion(fresh[n], n).start = fresh[n][1]
              /\ MadeRegion(fresh[n], n).end = fresh[n][2]
  <2> DEFINE peers == {[id |-> id + 2 * n - 1, store |-> CHOOSE t \in Store : TRUE]}
             blank == NewRegion(0, 0, peers, id + 2 * n - 1)
             range == fresh[n]
  <2>1. IsFiniteSet(peers)
    <3> HIDE DEF range
    <3> QED  BY FS_Singleton
  <2> HIDE DEF peers
  <2>2. DOMAIN blank = RegionFields /\ IsFiniteSet(blank.peers) /\ blank.ver = 0
    BY <2>1, RegionMade
  <2>3. MadeRegion(range, n) = UpdateKeyRange(blank, range[1], range[2])
    BY DEF MadeRegion, peers
  <2>4. range[1] \in 0 .. MaxKey /\ range[2] \in 1 .. NoEnd
    BY <1>9
  <2> HIDE DEF blank, range
  <2>5. RegionTyped(MadeRegion(range, n)) /\ MadeRegion(range, n).start = range[1]
        /\ MadeRegion(range, n).end = range[2]
    BY <2>2, <2>3, <2>4, RangeUpdated
  <2> QED  BY <2>5 DEF range
<1>12. /\ DOMAIN new = DOMAIN cut \cup {newID(n) : n \in 1 .. N}
       /\ new = [i \in DOMAIN new |-> new[i]]
       /\ \A i \in DOMAIN cut : new[i] = cut[i]
       /\ \A n \in 1 .. N : newID(n) \in DOMAIN new /\ new[newID(n)] = MadeRegion(fresh[n], n)
  <2>1. new = [i \in DOMAIN cut \cup {newID(n) : n \in 1 .. N} |->
                 IF i \in DOMAIN cut THEN cut[i]
                 ELSE MadeRegion(fresh[(i - id) \div 2], (i - id) \div 2)]
    BY <1>3 DEF AfterSplitRange
  <2> HIDE DEF new, newID
  <2>2. DOMAIN new = DOMAIN cut \cup {newID(n) : n \in 1 .. N} /\ new = [i \in DOMAIN new |-> new[i]]
        /\ \A i \in DOMAIN cut : new[i] = cut[i]
    BY <2>1
  <2>3. ASSUME NEW n \in 1 .. N
        PROVE  newID(n) \in DOMAIN new /\ new[newID(n)] = MadeRegion(fresh[n], n)
    <3>1. newID(n) \in DOMAIN new
      BY <2>2
    <3> QED  BY <3>1, <2>1, <1>10
  <2> QED  BY <2>2, <2>3
<1> HIDE DEF new, newID
<1>13. RegionsTyped(new, id + 2 * N)
  <2>1. id + 2 * N \in Nat /\ id <= id + 2 * N
    BY <1>1, <1>3
  <2>2. \A i \in DOMAIN cut : i \in 1 .. id + 2 * N
    BY <2>1, <1>1, <1>2
  <2>3. ASSUME NEW i \in DOMAIN new
        PROVE  i \in 1 .. id + 2 * N /\ RegionTyped(new[i])
    <3>1. CASE i \in DOMAIN cut
      BY <3>1, <2>2, <1>2, <1>12
    <3>2. CASE i \notin DOMAIN cut
      <4>1. PICK n \in 1 .. N : i = newID(n)
        BY <3>2, <1>12
      <4> QED  BY <4>1, <1>10, <1>11, <1>12
    <3> QED  BY <3>1, <3>2
  <2> QED  BY <2>1, <2>3, <1>12 DEF RegionsTyped

<1>14. ASSUME Tiling(regions)
       PROVE  Tiling(new)
  <2>1. /\ \A i \in DOMAIN regions : regions[i].start <= regions[i].end
        /\ \A k \in 0 .. MaxKey : \E i \in DOMAIN regions : Holds(regions[i], k)
        /\ \A k \in 0 .. MaxKey : \A i, j \in DOMAIN regions :
             Holds(regions[i], k) /\ Holds(regions[j], k) => i = j
    BY <1>14 DEF Tiling
  <2>2. \A n \in 1 .. N : \A k \in 0 .. MaxKey :
          Holds(new[newID(n)], k) <=> fresh[n][1] <= k /\ k < fresh[n][2]
    BY <1>11, <1>12 DEF Holds
  <2>3. ASSUME NEW n \in 1 .. W, NEW k \in 0 .. MaxKey
        PROVE  /\ n \in 1 .. N /\ wide[n] \in Wide(s, e) /\ wide[n] \in DOMAIN regions
               /\ Holds(new[newID(n)], k) <=> e <= k /\ k < regions[wide[n]].end
               /\ Holds(new[newID(n)], k) => Holds(regions[wide[n]], k) /\ e <= k /\ ~Inside(k, s, e)
    <3>1. n \in 1 .. N
      BY <1>3
    <3>2. wide[n] \in Wide(s, e) /\ wide[n] \in DOMAIN regions /\ fresh[n] = <<e, regions[wide[n]].end>>
      BY <1>3, <1>6
    <3>3. Holds(new[newID(n)], k) <=> e <= k /\ k < regions[wide[n]].end
      BY <2>2, <3>1, <3>2
    <3>4. regions[wide[n]].start < e
      <4>1. Overlaps(regions[wide[n]], s, e)
        BY <3>2 DEF Wide
      <4>2. regions[wide[n]].start \in Nat
        BY <3>2, <1>1 DEF RegionTyped
      <4> QED  BY <4>1, <4>2, <1>7 DEF Overlaps
    <3>5. e <= k /\ k < regions[wide[n]].end => Holds(regions[wide[n]], k) /\ ~Inside(k, s, e)
      <4>1. regions[wide[n]].start \in Nat /\ k \in Nat
        BY <3>2, <1>1 DEF RegionTyped
      <4> QED  BY <3>4, <4>1, <1>7 DEF Holds, Inside
    <3> QED  BY <3>1, <3>2, <3>3, <3>5
  <2>4. ASSUME NEW n \in 1 .. Len(made), NEW k \in 0 .. MaxKey
        PROVE  /\ W + n \in 1 .. N
               /\ Holds(new[newID(W + n)], k) <=> made[n][1] <= k /\ k < made[n][2]
               /\ Holds(new[newID(W + n)], k) => Inside(k, s, e)
    <3>1. W + n \in 1 .. N /\ fresh[W + n] = made[n]
      BY <1>3
    <3>2. Holds(new[newID(W + n)], k) <=> made[n][1] <= k /\ k < made[n][2]
      BY <2>2, <3>1
    <3>3. s <= made[n][1] /\ made[n][2] <= e /\ made[n][1] \in Nat /\ made[n][2] \in Nat /\ k \in Nat
      BY <1>4, KeysAreNat
    <3> QED  BY <3>1, <3>2, <3>3, <1>7 DEF Inside
  <2>5. ASSUME NEW i \in DOMAIN new
        PROVE  new[i].start <= new[i].end
    <3>1. CASE i \in DOMAIN cut
      <4>1. /\ new[i] = cut[i] /\ i \in DOMAIN regions /\ RegionTyped(cut[i])
            /\ cut[i].start < cut[i].end \/ cut[i] = regions[i]
        BY <3>1, <1>2, <1>12
      <4>2. cut[i].start \in Nat /\ cut[i].end \in Nat
        BY <4>1, KeysAreNat DEF RegionTyped, NoEnd
      <4> QED  BY <4>1, <4>2, <2>1
    <3>2. CASE i \notin DOMAIN cut
      <4>1. PICK n \in 1 .. N : i = newID(n)
        BY <3>2, <1>12
      <4>2. fresh[n][1] < fresh[n][2] /\ fresh[n][1] \in Nat /\ fresh[n][2] \in Nat
        BY <1>9
      <4> QED  BY <4>1, <4>2, <1>11, <1>12
    <3> QED  BY <3>1, <3>2
  <2>6. ASSUME NEW k \in 0 .. MaxKey
        PROVE  \E i \in DOMAIN new : Holds(new[i], k)
    <3>1. CASE Inside(k, s, e)
      <4>1. k \in s .. e - 1
        BY <3>1, <1>7 DEF Inside
      <4>2. PICK n \in 1 .. Len(made) : made[n][1] <= k /\ k < made[n][2]
        BY <4>1, <1>4
      <4>3. W + n \in 1 .. N /\ Holds(new[newID(W + n)], k)
        BY <4>2, <2>4
      <4> QED  BY <4>3, <1>12
    <3>2. CASE ~Inside(k, s, e)
      <4>1. PICK i \in DOMAIN regions : Holds(regions[i], k)
        BY <2>1
      <4>2. i \in DOMAIN cut /\ (k < s \/ i \notin Wide(s, e) \/ (e <= k /\ k < regions[i].end))
        BY <1>2, <3>2, <4>1
      <4>3. CASE k < s \/ i \notin Wide(s, e)
        <5>1. Holds(cut[i], k)
          BY <1>2, <3>2, <4>1, <4>2, <4>3
        <5> QED  BY <4>2, <5>1, <1>12
      <4>4. CASE i \in Wide(s, e) /\ e <= k /\ k < regions[i].end
        <5>1. PICK n \in 1 .. W : wide[n] = i
          BY <1>5, <4>4
        <5>2. n \in 1 .. N /\ Holds(new[newID(n)], k)
          BY <2>3, <4>4, <5>1
        <5> QED  BY <5>2, <1>12
      <4> QED  BY <4>2, <4>3, <4>4
    <3> QED  BY <3>1, <3>2
  \* What holds k afterwards is a remaining region, a right part or a group.
  <2>7. ASSUME NEW k \in 0 .. MaxKey, NEW i \in DOMAIN new, Holds(new[i], k)
        PROVE  \/ /\ i \in DOMAIN cut /\ Holds(regions[i], k) /\ ~Inside(k, s, e)
                  /\ i \in Wide(s, e) => k < s
               \/ \E n \in 1 .. W : i = newID(n) /\ Holds(regions[wide[n]], k) /\ e <= k
                                    /\ ~Inside(k, s, e)
               \/ \E n \in 1 .. Len(made) : i = newID(W + n) /\ Inside(k, s, e)
                                            /\ made[n][1] <= k /\ k < made[n][2]
    <3>1. CASE i \in DOMAIN cut
      BY <3>1, <2>7, <1>2, <1>12
    <3>2. CASE i \notin DOMAIN cut
      <4>1. PICK n \in 1 .. N : i = newID(n)
        BY <3>2, <1>12
      <4>2. CASE n \in 1 .. W
        BY <4>1, <4>2, <2>3, <2>7
      <4>3. CASE n - W \in 1 .. Len(made) /\ n = W + (n - W)
        <5> DEFINE m == n - W
        <5>1. m \in 1 .. Len(made) /\ n = W + m
          BY <4>3
        <5> HIDE DEF m
        <5> QED  BY <4>1, <5>1, <2>4, <2>7
      <4> QED  BY <1>8, <4>2, <4>3
    <3> QED  BY <3>1, <3>2
  <2>8. ASSUME NEW k \in 0 .. MaxKey, NEW m \in 1 .. Len(made), NEW n \in 1 .. Len(made),
               made[m][1] <= k, k < made[m][2], made[n][1] <= k, k < made[n][2]
        PROVE  m = n
    <3>1. made[m][1] \in Nat /\ made[m][2] \in Nat /\ made[n][1] \in Nat /\ made[n][2] \in Nat
      BY <1>4, KeysAreNat
    <3>2. ~(m < n) /\ ~(n < m)
      BY <2>8, <3>1, <1>4
    <3> QED  BY <3>2, <1>3
  <2>9. ASSUME NEW k \in 0 .. MaxKey, NEW i \in DOMAIN new, NEW j \in DOMAIN new,
               Holds(new[i], k), Holds(new[j], k)
        PROVE  i = j
    <3> DEFINE Cut(x) == /\ x \in DOMAIN cut /\ Holds(regions[x], k)
                         /\ x \in Wide(s, e) => k < s
               Right(x) == \E n \in 1 .. W : x = newID(n) /\ Holds(regions[wide[n]], k) /\ e <= k
               Group(x) == \E n \in 1 .. Len(made) : x = newID(W + n)
                                                     /\ made[n][1] <= k /\ k < made[n][2]
    <3>1. /\ IF Inside(k, s, e) THEN Group(i) ELSE Cut(i) \/ Right(i)
          /\ IF Inside(k, s, e) THEN Group(j) ELSE Cut(j) \/ Right(j)
      BY <2>7, <2>9
    <3>2. ASSUME Group(i), Group(j)
          PROVE  i = j
      <4>1. PICK m \in 1 .. Len(made) : i = newID(W + m) /\ made[m][1] <= k /\ k < made[m][2]
        BY <3>2
      <4>2. PICK n \in 1 .. Len(made) : j = newID(W + n) /\ made[n][1] <= k /\ k < made[n][2]
        BY <3>2
      <4>3. m = n
        BY <4>1, <4>2, <2>8
      <4> QED  BY <4>1, <4>2, <4>3
    <3>3. ASSUME Right(i), Right(j)
          PROVE  i = j
      <4>1. PICK m \in 1 .. W : i = newID(m) /\ Holds(regions[wide[m]], k)
        BY <3>3
      <4>2. PICK n \in 1 .. W : j = newID(n) /\ Holds(regions[wide[n]], k)
        BY <3>3
      <4>3. wide[m] = wide[n]
        BY <4>1, <4>2, <2>1, <1>3, <1>6
      <4> QED  BY <4>1, <4>2, <4>3, <1>5
    <3>4. ASSUME Cut(i), Cut(j)
          PROVE  i = j
      BY <3>4, <2>1, <1>2
    <3>5. ASSUME NEW x, NEW y, Cut(x), Right(y)
          PROVE  FALSE
      <4>1. PICK n \in 1 .. W : Holds(regions[wide[n]], k) /\ e <= k
        BY <3>5
      <4>2. x = wide[n]
        BY <3>5, <4>1, <2>1, <1>2, <1>3, <1>6
      <4>3. k < s
        BY <3>5, <4>1, <4>2, <1>3
      <4> QED  BY <4>1, <4>3, <1>7
    <3> HIDE DEF Cut, Right, Group
    <3> QED  BY <3>1, <3>2, <3>3, <3>4, <3>5
  <2> QED  BY <2>5, <2>6, <2>9 DEF Tiling
<1>15. ASSUME Proper(regions)
       PROVE  Proper(new)
  <2>1. \A i \in DOMAIN cut : new[i].start < new[i].end
    BY <1>2, <1>12, <1>15 DEF Proper
  <2>2. \A n \in 1 .. N : new[newID(n)].start < new[newID(n)].end
    BY <1>9, <1>11, <1>12
  <2>3. \A i \in DOMAIN new : i \in DOMAIN cut \/ \E n \in 1 .. N : i = newID(n)
    BY <1>12
  <2> QED  BY <2>1, <2>2, <2>3 DEF Proper
<1>16. Aged(regions, id, new)
  <2>1. \A i \in DOMAIN cut : i \in DOMAIN regions /\ SameOrNewer(regions[i], new[i])
    BY <1>2, <1>12
  <2>2. \A n \in 1 .. N : newID(n) > id /\ newID(n) \notin DOMAIN regions
    <3>1. \A n \in 1 .. N : newID(n) > id
      BY <1>1, <1>3 DEF newID
    <3> QED  BY <3>1, <1>1
  <2>3. \A i \in DOMAIN new : i \in DOMAIN cut \/ \E n \in 1 .. N : i = newID(n)
    BY <1>12
  <2> QED  BY <2>1, <2>2, <2>3 DEF Aged
<1>17. RegionsFollow(regions, id, new)
  BY <1>14, <1>15, <1>16 DEF RegionsFollow
<1> QED  BY <1>13, <1>17 DEF new, cut, fresh, N

-----------------------------------------------------------------------------
(* The invariant gives the property. *)

LEMMA OneRegion ==
    ASSUME RegionsTyped(regions, id), Tiling(regions)
    PROVE  OneRegionPerKey
<1> SUFFICES ASSUME NEW k \in Key
             PROVE  \E i \in DOMAIN regions :
                        {j \in DOMAIN regions : RegionContains(regions[j], k)} = {i}
  BY DEF OneRegionPerKey
<1>1. k \in 0 .. MaxKey
  BY KeysAreNat
<1>2. \A j \in DOMAIN regions : RegionContains(regions[j], k) <=> Holds(regions[j], k)
  BY <1>1, ContainsHolds DEF RegionsTyped
<1>3. PICK i \in DOMAIN regions : Holds(regions[i], k)
  BY <1>1 DEF Tiling
<1>4. \A j \in DOMAIN regions : Holds(regions[j], k) => j = i
  BY <1>1, <1>3 DEF Tiling
<1> QED  BY <1>2, <1>3, <1>4

\* The regions from left to right: each ends where the next one starts.
LEMMA NeighboursMeet ==
    ASSUME RegionsTyped(regions, id), Tiling(regions), NoEmptyRegion
    PROVE  LET order == Ordered(DOMAIN regions, StartOrder)
               N == Cardinality(DOMAIN regions) IN
           /\ N \in Nat /\ order \in [1 .. N -> DOMAIN regions]
           /\ \A i \in DOMAIN regions : \E n \in 1 .. N : order[n] = i
           /\ \A m, n \in 1 .. N : m < n => regions[order[m]].start < regions[order[n]].start
           /\ \A n \in 1 .. N - 1 : regions[order[n]].end = regions[order[n + 1]].start
<1> DEFINE D == DOMAIN regions
           order == Ordered(D, StartOrder)
           N == Cardinality(D)
           start(n) == regions[order[n]].start
           end(n) == regions[order[n]].end
<1>1. /\ \A i \in D : /\ i \in Nat
                      /\ regions[i].start \in 0 .. MaxKey /\ regions[i].end \in 1 .. NoEnd
                      /\ regions[i].start < regions[i].end
      /\ MaxKey \in Nat /\ NoEnd = MaxKey + 1
  <2>1. \A i \in D : i \in Nat /\ regions[i].start \in 0 .. MaxKey /\ regions[i].end \in 1 .. NoEnd
    BY DEF RegionsTyped, RegionTyped
  <2>2. \A i \in D : regions[i].start <= regions[i].end /\ regions[i].start # regions[i].end
    BY DEF Tiling, NoEmptyRegion
  <2> QED  BY <2>1, <2>2, KeysAreNat DEF NoEnd
<1>2. \A k \in 0 .. MaxKey : \A i, j \in D : Holds(regions[i], k) /\ Holds(regions[j], k) => i = j
  BY DEF Tiling
<1>3. IsFiniteSet(D) /\ N \in Nat
  BY RegionsFinite, FS_CardinalityType
<1>4. \A i, j \in D : <<i, j>> \in StartOrder <=>
        regions[i].start < regions[j].start \/ (regions[i].start = regions[j].start /\ i < j)
  BY DEF StartOrder
<1>5. TotalOn(StartOrder, D)
  <2>1. \A i \in D : i \in Int /\ regions[i].start \in Int
    BY <1>1
  <2> HIDE DEF D
  <2>2. \A i \in D : <<i, i>> \notin StartOrder
    BY <1>4, <2>1
  <2>3. \A x, y, z \in D : <<x, y>> \in StartOrder /\ <<y, z>> \in StartOrder => <<x, z>> \in StartOrder
    BY <1>4, <2>1
  <2>4. \A x, y \in D : x # y => <<x, y>> \in StartOrder \/ <<y, x>> \in StartOrder
    BY <1>4, <2>1
  <2> QED  BY <2>2, <2>3, <2>4 DEF TotalOn
<1>6. /\ order \in [1 .. N -> D]
      /\ \A i \in D : \E n \in 1 .. N : order[n] = i
      /\ \A m, n \in 1 .. N : m < n => <<order[m], order[n]>> \in StartOrder
  <2> HIDE DEF D
  <2> QED  BY <1>3, <1>5, OrderedSorts
<1> HIDE DEF order, N
<1>7. \A n \in 1 .. N : /\ order[n] \in D
                        /\ start(n) \in Nat /\ end(n) \in Nat /\ start(n) \in 0 .. MaxKey
                        /\ end(n) <= NoEnd /\ start(n) < end(n)
  BY <1>1, <1>6
<1>8. ASSUME NEW m \in 1 .. N, NEW n \in 1 .. N, NEW k \in 0 .. MaxKey,
             start(m) <= k, k < end(m), start(n) <= k, k < end(n)
      PROVE  order[m] = order[n]
  <2>1. Holds(regions[order[m]], k) /\ Holds(regions[order[n]], k)
    BY <1>8 DEF Holds
  <2> QED  BY <2>1, <1>2, <1>7
<1>9. ASSUME NEW m \in 1 .. N, NEW n \in 1 .. N, m < n
      PROVE  start(m) < start(n)
  <2>1. start(m) < start(n) \/ (start(m) = start(n) /\ order[m] < order[n])
    BY <1>4, <1>6, <1>7, <1>9
  <2>2. start(m) = start(n) => order[m] = order[n]
    BY <1>7, <1>8
  <2>3. order[m] \in Nat
    BY <1>1, <1>7
  <2> QED  BY <2>1, <2>2, <2>3
<1>10. ASSUME NEW n \in 1 .. N - 1
       PROVE  end(n) = start(n + 1)
  <2>1. n \in 1 .. N /\ n + 1 \in 1 .. N /\ n < n + 1
    BY <1>3
  <2>2. start(n) < start(n + 1)
    BY <2>1, <1>9
  \* No region starts inside another one.
  <2>3. ~(start(n + 1) < end(n))
    <3> SUFFICES ASSUME start(n + 1) < end(n)
                 PROVE  FALSE
      OBVIOUS
    <3>1. order[n] = order[n + 1]
      BY <2>1, <2>2, <1>7, <1>8
    <3> QED  BY <3>1, <2>1, <2>2, <1>7
  <2>4. end(n) \in 0 .. MaxKey
    BY <2>1, <2>3, <1>1, <1>7
  <2>5. PICK m \in 1 .. N : start(m) <= end(n) /\ end(n) < end(m)
    <3>1. PICK i \in D : Holds(regions[i], end(n))
      BY <2>4 DEF Tiling
    <3> QED  BY <3>1, <1>6 DEF Holds
  <2>6. ~(m < n)
    <3> SUFFICES ASSUME m < n
                 PROVE  FALSE
      OBVIOUS
    <3>1. start(m) < start(n)
      BY <2>1, <1>9
    <3>2. start(n) < end(m)
      BY <2>1, <2>5, <1>7
    <3>3. order[m] = order[n]
      BY <2>1, <3>1, <3>2, <1>7, <1>8
    <3> QED  BY <3>1, <3>3, <2>1, <1>7
  <2>7. m # n
    BY <2>5, <1>7
  <2>8. start(n + 1) <= start(m)
    <3>1. m = n + 1 \/ n + 1 < m
      BY <2>1, <2>6, <2>7
    <3>2. CASE m = n + 1
      BY <3>2, <1>7
    <3>3. CASE n + 1 < m
      <4>1. start(n + 1) < start(m)
        BY <3>3, <2>1, <1>9
      <4> QED  BY <4>1, <2>1, <1>7
    <3> QED  BY <3>1, <3>2, <3>3
  <2> QED  BY <2>1, <2>3, <2>5, <2>8, <1>7
<1> QED  BY <1>3, <1>6, <1>9, <1>10 DEF order, N

\* sort.Search finds the region of the key, and the list goes on to the last one.
LEMMA NoGap ==
    ASSUME RegionsTyped(regions, id), Tiling(regions), NoEmptyRegion
    PROVE  ScanHasNoGap
<1> DEFINE D == DOMAIN regions
           order == Ordered(D, StartOrder)
           N == Cardinality(D)
           start(n) == regions[order[n]].start
           end(n) == regions[order[n]].end
<1>1. /\ N \in Nat /\ order \in [1 .. N -> D]
      /\ \A i \in D : \E n \in 1 .. N : order[n] = i
      /\ \A m, n \in 1 .. N : m < n => start(m) < start(n)
      /\ \A n \in 1 .. N - 1 : end(n) = start(n + 1)
  BY NeighboursMeet
<1>2. order \in Seq(D) /\ Len(order) = N /\ DOMAIN order = 1 .. N
  BY <1>1
<1> SUFFICES ASSUME NEW k \in Key
             PROVE  LET chain == ScanRegions(k, NoEnd, 0) IN
                    /\ RegionContains(regions[chain[1]], k)
                    /\ \A n \in 1 .. Len(chain) - 1 :
                         regions[chain[n]].end = regions[chain[n + 1]].start
  BY DEF ScanHasNoGap
<1> DEFINE above == {n \in DOMAIN order : regions[order[n]].end = NoEnd \/ regions[order[n]].end > k}
           p == SearchFirst(Len(order), above)
           chain == ScanRegions(k, NoEnd, 0)
<1>3. chain = SubSeq(order, p, Len(order))
  BY DEF ScanRegions
<1>4. k \in 0 .. MaxKey /\ k \in Nat
  BY KeysAreNat
<1>5. \A n \in 1 .. N : n \in above <=> end(n) = NoEnd \/ end(n) > k
  BY <1>2
<1> HIDE DEF order, N, above, p, chain
<1>6. \A n \in 1 .. N : order[n] \in D
  BY <1>1
<1>7. ASSUME NEW n \in 1 .. N
      PROVE  /\ start(n) \in Nat /\ end(n) \in Nat /\ start(n) <= MaxKey /\ start(n) < end(n)
             /\ end(n) <= NoEnd
  <2>1. start(n) \in 0 .. MaxKey /\ end(n) \in 1 .. NoEnd
    BY <1>6 DEF RegionsTyped, RegionTyped
  <2>2. start(n) <= end(n) /\ start(n) # end(n)
    BY <1>6 DEF Tiling, NoEmptyRegion
  <2> QED  BY <2>1, <2>2, KeysAreNat DEF NoEnd
<1>8. PICK m \in 1 .. N : start(m) <= k /\ k < end(m)
  <2>1. PICK i \in D : Holds(regions[i], k)
    BY <1>4 DEF Tiling
  <2> QED  BY <2>1, <1>1 DEF Holds
<1>9. m \in above
  BY <1>4, <1>5, <1>7, <1>8
<1>10. ASSUME NEW n \in 1 .. N, NEW l \in 1 .. N, n < l
       PROVE  end(n) <= start(l) /\ end(n) # NoEnd
  <2>1. n \in 1 .. N - 1 /\ n + 1 \in 1 .. N
    BY <1>1, <1>10
  <2>2. end(n) = start(n + 1)
    BY <2>1, <1>1
  <2>3. start(n + 1) <= start(l)
    <3>1. n + 1 = l \/ n + 1 < l
      BY <1>1, <1>10
    <3>2. CASE n + 1 = l
      BY <3>2, <1>7
    <3>3. CASE n + 1 < l
      <4>1. start(n + 1) < start(l)
        BY <3>3, <2>1, <1>1
      <4> QED  BY <4>1, <2>1, <1>7
    <3> QED  BY <3>1, <3>2, <3>3
  <2>4. start(n + 1) <= MaxKey /\ start(n + 1) \in Nat
    BY <2>1, <1>7
  <2> QED  BY <2>2, <2>3, <2>4, KeysAreNat DEF NoEnd
<1>11. ASSUME NEW n \in 1 .. N, n < m
       PROVE  n \notin above
  <2>1. end(n) <= start(m) /\ end(n) # NoEnd
    BY <1>10, <1>11
  <2>2. ~(end(n) > k)
    BY <2>1, <1>4, <1>7, <1>8
  <2> QED  BY <2>1, <2>2, <1>5
<1>12. ASSUME NEW n \in 1 .. N, m < n
       PROVE  n \in above
  <2>1. end(m) <= start(n)
    BY <1>10, <1>12
  <2>2. end(n) > k
    BY <2>1, <1>4, <1>7, <1>8
  <2> QED  BY <2>2, <1>5
<1>13. p = m
  <2>1. m \in 1 .. N + 1 /\ (m <= N => m \in above) /\ (m > 1 => m - 1 \notin above)
    <3>1. m > 1 => m - 1 \in 1 .. N /\ m - 1 < m
      BY <1>1
    <3> QED  BY <3>1, <1>1, <1>9, <1>11
  <2>2. p \in 1 .. N + 1 /\ (p <= N => p \in above) /\ (p > 1 => p - 1 \notin above)
    <3>1. p = CHOOSE q \in 1 .. N + 1 : (q <= N => q \in above) /\ (q > 1 => q - 1 \notin above)
      BY <1>2 DEF p, SearchFirst
    <3> QED  BY <3>1, <2>1
  <2>3. ~(p < m)
    <3>1. p < m => p \in 1 .. N /\ p <= N
      BY <1>1, <2>2
    <3> QED  BY <3>1, <2>2, <1>11
  <2>4. ~(m < p)
    <3>1. m < p => p > 1 /\ p - 1 \in 1 .. N /\ (p - 1 = m \/ m < p - 1)
      BY <1>1, <2>2
    <3> QED  BY <3>1, <2>2, <1>9, <1>12
  <2> QED  BY <1>1, <2>2, <2>3, <2>4
<1>14. /\ Len(chain) = N - m + 1
       /\ \A n \in 1 .. N - m + 1 : chain[n] = order[m + n - 1]
  <2>1. m \in Int /\ N \in Int /\ m <= N /\ \A i \in m .. N : order[i] \in D
    BY <1>1
  <2>2. chain = SubSeq(order, m, N)
    BY <1>2, <1>3, <1>13
  <2> HIDE DEF D
  <2>3. /\ Len(SubSeq(order, m, N)) = IF m <= N THEN N - m + 1 ELSE 0
        /\ \A n \in 1 .. N - m + 1 : SubSeq(order, m, N)[n] = order[m + n - 1]
    BY ONLY <2>1, SubSeqProperties
  <2> QED  BY <2>1, <2>2, <2>3
<1>15. RegionContains(regions[chain[1]], k)
  <2>1. 1 \in 1 .. N - m + 1 /\ m + 1 - 1 = m
    BY <1>1
  <2>2. chain[1] = order[m]
    BY <2>1, <1>14
  <2> QED  BY <2>2, <1>8 DEF RegionContains
<1>16. ASSUME NEW n \in 1 .. Len(chain) - 1
       PROVE  regions[chain[n]].end = regions[chain[n + 1]].start
  <2>1. /\ n \in 1 .. N - m + 1 /\ n + 1 \in 1 .. N - m + 1
        /\ m + n - 1 \in 1 .. N - 1 /\ m + (n + 1) - 1 = (m + n - 1) + 1
    <3>1. N \in Nat /\ m \in 1 .. N /\ n \in 1 .. (N - m + 1) - 1
      BY <1>1, <1>14
    <3> QED  BY ONLY <3>1
  <2>2. chain[n] = order[m + n - 1] /\ chain[n + 1] = order[(m + n - 1) + 1]
    BY <2>1, <1>14
  <2> QED  BY <2>1, <2>2, <1>1
<1> QED  BY <1>15, <1>16 DEF chain

LEMMA InvPartition == RegionsInv => RegionsPartition
BY OneRegion, NoGap DEF RegionsInv, RegionsPartition

-----------------------------------------------------------------------------
(* Every step keeps the invariant. *)

LEMMA RequestTyped ==
    ASSUME NEW cmd, NEW key, NEW to
    PROVE  LET q == Request(cmd, key, to) IN
           DOMAIN q = ClientFields /\ q.cmd = cmd /\ q.key = key /\ q.pc = "idle" /\ q.err = "none"
BY DEF Request, ClientFields

LEMMA RequestsTyped ==
    ASSUME NEW c \in Client, NEW q \in RequestsOf(c)
    PROVE  ClientTyped(c, [q EXCEPT !.pc = "locate"])
<1>1. /\ DOMAIN q = ClientFields /\ q.err = "none"
      /\ q.cmd = "SplitRegion" => c \in Splitter /\ q.key \in Key
  <2>1. CASE c \in Scanner
    BY <2>1, RequestTyped DEF RequestsOf
  <2>2. CASE c \notin Scanner /\ c \in Splitter
    <3>1. PICK k \in SplitAtKeys[c] : q = Request("SplitRegion", k, NoEnd)
      BY <2>2 DEF RequestsOf
    <3>2. k \in Key
      BY <2>2, RegionsAssumption
    <3> QED  BY <3>1, <3>2, <2>2, RequestTyped
  <2>3. CASE c \notin Scanner /\ c \notin Splitter
    <3>1. PICK cmd \in RawCmd, k \in Key : q = Request(cmd, k, NoEnd)
      BY <2>3 DEF RequestsOf
    <3>2. cmd # "SplitRegion"
      BY RegionsAssumption
    <3> QED  BY <3>1, <3>2, RequestTyped
  <2> QED  BY <2>1, <2>2, <2>3
<1> QED  BY <1>1 DEF ClientTyped, ClientFields

LEMMA RegionsInitInv == RegionsInit => RegionsInv
<1> SUFFICES ASSUME RegionsInit
             PROVE  RegionsInv
  OBVIOUS
<1> DEFINE peers == {[id |-> FirstPeerIDs[s], store |-> s] : s \in BootPeers}
           leader == Cardinality(Store) + 1
           r == NewRegion(0, NoEnd, peers, leader)
<1>1. id \in Nat \ {0} /\ regions = [i \in {id} |-> r]
  <2>1. IsFiniteSet(Store) /\ IsFiniteSet(BootPeers)
    BY RegionsAssumption, FS_Subset
  <2>2. Cardinality(Store) \in Nat /\ Cardinality(BootPeers) \in Nat
    BY <2>1, FS_CardinalityType
  <2> QED  BY <2>2 DEF RegionsInit
<1>2. IsFiniteSet(peers)
  <2> DEFINE f == [s \in BootPeers |-> [id |-> FirstPeerIDs[s], store |-> s]]
  <2>1. f \in Surjection(BootPeers, peers)
    BY DEF Surjection
  <2>2. IsFiniteSet(BootPeers)
    BY RegionsAssumption, FS_Subset
  <2> HIDE DEF f, peers
  <2> QED  BY <2>1, <2>2, FS_Surjection
<1>3. DOMAIN r = RegionFields /\ r.start = 0 /\ r.end = NoEnd /\ r.peers = peers /\ r.ver = 0
  <2> HIDE DEF peers, leader
  <2> QED  BY RegionMade
<1> HIDE DEF r, peers, leader
<1>4. RegionTyped(r)
  BY <1>2, <1>3, KeysAreNat DEF RegionTyped, NoEnd
<1>5. DOMAIN regions = {id} /\ regions[id] = r /\ id \in 1 .. id
  BY <1>1
<1>6. RegionsTyped(regions, id)
  BY <1>1, <1>4, <1>5 DEF RegionsTyped
<1>7. Tiling(regions)
  <2>1. 0 <= NoEnd /\ \A k \in 0 .. MaxKey : Holds(r, k)
    BY <1>3, KeysAreNat DEF Holds, NoEnd
  <2> QED  BY <2>1, <1>3, <1>5 DEF Tiling
<1>9. Proper(regions)
  BY <1>3, <1>5, KeysAreNat DEF Proper, NoEnd
<1>8. ClientsTyped
  <2>1. PICK on \in Together : \E f \in [on -> Requests] :
           /\ \A c \in on : f[c] \in RequestsOf(c)
           /\ cli = [c \in Client |-> IF c \in on THEN [f[c] EXCEPT !.pc = "locate"]
                                     ELSE Request("none", 0, 0)]
    BY DEF RegionsInit
  <2>2. PICK f \in [on -> Requests] :
           /\ \A c \in on : f[c] \in RequestsOf(c)
           /\ cli = [c \in Client |-> IF c \in on THEN [f[c] EXCEPT !.pc = "locate"]
                                     ELSE Request("none", 0, 0)]
    BY <2>1
  <2>3. ASSUME NEW c \in Client
        PROVE  ClientTyped(c, cli[c])
    <3>1. CASE c \in on
      <4>1. f[c] \in RequestsOf(c) /\ cli[c] = [f[c] EXCEPT !.pc = "locate"]
        BY <3>1, <2>2
      <4> QED  BY <4>1, RequestsTyped
    <3>2. CASE c \notin on
      <4>1. cli[c] = Request("none", 0, 0)
        BY <3>2, <2>2
      <4> QED  BY <4>1, RequestTyped DEF ClientTyped
    <3> QED  BY <3>1, <3>2
  <2>4. DOMAIN cli = Client
    BY <2>2
  <2> QED  BY <2>3, <2>4 DEF ClientsTyped
<1> QED  BY <1>6, <1>7, <1>8, <1>9 DEF RegionsInv

LEMMA TypedAfter ==
    ASSUME NEW c, NEW m, ClientTyped(c, m), m.pc # "done", NEW m2,
           DOMAIN m2 = ClientFields, m2.cmd = m.cmd,
           m2.key = m.key \/ m.cmd # "SplitRegion",
           m2.pc # "split" \/ m.cmd = "SplitRegion",
           m2.err = m.err \/ m2.err \notin {"stale", "repeated"}
    PROVE  ClientTyped(c, m2)
BY DEF ClientTyped

MarksStay == (StaleSplit => StaleSplit') /\ (RepeatedSplit => RepeatedSplit')

\* What holds of any step besides the invariant.
Onward ==
    /\ Aged(regions, id, regions') /\ id <= id'
    /\ Emptied => Emptied'

\* A client that takes a step has no stale or repeated split behind it.
LEMMA ClientMoves ==
    ASSUME ClientsTyped, NEW c \in Client, cli[c].pc # "done",
           NEW m, cli' = [cli EXCEPT ![c] = m], ClientTyped(c, m)
    PROVE  ClientsTyped' /\ MarksStay
<1>1. DOMAIN cli' = Client /\ cli'[c] = m /\ \A d \in Client \ {c} : cli'[d] = cli[d]
  BY DEF ClientsTyped
<1>2. ClientsTyped'
  <2>1. \A d \in Client : ClientTyped(d, cli'[d])
    BY <1>1 DEF ClientsTyped
  <2> QED  BY <1>1, <2>1 DEF ClientsTyped, ClientTyped
<1>3. ASSUME NEW d \in Splitter, cli[d].err \in {"stale", "repeated"}
      PROVE  cli'[d] = cli[d]
  <2>1. d \in Client
    BY DEF Client
  <2>2. d # c
    BY <1>3, <2>1 DEF ClientsTyped, ClientTyped
  <2> QED  BY <1>1, <2>1, <2>2
<1>4. MarksStay
  BY <1>3 DEF MarksStay, StaleSplit, RepeatedSplit
<1> QED  BY <1>2, <1>4

LEMMA SameOnward ==
    ASSUME RegionsTyped(regions, id), UNCHANGED <<id, regions>>, MarksStay
    PROVE  Onward
<1>1. \A i \in DOMAIN regions : SameOrNewer(regions[i], regions[i])
  BY DEF SameOrNewer, RegionsTyped, RegionTyped
<1>2. Aged(regions, id, regions')
  BY <1>1 DEF Aged
<1> QED  BY <1>2 DEF Onward, MarksStay, Emptied, RegionsTyped

LEMMA SameMarks ==
    ASSUME ClientsTyped, UNCHANGED cli
    PROVE  ClientsTyped' /\ MarksStay
BY DEF ClientsTyped, ClientTyped, StaleSplit, RepeatedSplit, MarksStay

LEMMA SameRegions ==
    ASSUME RegionsInv, UNCHANGED <<id, regions>>, ClientsTyped', MarksStay
    PROVE  RegionsInv' /\ Onward
<1>1. RegionsInv'
  BY DEF RegionsInv, RegionsTyped, Tiling, Proper, Emptied, MarksStay
<1> QED  BY <1>1, SameOnward DEF RegionsInv

LEMMA SameClients ==
    ASSUME RegionsInv, UNCHANGED cli, RegionsTyped(regions', id'), id <= id',
           RegionsFollow(regions, id, regions')
    PROVE  RegionsInv' /\ Onward
<1>1. ClientsTyped' /\ MarksStay
  BY SameMarks DEF RegionsInv
<1>2. RegionsInv'
  BY <1>1 DEF RegionsInv, RegionsFollow, MarksStay, Emptied
<1>3. Onward
  BY <1>1 DEF Onward, RegionsFollow, MarksStay, Emptied
<1> QED  BY <1>2, <1>3

\* The cluster operations that leave the keys of the regions alone.
LEMMA PeersChange ==
    ASSUME RegionsInv, UNCHANGED cli, NEW i \in DOMAIN regions, NEW r,
           regions' = [regions EXCEPT ![i] = r], id' \in Nat, id <= id',
           RegionTyped(r), r.start = regions[i].start, r.end = regions[i].end,
           r.ver = regions[i].ver
    PROVE  RegionsInv' /\ Onward
<1>1. /\ id \in Nat /\ DOMAIN regions \subseteq 1 .. id
      /\ \A j \in DOMAIN regions : RegionTyped(regions[j])
      /\ regions = [j \in DOMAIN regions |-> regions[j]]
  BY DEF RegionsInv, RegionsTyped
<1>2. /\ DOMAIN regions' = DOMAIN regions /\ regions' = [j \in DOMAIN regions |-> regions'[j]]
      /\ regions'[i] = r /\ \A j \in DOMAIN regions \ {i} : regions'[j] = regions[j]
  OBVIOUS
<1>3. \A j \in DOMAIN regions : RegionTyped(regions'[j])
  BY <1>1, <1>2
<1>4. DOMAIN regions' \subseteq 1 .. id'
  BY <1>1, <1>2
<1>5. RegionsTyped(regions', id')
  BY <1>2, <1>3, <1>4 DEF RegionsTyped
<1>6. Tiling(regions) => Tiling(regions')
  BY <1>2, SameKeysTile
<1>7. Proper(regions) => Proper(regions')
  BY <1>2 DEF Proper
<1>8. Aged(regions, id, regions')
  <2>1. \A j \in DOMAIN regions : regions[j].ver \in Nat
    BY <1>1 DEF RegionTyped
  <2>2. \A j \in DOMAIN regions : SameOrNewer(regions[j], regions'[j])
    BY <2>1, <1>2 DEF SameOrNewer
  <2> QED  BY <2>2, <1>2 DEF Aged
<1>9. RegionsFollow(regions, id, regions')
  BY <1>6, <1>7, <1>8 DEF RegionsFollow
<1> QED  BY <1>5, <1>9, SameClients

LEMMA ClusterKeeps ==
    ASSUME RegionsInv, ClusterStep,
           \A a \in SplitRanges : {k \in Data : a[1] <= k /\ k < a[2]} # {}
    PROVE  RegionsInv' /\ Onward
<1>1. /\ RegionsTyped(regions, id) /\ id \in Nat
      /\ \A i \in DOMAIN regions : RegionTyped(regions[i])
  BY DEF RegionsInv, RegionsTyped
<1>2. CASE Merge
  <2>1. PICK i \in DOMAIN regions, j \in DOMAIN regions :
           /\ i # j /\ regions[i].end = regions[j].start
           /\ regions' = Without([regions EXCEPT ![i].end = regions[j].end, ![i].ver = @ + 1], {j})
    BY <1>2 DEF Merge
  <2>2. RegionsTyped(regions', id) /\ RegionsFollow(regions, id, regions')
    BY <2>1, <1>1, MergeKeeps
  <2>3. UNCHANGED <<id, cli>>
    BY <1>2 DEF Merge
  <2> QED  BY <2>2, <2>3, <1>1, SameClients
<1>3. CASE AddPeer
  <2>1. id' = id + 1 /\ UNCHANGED cli
    BY <1>3 DEF AddPeer
  <2>2. PICK i \in DOMAIN regions, s \in Store :
           regions' = [regions EXCEPT ![i].peers = @ \cup {[id |-> id + 1, store |-> s]},
                                      ![i].conf = @ + 1]
    BY <1>3 DEF AddPeer
  <2> DEFINE p == [id |-> id + 1, store |-> s]
             r == [regions[i] EXCEPT !.peers = @ \cup {p}, !.conf = @ + 1]
  <2>3. regions' = [regions EXCEPT ![i] = r]
    BY <2>2
  <2>4. DOMAIN regions[i] = RegionFields /\ IsFiniteSet(regions[i].peers)
    BY <1>1 DEF RegionTyped
  <2> HIDE DEF p
  <2>5. IsFiniteSet(regions[i].peers \cup {p})
    BY <2>4, FS_AddElement
  <2>6. /\ DOMAIN r = RegionFields /\ r.start = regions[i].start /\ r.end = regions[i].end
        /\ r.peers = regions[i].peers \cup {p} /\ r.ver = regions[i].ver
    BY <2>4 DEF RegionFields
  <2> HIDE DEF r
  <2>7. RegionTyped(r)
    BY <1>1, <2>5, <2>6 DEF RegionTyped
  <2>8. id' \in Nat /\ id <= id'
    BY <1>1, <2>1
  <2> QED  BY <2>1, <2>3, <2>6, <2>7, <2>8, PeersChange
<1>4. CASE RemovePeer
  <2>1. id' = id /\ UNCHANGED cli
    BY <1>4 DEF RemovePeer
  <2>2. PICK i \in DOMAIN regions : \E p \in regions[i].peers :
           regions' = [regions EXCEPT ![i].peers = @ \ {p}, ![i].conf = @ + 1,
                                      ![i].leader = IF @ = p.id THEN None ELSE @]
    BY <1>4 DEF RemovePeer
  <2>3. PICK p \in regions[i].peers :
           regions' = [regions EXCEPT ![i].peers = @ \ {p}, ![i].conf = @ + 1,
                                      ![i].leader = IF @ = p.id THEN None ELSE @]
    BY <2>2
  <2> DEFINE r == [regions[i] EXCEPT !.peers = @ \ {p}, !.conf = @ + 1,
                                     !.leader = IF @ = p.id THEN None ELSE @]
  <2>4. regions' = [regions EXCEPT ![i] = r]
    BY <2>3
  <2>5. DOMAIN regions[i] = RegionFields /\ IsFiniteSet(regions[i].peers)
    BY <1>1 DEF RegionTyped
  <2>6. IsFiniteSet(regions[i].peers \ {p})
    BY <2>5, FS_RemoveElement
  <2>7. /\ DOMAIN r = RegionFields /\ r.start = regions[i].start /\ r.end = regions[i].end
        /\ r.peers = regions[i].peers \ {p} /\ r.ver = regions[i].ver
    BY <2>5 DEF RegionFields
  <2> HIDE DEF r
  <2>8. RegionTyped(r)
    BY <1>1, <2>6, <2>7 DEF RegionTyped
  <2>9. id' \in Nat /\ id <= id'
    BY <1>1, <2>1
  <2> QED  BY <2>1, <2>4, <2>7, <2>8, <2>9, PeersChange
<1>5. CASE ChangeLeader
  <2>1. id' = id /\ UNCHANGED cli
    BY <1>5 DEF ChangeLeader
  <2>2. PICK i \in DOMAIN regions : \E l \in {p.id : p \in regions[i].peers} \cup {None} :
           regions' = [regions EXCEPT ![i].leader = l]
    BY <1>5 DEF ChangeLeader
  <2>3. PICK l \in {p.id : p \in regions[i].peers} \cup {None} :
           regions' = [regions EXCEPT ![i].leader = l]
    BY <2>2
  <2> DEFINE r == [regions[i] EXCEPT !.leader = l]
  <2>4. regions' = [regions EXCEPT ![i] = r]
    BY <2>3
  <2>5. DOMAIN regions[i] = RegionFields
    BY <1>1 DEF RegionTyped
  <2>6. /\ DOMAIN r = RegionFields /\ r.start = regions[i].start /\ r.end = regions[i].end
        /\ r.peers = regions[i].peers /\ r.ver = regions[i].ver
    BY <2>5 DEF RegionFields
  <2> HIDE DEF r
  <2>7. RegionTyped(r)
    BY <1>1, <2>6 DEF RegionTyped
  <2>8. id' \in Nat /\ id <= id'
    BY <1>1, <2>1
  <2> QED  BY <2>1, <2>4, <2>6, <2>7, <2>8, PeersChange
<1>6. CASE SetStore
  <2>1. UNCHANGED <<id, regions, cli>>
    BY <1>6 DEF SetStore
  <2> QED  BY <2>1, <1>1, SameRegions, SameMarks DEF RegionsInv
<1>7. CASE SplitKeys
  <2>1. PICK a \in SplitRanges :
           /\ regions' = AfterSplitRange(Remaining(a[1], a[2]), FreshRanges(a[1], a[2], a[3]))
           /\ id' = id + 2 * Len(FreshRanges(a[1], a[2], a[3]))
    BY <1>7 DEF SplitKeys, AfterSplitRange
  <2>2. UNCHANGED cli
    BY <1>7 DEF SplitKeys
  <2> DEFINE s == a[1]
             e == a[2]
             count == a[3]
  <2>3. s \in Key /\ e \in Key /\ count \in Nat \ {0}
    BY RegionsAssumption
  <2>4. {k \in Data : s <= k /\ k < e} # {}
    OBVIOUS
  <2> HIDE DEF s, e, count
  <2>5. s < e
    <3>1. PICK k \in Data : s <= k /\ k < e
      BY <2>4
    <3>2. s \in Nat /\ e \in Nat /\ k \in Nat
      BY <2>3, KeysAreNat
    <3> QED  BY <3>1, <3>2
  <2>6. /\ RegionsTyped(AfterSplitRange(Remaining(s, e), FreshRanges(s, e, count)),
                        id + 2 * Len(FreshRanges(s, e, count)))
        /\ RegionsFollow(regions, id, AfterSplitRange(Remaining(s, e), FreshRanges(s, e, count)))
    BY <1>1, <2>3, <2>4, <2>5, SplitRangeKeeps
  <2>7. Len(FreshRanges(s, e, count)) \in Nat
    <3>1. RightsThenGroups(FreshRanges(s, e, count), SetToSeq(Wide(s, e)), NewRanges(s, e, count), s, e)
      BY <1>1, <2>3, <2>4, <2>5, FreshRangesAre
    <3> QED  BY <3>1 DEF RightsThenGroups
  <2>8. id <= id'
    BY <1>1, <2>1, <2>7 DEF s, e, count
  <2> QED  BY <2>1, <2>2, <2>6, <2>8, SameClients DEF s, e, count
<1> QED  BY <1>2, <1>3, <1>4, <1>5, <1>6, <1>7 DEF ClusterStep

LEMMA PeersLikeFinite ==
    ASSUME NEW r, IsFiniteSet(r.peers), NEW first
    PROVE  IsFiniteSet(PeersLike(r, first))
<1> DEFINE copy(p) == [id |-> first + Cardinality({q \in r.peers : q.id < p.id}), store |-> p.store]
           f == [p \in r.peers |-> copy(p)]
           T == {copy(p) : p \in r.peers}
<1> HIDE DEF copy
<1>1. f \in Surjection(r.peers, T)
  BY DEF Surjection
<1> HIDE DEF f, T
<1>2. IsFiniteSet(T)
  BY <1>1, FS_Surjection
<1> QED  BY <1>2 DEF PeersLike, T, copy

\* An error of the checks is never the mark of a stale or repeated split.
Marks == {"stale", "repeated"}

LEMMA NotStale ==
    ASSUME NEW ctx, NEW c, NEW s
    PROVE  ContextError(ctx) \notin Marks /\ SizeError(c) \notin Marks
           /\ \A e \in StoreErrors(s) : e \notin Marks
<1>1. ContextError(ctx) \notin Marks
  BY DEF ContextError, Marks
<1>2. SizeError(c) \notin Marks
  BY DEF SizeError, Marks
<1>3. \A e \in StoreErrors(s) : e \notin Marks
  BY DEF StoreErrors, Marks
<1> QED  BY <1>1, <1>2, <1>3

LEMMA AfterErrorTyped ==
    ASSUME NEW c, ClientTyped(c, cli[c]), cli[c].pc # "done", NEW e
    PROVE  ClientTyped(c, AfterError(c, e))
<1> DEFINE m == cli[c]
           a == AfterError(c, e)
<1>1. DOMAIN m = ClientFields
  BY DEF ClientTyped
<1>2. /\ DOMAIN a = ClientFields /\ a.cmd = m.cmd /\ a.key = m.key
      /\ a.pc \in {"send", "done", "locate"}
      /\ a.err = m.err \/ a.err = "RaftEntryTooLarge"
  <2>1. \/ \E x : a = [m EXCEPT !.pc = "send", !.peer = x]
        \/ \E x, y : a = [m EXCEPT !.pc = "send", !.meta = x, !.peer = y]
        \/ a = [m EXCEPT !.pc = "done", !.err = "RaftEntryTooLarge"]
        \/ a = [m EXCEPT !.pc = "locate", !.region = None]
    BY DEF AfterError
  <2> HIDE DEF a, m
  <2> QED  BY <2>1, <1>1 DEF ClientFields
<1> HIDE DEF a
<1>3. ClientTyped(c, a)
  BY <1>2, TypedAfter
<1> QED  BY <1>3 DEF a

LEMMA RequestStepsKeep ==
    ASSUME RegionsInv, NEW c \in Client,
           Locate(c) \/ CheckRequest(c) \/ RunScan(c) \/ RunReverseScan(c) \/ RunInterlock(c)
           \/ RunRaw(c) \/ SplitLookup(c)
    PROVE  RegionsInv' /\ Onward
<1> DEFINE m == cli[c]
<1>1. ClientsTyped /\ ClientTyped(c, m) /\ DOMAIN m = ClientFields
  BY DEF RegionsInv, ClientsTyped, ClientTyped
<1>2. ASSUME NEW new, cli' = [cli EXCEPT ![c] = new], UNCHANGED <<id, regions>>,
             m.pc # "done", ClientTyped(c, new)
      PROVE  RegionsInv' /\ Onward
  BY <1>1, <1>2, ClientMoves, SameRegions
<1>3. CASE Locate(c)
  <2>1. m.pc = "locate" /\ UNCHANGED <<id, regions>>
    BY <1>3 DEF Locate
  <2>2. PICK i \in Located(m) : \E p :
           cli' = [cli EXCEPT ![c].pc = "send", ![c].region = i, ![c].meta = regions[i], ![c].peer = p]
    BY <1>3 DEF Locate
  <2>p. PICK p :
           cli' = [cli EXCEPT ![c].pc = "send", ![c].region = i, ![c].meta = regions[i], ![c].peer = p]
    BY <2>2
  <2> DEFINE new == [m EXCEPT !.pc = "send", !.region = i, !.meta = regions[i], !.peer = p]
  <2>3. cli' = [cli EXCEPT ![c] = new]
    BY <2>p
  <2>4. DOMAIN new = ClientFields /\ new.cmd = m.cmd /\ new.key = m.key /\ new.err = m.err
        /\ new.pc = "send"
    BY <1>1 DEF ClientFields
  <2>5. ClientTyped(c, new)
    <3> HIDE DEF new, m
    <3> QED  BY <2>1, <2>4, <1>1, TypedAfter
  <2> QED  BY <2>1, <2>3, <2>5, <1>2
<1>4. CASE CheckRequest(c)
  <2>1. m.pc = "send" /\ UNCHANGED <<id, regions>>
    BY <1>4 DEF CheckRequest
  <2>2. PICK se \in StoreErrors(m.peer.store) :
           LET e == IF se # "none" THEN se
                    ELSE IF ContextError(m) # "none" THEN ContextError(m) ELSE SizeError(c) IN
           cli' = [cli EXCEPT ![c] =
               IF e = "none"
               THEN [m EXCEPT !.pc = "run", !.start = regions[m.region].start,
                              !.end = regions[m.region].end]
               ELSE IF ~RawReturns(m.cmd) /\ se = "none"
                    THEN [m EXCEPT !.pc = "run", !.err = e]
                    ELSE AfterError(c, e)]
    BY <1>4 DEF CheckRequest
  <2> DEFINE e == IF se # "none" THEN se
                  ELSE IF ContextError(m) # "none" THEN ContextError(m) ELSE SizeError(c)
             served == [m EXCEPT !.pc = "run", !.start = regions[m.region].start,
                                 !.end = regions[m.region].end]
             goesOn == [m EXCEPT !.pc = "run", !.err = e]
  <2>3. e \notin {"stale", "repeated"}
    BY NotStale DEF Marks
  <2>4. cli' = [cli EXCEPT ![c] = served] \/ cli' = [cli EXCEPT ![c] = goesOn]
        \/ cli' = [cli EXCEPT ![c] = AfterError(c, e)]
    BY <2>2
  <2> HIDE DEF e
  <2>5. /\ DOMAIN served = ClientFields /\ served.cmd = m.cmd /\ served.key = m.key
        /\ served.err = m.err /\ served.pc = "run"
    BY <1>1 DEF ClientFields
  <2>6. /\ DOMAIN goesOn = ClientFields /\ goesOn.cmd = m.cmd /\ goesOn.key = m.key
        /\ goesOn.err = e /\ goesOn.pc = "run"
    BY <1>1 DEF ClientFields
  <2>7. ClientTyped(c, AfterError(c, e))
    BY <1>1, <2>1, AfterErrorTyped
  <2>8. ClientTyped(c, served) /\ ClientTyped(c, goesOn)
    <3> HIDE DEF served, goesOn, m
    <3> QED  BY <2>1, <2>3, <2>5, <2>6, <1>1, TypedAfter
  <2> HIDE DEF served, goesOn
  <2> QED  BY <2>1, <2>4, <2>7, <2>8, <1>2
<1>5. CASE RunScan(c) \/ RunReverseScan(c) \/ RunInterlock(c)
  <2>1. m.pc = "run" /\ m.cmd # "SplitRegion" /\ UNCHANGED <<id, regions>>
    BY <1>5 DEF RunScan, RunReverseScan, RunInterlock
  <2> DEFINE panics == [m EXCEPT !.pc = "panic"]
             up(next, got) ==
                [m EXCEPT !.pc = IF next >= m.to THEN "done" ELSE "locate",
                          !.key = next, !.out = @ \o got]
             down(next, got) ==
                [m EXCEPT !.pc = IF next <= m.key THEN "done" ELSE "locate",
                          !.to = next, !.out = @ \o got]
  <2>2. ASSUME NEW new, cli' = [cli EXCEPT ![c] = new],
               \/ new = panics
               \/ \E next, got : new = up(next, got) \/ new = down(next, got)
        PROVE  RegionsInv' /\ Onward
    <3>1. DOMAIN new = ClientFields /\ new.cmd = m.cmd /\ new.err = m.err /\ new.pc # "split"
      BY <2>2, <1>1 DEF ClientFields
    <3> HIDE DEF panics, up, down, m
    <3>2. ClientTyped(c, new)
      BY <2>1, <3>1, <1>1, TypedAfter
    <3> QED  BY <2>1, <2>2, <3>2, <1>2
  <2>3. CASE RunScan(c)
    <3> DEFINE got == Scan(m.key, Min({m.to, m.meta.end, m.end}))
               next == IF Len(got) < Limit THEN Min({m.to, m.meta.end}) ELSE Last(got) + 1
               new == IF ~InRange(m, m.key) THEN panics ELSE up(next, got)
    <3>1. cli' = [cli EXCEPT ![c] = new]
      BY <2>3 DEF RunScan
    <3>2. new = panics \/ new = up(next, got)
      OBVIOUS
    <3> HIDE DEF new, got, next, panics, up, down
    <3> QED  BY <3>1, <3>2, <2>2
  <2>4. CASE RunReverseScan(c)
    <3> DEFINE lower == Max({m.key, m.meta.start})
               got == ReverseScan(lower, Min({m.to, m.end}))
               next == IF Len(got) < Limit THEN lower ELSE Last(got)
               new == IF ~InRange(m, lower) THEN panics ELSE down(next, got)
    <3>1. cli' = [cli EXCEPT ![c] = new]
      BY <2>4 DEF RunReverseScan
    <3>2. new = panics \/ new = down(next, got)
      OBVIOUS
    <3> HIDE DEF new, got, next, panics, up, down
    <3> QED  BY <3>1, <3>2, <2>2
  <2>5. CASE RunInterlock(c)
    <3> DEFINE next == Min({m.to, m.meta.end})
               upper == Min({next, m.end})
               got == Ascending({k \in Data : Max({m.key, m.start}) <= k /\ k < upper})
               new == up(next, got)
    <3>1. cli' = [cli EXCEPT ![c] = new]
      BY <2>5 DEF RunInterlock
    <3> HIDE DEF got, next, panics, up, down
    <3> QED  BY <3>1, <2>2
  <2> QED  BY <1>5, <2>3, <2>4, <2>5
<1>6. CASE RunRaw(c)
  <2>1. m.pc = "run" /\ UNCHANGED <<id, regions>>
    BY <1>6 DEF RunRaw
  <2> DEFINE new == [m EXCEPT !.pc = "done", !.out = RawFound(m)]
  <2>2. cli' = [cli EXCEPT ![c] = new]
    BY <1>6 DEF RunRaw
  <2>3. DOMAIN new = ClientFields /\ new.cmd = m.cmd /\ new.key = m.key /\ new.err = m.err
        /\ new.pc = "done"
    BY <1>1 DEF ClientFields
  <2>4. ClientTyped(c, new)
    <3> HIDE DEF new, m
    <3> QED  BY <2>1, <2>3, <1>1, TypedAfter
  <2> HIDE DEF new
  <2> QED  BY <2>1, <2>2, <2>4, <1>2
<1>7. CASE SplitLookup(c)
  <2>1. m.pc = "run" /\ m.cmd = "SplitRegion" /\ UNCHANGED <<id, regions>>
    BY <1>7 DEF SplitLookup
  <2>2. PICK i \in DOMAIN regions :
           cli' = [cli EXCEPT ![c].pc = "split", ![c].region = i, ![c].meta = regions[i]]
    BY <1>7 DEF SplitLookup
  <2> DEFINE new == [m EXCEPT !.pc = "split", !.region = i, !.meta = regions[i]]
  <2>3. cli' = [cli EXCEPT ![c] = new]
    BY <2>2
  <2>4. DOMAIN new = ClientFields /\ new.cmd = m.cmd /\ new.key = m.key /\ new.err = m.err
    BY <1>1 DEF ClientFields
  <2>5. ClientTyped(c, new)
    <3> HIDE DEF new, m
    <3> QED  BY <2>1, <2>4, <1>1, TypedAfter
  <2> HIDE DEF new
  <2> QED  BY <2>1, <2>3, <2>5, <1>2
<1> QED  BY <1>3, <1>4, <1>5, <1>6, <1>7

\* The region that was looked up splits, whatever it is by now.  If it has lost
\* the key, the split is a stale one; if it begins with it, a repeated one.
LEMMA SplitApplyKeeps ==
    ASSUME RegionsInv, NEW c \in Client, SplitApply(c)
    PROVE  RegionsInv' /\ Onward
<1> DEFINE m == cli[c]
           i == m.region
           peers == PeersLike(regions[i], (id + 1) + 1)
           leader == (id + 1) + 1
           split == SplitAt(regions, i, id + 1, m.key, peers, leader)
           here == RegionContains(regions[i], m.key)
           first == regions[i].start = m.key
           done == [m EXCEPT !.pc = "done",
                             !.err = IF ~here THEN "stale" ELSE IF first THEN "repeated" ELSE @]
           panics == [m EXCEPT !.pc = "panic"]
<1>1. /\ ClientsTyped /\ ClientTyped(c, m) /\ DOMAIN m = ClientFields
      /\ m.pc = "split" /\ c \in Splitter /\ m.key \in Key /\ m.err \notin {"stale", "repeated"}
  BY DEF RegionsInv, ClientsTyped, ClientTyped, SplitApply
<1>2. CASE i \in DOMAIN regions /\ Cardinality(regions[i].peers) = Cardinality(m.meta.peers)
  <2>1. regions' = split /\ id' = id + 1 + Cardinality(m.meta.peers)
    BY <1>2 DEF SplitApply
  <2>2. cli' = [cli EXCEPT ![c] = done]
    BY <1>2 DEF SplitApply
  <2>3. /\ RegionsTyped(regions, id) /\ id \in Nat /\ RegionTyped(regions[i])
        /\ \A j \in DOMAIN regions : j \in 1 .. id /\ regions[j].ver \in Nat
    BY <1>2 DEF RegionsInv, RegionsTyped, RegionTyped
  <2>4. IsFiniteSet(peers) /\ Cardinality(m.meta.peers) \in Nat
    BY <1>2, <2>3, PeersLikeFinite, FS_CardinalityType DEF RegionTyped
  <2>5. id' \in Nat /\ id + 1 <= id' /\ id <= id'
    <3> HIDE DEF m
    <3> QED  BY <2>1, <2>3, <2>4
  <2> HIDE DEF peers, leader
  <2>6. RegionsTyped(regions', id') /\ IsSplit(split, regions, i, id + 1, m.key)
    <3>1. /\ \A n \in Nat : id + 1 <= n => RegionsTyped(split, n)
          /\ IsSplit(split, regions, i, id + 1, m.key)
      BY <1>1, <1>2, <2>3, <2>4, SplitTyped
    <3> QED  BY <2>1, <2>5, <3>1
  <2>7. DOMAIN done = ClientFields /\ done.cmd = m.cmd /\ done.key = m.key /\ done.pc = "done"
        /\ done.err = IF ~here THEN "stale" ELSE IF first THEN "repeated" ELSE m.err
    BY <1>1 DEF ClientFields
  <2> HIDE DEF done, split
  <2>8. ClientTyped(c, done)
    BY <1>1, <2>7 DEF ClientTyped
  <2>9. ClientsTyped' /\ MarksStay
    BY <1>1, <2>2, <2>8, ClientMoves
  <2>10. cli'[c].err = IF ~here THEN "stale" ELSE IF first THEN "repeated" ELSE m.err
    BY <1>1, <2>2, <2>7 DEF ClientsTyped
  <2>11. ~here => StaleSplit'
    BY <2>10, <1>1 DEF StaleSplit
  <2>12. here /\ first => RepeatedSplit'
    BY <2>10, <1>1 DEF RepeatedSplit
  <2>13. here => Holds(regions[i], m.key)
    BY <2>3, <1>1, ContainsHolds, KeysAreNat
  <2>14. here => (Tiling(regions) => Tiling(split))
    BY <2>13, <1>1, <1>2, <2>3, <2>4, SplitTiles DEF split
  <2>15. Aged(regions, id, split)
    <3>1. ASSUME NEW j \in DOMAIN split
          PROVE  IF j \in DOMAIN regions THEN SameOrNewer(regions[j], split[j]) ELSE j > id
      <4>1. CASE j = i
        <5>1. split[i].ver = regions[i].ver + 1 /\ regions[i].ver \in Nat /\ i \in DOMAIN regions
          BY <2>3, <2>6, <1>2 DEF IsSplit
        <5> QED  BY <4>1, <5>1 DEF SameOrNewer
      <4>2. CASE j # i /\ j \in DOMAIN regions
        <5>1. split[j] = regions[j] /\ regions[j].ver \in Nat
          BY <4>2, <2>3, <2>6 DEF IsSplit
        <5> QED  BY <4>2, <5>1 DEF SameOrNewer
      <4>3. CASE j \notin DOMAIN regions
        <5>1. j = id + 1
          BY <4>3, <2>6 DEF IsSplit
        <5> QED  BY <4>3, <5>1, <2>3
      <4> QED  BY <4>1, <4>2, <4>3
    <3> QED  BY <3>1 DEF Aged
  <2>16. here /\ ~first => (Proper(regions) => Proper(split))
    <3> SUFFICES ASSUME here, ~first, Proper(regions), NEW j \in DOMAIN split
                 PROVE  split[j].start < split[j].end
      BY DEF Proper
    <3>1. regions[i].start < m.key /\ m.key < regions[i].end
      <4>1. regions[i].start \in Nat /\ m.key \in Nat
        BY <2>3, <1>1, KeysAreNat DEF RegionTyped
      <4> QED  BY <4>1, <2>13 DEF Holds
    <3>2. /\ split[i].start = regions[i].start /\ split[i].end = m.key
          /\ split[id + 1].start = m.key /\ split[id + 1].end = regions[i].end
          /\ \A l \in DOMAIN regions \ {i} : split[l] = regions[l]
          /\ j \in DOMAIN regions \/ j = id + 1
      BY <2>6 DEF IsSplit
    <3> QED  BY <3>1, <3>2 DEF Proper
  <2>17. RegionsInv'
    <3>1. StaleSplit' \/ Tiling(split)
      BY <2>9, <2>11, <2>14 DEF RegionsInv, MarksStay
    <3>2. Emptied' \/ Proper(split)
      BY <2>9, <2>11, <2>12, <2>16 DEF RegionsInv, MarksStay, Emptied
    <3> QED  BY <3>1, <3>2, <2>1, <2>6, <2>9 DEF RegionsInv
  <2>18. Onward
    BY <2>1, <2>5, <2>9, <2>15 DEF Onward, MarksStay, Emptied
  <2> QED  BY <2>17, <2>18
<1>3. CASE ~(i \in DOMAIN regions /\ Cardinality(regions[i].peers) = Cardinality(m.meta.peers))
  <2>1. cli' = [cli EXCEPT ![c] = panics] /\ UNCHANGED <<id, regions>>
    BY <1>3 DEF SplitApply
  <2>2. DOMAIN panics = ClientFields /\ panics.cmd = m.cmd /\ panics.key = m.key
        /\ panics.pc = "panic" /\ panics.err = m.err
    BY <1>1 DEF ClientFields
  <2> HIDE DEF panics
  <2>3. ClientTyped(c, panics)
    BY <1>1, <2>2 DEF ClientTyped
  <2> QED  BY <1>1, <2>1, <2>3, ClientMoves, SameRegions
<1> QED  BY <1>2, <1>3

\* SplitTable, SplitIndex and SplitKeys are for ranges that hold data: of an empty
\* one createNewRegions makes no region.
SplitRangesHoldData == \A a \in SplitRanges : {k \in Data : a[1] <= k /\ k < a[2]} # {}

LEMMA RegionsStep ==
    ASSUME SplitRangesHoldData, RegionsInv, [RegionsNext]_regionsVars
    PROVE  RegionsInv' /\ Onward
<1>1. CASE ClusterStep
  BY <1>1, ClusterKeeps DEF SplitRangesHoldData
<1>2. ASSUME NEW c \in Client, ClientStep(c)
      PROVE  RegionsInv' /\ Onward
  BY <1>2, RequestStepsKeep, SplitApplyKeeps DEF ClientStep
<1>3. CASE UNCHANGED regionsVars
  BY <1>3, SameMarks, SameRegions DEF regionsVars, RegionsInv
<1> QED  BY <1>1, <1>2, <1>3 DEF RegionsNext

\* Cluster.GetRegionByKey and ScanRegions: at all times each key lies in exactly
\* one region and the regions from a key on follow each other without a gap (if
\* none is empty), through splits, merges, changes of peers and leaders and
\* SplitKeys, whatever requests are under way, unless a SplitRegion request was
\* applied to a region that had lost its key since the lookup.
THEOREM RegionsPartitionHolds ==
    ASSUME SplitRangesHoldData
    PROVE  RegionsSpec => []RegionsPartition
<1>1. RegionsInv /\ [RegionsNext]_regionsVars => RegionsInv'
  BY RegionsStep
<1> QED  BY RegionsInitInv, <1>1, InvPartition, PTL DEF RegionsSpec

-----------------------------------------------------------------------------
(* Lists in order and the pages of a scan. *)

\* A sequence that lists S in order is the one Ordered makes.
Lists(q, S, before) ==
    /\ q \in Seq(S)
    /\ \A x \in S : \E n \in 1 .. Len(q) : q[n] = x
    /\ \A m, n \in 1 .. Len(q) : m < n => <<q[m], q[n]>> \in before

LEMMA OrderedLists ==
    ASSUME NEW S, IsFiniteSet(S), NEW before, TotalOn(before, S)
    PROVE  Lists(Ordered(S, before), S, before)
<1> DEFINE q == Ordered(S, before)
           N == Cardinality(S)
<1>1. /\ q \in [1 .. N -> S]
      /\ \A x \in S : \E n \in 1 .. N : q[n] = x
      /\ \A m, n \in 1 .. N : m < n => <<q[m], q[n]>> \in before
  BY OrderedSorts
<1>2. N \in Nat
  BY FS_CardinalityType
<1> HIDE DEF q, N
<1>3. q \in Seq(S) /\ Len(q) = N
  BY <1>1, <1>2
<1> QED  BY <1>1, <1>3 DEF Lists, q

LEMMA ListsUnique ==
    ASSUME NEW S, IsFiniteSet(S), NEW before, TotalOn(before, S),
           NEW q, Lists(q, S, before)
    PROVE  q = Ordered(S, before)
<1> DEFINE N == Len(q)
           lower(x) == {y \in S : <<y, x>> \in before}
<1>1. /\ q \in Seq(S) /\ N \in Nat /\ DOMAIN q = 1 .. N
      /\ \A n \in 1 .. N : q[n] \in S
  BY DEF Lists
<1>2. \A x \in S : \E n \in 1 .. N : q[n] = x
  BY DEF Lists
<1>3. \A m, n \in 1 .. N : m < n => <<q[m], q[n]>> \in before
  BY DEF Lists
<1>4. \A m, n \in 1 .. N : q[m] = q[n] => m = n
  <2> SUFFICES ASSUME NEW m \in 1 .. N, NEW n \in 1 .. N, m < n
               PROVE  q[m] # q[n]
    BY <1>1
  <2> QED  BY <1>1, <1>3 DEF TotalOn
<1>5. \A m, n \in 1 .. N : <<q[m], q[n]>> \in before => m < n
  <2> SUFFICES ASSUME NEW m \in 1 .. N, NEW n \in 1 .. N, ~(m < n)
               PROVE  <<q[m], q[n]>> \notin before
    OBVIOUS
  <2>1. m = n \/ n < m
    BY <1>1
  <2>2. q[m] \in S /\ q[n] \in S
    BY <1>1
  <2> QED  BY <2>1, <2>2, <1>3 DEF TotalOn
<1> HIDE DEF N
<1>6. ASSUME NEW n \in 1 .. N
      PROVE  IsFiniteSet(lower(q[n])) /\ Cardinality(lower(q[n])) = n - 1
  <2> DEFINE f == [m \in 1 .. n - 1 |-> q[m]]
  <2>1. n - 1 \in Nat /\ \A m \in 1 .. n - 1 : m \in 1 .. N /\ m < n
    BY <1>1
  <2>2. \A m \in 1 .. n - 1 : q[m] \in lower(q[n])
    BY <2>1, <1>1, <1>3
  <2>3. \A x \in lower(q[n]) : \E m \in 1 .. n - 1 : q[m] = x
    <3> SUFFICES ASSUME NEW x \in lower(q[n])
                 PROVE  \E m \in 1 .. n - 1 : q[m] = x
      OBVIOUS
    <3>1. PICK m \in 1 .. N : q[m] = x
      BY <1>2
    <3>2. m < n
      BY <3>1, <1>5
    <3> QED  BY <3>1, <3>2, <1>1
  <2> HIDE DEF lower
  <2>4. f \in Bijection(1 .. n - 1, lower(q[n]))
    <3>1. f \in [1 .. n - 1 -> lower(q[n])]
      BY <2>2
    <3>2. \A a, b \in 1 .. n - 1 : f[a] = f[b] => a = b
      BY <2>1, <1>4
    <3>3. \A x \in lower(q[n]) : \E m \in 1 .. n - 1 : f[m] = x
      BY <2>3
    <3> HIDE DEF f
    <3> QED  BY <3>1, <3>2, <3>3 DEF Bijection, Injection, Surjection, IsInjective
  <2>5. IsFiniteSet(1 .. n - 1) /\ Cardinality(1 .. n - 1) = n - 1
    BY <2>1, FS_Interval
  <2> QED  BY <2>4, <2>5, FS_Bijection DEF ExistsBijection
<1>7. Cardinality(S) = N
  <2>1. q \in Bijection(1 .. N, S)
    <3>1. q \in [1 .. N -> S]
      BY <1>1
    <3> QED  BY <3>1, <1>2, <1>4 DEF Bijection, Injection, Surjection, IsInjective
  <2>2. IsFiniteSet(1 .. N) /\ Cardinality(1 .. N) = N
    BY <1>1, FS_Interval
  <2> QED  BY <2>1, <2>2, FS_Bijection DEF ExistsBijection
<1>8. ASSUME NEW n \in 1 .. N
      PROVE  Ordered(S, before)[n] = q[n]
  <2>1. Ordered(S, before)[n] = CHOOSE x \in S : Cardinality(lower(x)) = n - 1
    BY <1>7 DEF Ordered
  <2>2. q[n] \in S /\ Cardinality(lower(q[n])) = n - 1
    BY <1>1, <1>6
  <2>3. \A x \in S : Cardinality(lower(x)) = n - 1 => x = q[n]
    <3> SUFFICES ASSUME NEW x \in S, Cardinality(lower(x)) = n - 1
                 PROVE  x = q[n]
      OBVIOUS
    <3>1. PICK m \in 1 .. N : q[m] = x
      BY <1>2
    <3>2. m - 1 = n - 1
      <4> HIDE DEF lower
      <4> QED  BY <3>1, <1>6
    <3> QED  BY <3>1, <3>2, <1>1
  <2> HIDE DEF lower
  <2> QED  BY <2>1, <2>2, <2>3
<1>9. Ordered(S, before) = [n \in 1 .. N |-> Ordered(S, before)[n]]
  <2>1. Ordered(S, before) \in [1 .. N -> S]
    BY <1>7, OrderedSorts
  <2> QED  BY <2>1
<1>10. q = [n \in 1 .. N |-> q[n]]
  BY <1>1
<1> QED  BY <1>8, <1>9, <1>10

\* The elements of A come before those of B.
LEMMA OrderedJoin ==
    ASSUME NEW A, NEW B, IsFiniteSet(A), IsFiniteSet(B), NEW before,
           TotalOn(before, A \cup B), \A x \in A, y \in B : <<x, y>> \in before
    PROVE  Ordered(A, before) \o Ordered(B, before) = Ordered(A \cup B, before)
<1> DEFINE p == Ordered(A, before)
           q == Ordered(B, before)
           S == A \cup B
<1>1. IsFiniteSet(S) /\ TotalOn(before, A) /\ TotalOn(before, B)
  <2>1. IsFiniteSet(S)
    BY FS_Union
  <2> QED  BY <2>1 DEF TotalOn
<1>2. Lists(p, A, before) /\ Lists(q, B, before)
  BY <1>1, OrderedLists
<1> HIDE DEF p, q
<1>3. /\ p \in Seq(A) /\ q \in Seq(B) /\ Len(p) \in Nat /\ Len(q) \in Nat
      /\ \A n \in 1 .. Len(p) : p[n] \in A
      /\ \A n \in 1 .. Len(q) : q[n] \in B
  BY <1>2 DEF Lists
<1>4. /\ p \o q \in Seq(S) /\ Len(p \o q) = Len(p) + Len(q)
      /\ \A n \in 1 .. Len(p) : (p \o q)[n] = p[n]
      /\ \A n \in 1 .. Len(q) : (p \o q)[Len(p) + n] = q[n]
  <2>1. p \in Seq(S) /\ q \in Seq(S)
    BY <1>3
  <2> HIDE DEF S
  <2>2. p \o q \in Seq(S)
    BY <2>1
  <2>3. Len(p \o q) = Len(p) + Len(q)
    BY <2>1
  <2>4. \A n \in 1 .. Len(p) : (p \o q)[n] = p[n]
    BY <2>1, <1>3
  <2>5. \A n \in 1 .. Len(q) : (p \o q)[Len(p) + n] = q[n]
    BY <2>1, <1>3
  <2> QED  BY <2>2, <2>3, <2>4, <2>5
<1>5. \A n \in 1 .. Len(p \o q) :
        \/ n \in 1 .. Len(p)
        \/ n - Len(p) \in 1 .. Len(q) /\ n = Len(p) + (n - Len(p))
  BY <1>3, <1>4
<1> DEFINE j == p \o q
<1>6. \A x \in S : \E n \in 1 .. Len(j) : j[n] = x
  <2> SUFFICES ASSUME NEW x \in S
               PROVE  \E n \in 1 .. Len(j) : j[n] = x
    OBVIOUS
  <2>1. CASE x \in A
    <3>1. PICK n \in 1 .. Len(p) : p[n] = x
      BY <2>1, <1>2 DEF Lists
    <3> QED  BY <3>1, <1>3, <1>4
  <2>2. CASE x \in B
    <3>1. PICK n \in 1 .. Len(q) : q[n] = x
      BY <2>2, <1>2 DEF Lists
    <3>2. Len(p) + n \in 1 .. Len(j)
      BY <1>3, <1>4
    <3> QED  BY <3>1, <3>2, <1>4
  <2> QED  BY <2>1, <2>2
<1>7. ASSUME NEW m \in 1 .. Len(j), NEW n \in 1 .. Len(j), m < n
      PROVE  <<j[m], j[n]>> \in before
  <2>1. m \in Int /\ n \in Int
    OBVIOUS
  <2>2. CASE n \in 1 .. Len(p)
    <3>1. m \in 1 .. Len(p)
      BY <1>7, <2>1, <2>2, <1>3
    <3> QED  BY <3>1, <2>2, <1>2, <1>4, <1>7 DEF Lists
  <2>3. CASE n - Len(p) \in 1 .. Len(q) /\ n = Len(p) + (n - Len(p)) /\ m \in 1 .. Len(p)
    <3>1. j[n] = q[n - Len(p)] /\ j[m] = p[m]
      BY <2>3, <1>4
    <3> QED  BY <3>1, <2>3, <1>3
  <2>4. CASE /\ n - Len(p) \in 1 .. Len(q) /\ n = Len(p) + (n - Len(p))
             /\ m - Len(p) \in 1 .. Len(q) /\ m = Len(p) + (m - Len(p))
    <3>1. j[n] = q[n - Len(p)] /\ j[m] = q[m - Len(p)]
      BY <2>4, <1>4
    <3>2. m - Len(p) < n - Len(p)
      BY <1>7, <2>1, <1>3
    <3> QED  BY <3>1, <3>2, <2>4, <1>2 DEF Lists
  <2> QED  BY <1>5, <2>2, <2>3, <2>4
<1>8. Lists(j, S, before)
  BY <1>4, <1>6, <1>7 DEF Lists
<1> HIDE DEF S, j
<1>9. j = Ordered(S, before)
  <2>1. TotalOn(before, S)
    BY DEF S
  <2> QED  BY <2>1, <1>1, <1>8, ListsUnique
<1> QED  BY <1>9 DEF p, q, S, j

\* The first n elements are those up to the n-th.
LEMMA OrderedFirst ==
    ASSUME NEW S, IsFiniteSet(S), NEW before, TotalOn(before, S),
           NEW n \in 1 .. Cardinality(S)
    PROVE  LET q == Ordered(S, before) IN
           /\ q[n] \in S
           /\ SubSeq(q, 1, n) = Ordered({x \in S : x = q[n] \/ <<x, q[n]>> \in before}, before)
<1> DEFINE q == Ordered(S, before)
           N == Cardinality(S)
           T == {x \in S : x = q[n] \/ <<x, q[n]>> \in before}
           r == SubSeq(q, 1, n)
<1>1. /\ q \in [1 .. N -> S]
      /\ \A x \in S : \E m \in 1 .. N : q[m] = x
      /\ \A l, m \in 1 .. N : l < m => <<q[l], q[m]>> \in before
  BY OrderedSorts
<1>2. N \in Nat
  BY FS_CardinalityType
<1> HIDE DEF q, N
<1>3. q \in Seq(S) /\ Len(q) = N /\ n \in 1 .. N /\ q[n] \in S
  BY <1>1, <1>2 DEF N
<1>4. /\ r \in Seq(S) /\ Len(r) = n
      /\ \A m \in 1 .. n : r[m] = q[m] /\ m \in 1 .. N
  <2>1. r = [m \in 1 .. n |-> q[m]]
    BY <1>2, <1>3
  <2>2. \A m \in 1 .. n : m \in 1 .. N /\ q[m] \in S
    BY <1>1, <1>2, <1>3
  <2> HIDE DEF r
  <2> QED  BY <2>1, <2>2, <1>3
<1> HIDE DEF r
<1>5. \A m \in 1 .. n : r[m] \in T
  <2> SUFFICES ASSUME NEW m \in 1 .. n
               PROVE  r[m] \in T
    OBVIOUS
  <2>1. m = n \/ m < n
    BY <1>3
  <2> QED  BY <2>1, <1>1, <1>3, <1>4
<1>6. \A x \in T : \E m \in 1 .. n : r[m] = x
  <2> SUFFICES ASSUME NEW x \in T
               PROVE  \E m \in 1 .. n : r[m] = x
    OBVIOUS
  <2>1. PICK m \in 1 .. N : q[m] = x
    BY <1>1
  <2>2. ~(n < m)
    <3>1. n < m => <<q[n], x>> \in before
      BY <2>1, <1>1, <1>3
    <3> QED  BY <3>1, <1>3 DEF TotalOn
  <2>3. m \in 1 .. n
    BY <2>2, <1>2, <1>3
  <2> QED  BY <2>1, <2>3, <1>4
<1>7. r \in Seq(T)
  <2>1. r = [m \in 1 .. n |-> r[m]]
    BY <1>3, <1>4
  <2> HIDE DEF T
  <2> QED  BY <2>1, <1>3, <1>5
<1>8. \A l, m \in 1 .. n : l < m => <<r[l], r[m]>> \in before
  BY <1>1, <1>4
<1>9. IsFiniteSet(T) /\ TotalOn(before, T)
  BY FS_Subset DEF TotalOn
<1> HIDE DEF T
<1>10. r = Ordered(T, before)
  <2>1. Lists(r, T, before)
    BY <1>4, <1>6, <1>7, <1>8 DEF Lists
  <2> QED  BY <2>1, <1>9, ListsUnique
<1> QED  BY <1>3, <1>10 DEF r, T, q


LEMMA MinOf ==
    ASSUME NEW S \in SUBSET Int, S # {}, NEW b \in S, \A x \in S : b <= x
    PROVE  Min(S) = b
<1>1. Min(S) \in S /\ \A x \in S : Min(S) <= x
  BY DEF Min
<1>2. Min(S) \in Int /\ b \in Int /\ Min(S) <= b /\ b <= Min(S)
  BY <1>1
<1> HIDE DEF Min
<1> QED  BY <1>2

LEMMA MaxOf ==
    ASSUME NEW S \in SUBSET Int, S # {}, NEW b \in S, \A x \in S : x <= b
    PROVE  Max(S) = b
<1>1. Max(S) \in S /\ \A x \in S : x <= Max(S)
  BY DEF Max
<1>2. Max(S) \in Int /\ b \in Int /\ Max(S) <= b /\ b <= Max(S)
  BY <1>1
<1> QED  BY <1>2

UpTo(S, before, z) == {x \in S : x = z \/ <<x, z>> \in before}

\* A page of a scan of S: all pairs, or the first ones up to one of them.
IsPage(got, S, before) ==
    /\ Len(got) < Limit => got = Ordered(S, before)
    /\ ~(Len(got) < Limit) =>
         Last(got) \in S /\ got = Ordered(UpTo(S, before, Last(got)), before)

LEMMA FirstOnesAre ==
    ASSUME NEW S, IsFiniteSet(S), NEW before, TotalOn(before, S)
    PROVE  IsPage(FirstOnes(Ordered(S, before)), S, before)
<1> DEFINE q == Ordered(S, before)
           n == Min({Limit, Len(q)})
           got == FirstOnes(q)
<1>1. q \in Seq(S) /\ Len(q) = Cardinality(S) /\ Len(q) \in Nat
  <2>1. q \in [1 .. Cardinality(S) -> S] /\ Cardinality(S) \in Nat
    BY OrderedSorts, FS_CardinalityType
  <2> HIDE DEF q
  <2> QED  BY <2>1
<1>2. Limit \in Nat \ {0}
  BY RegionsAssumption
<1>3. got = SubSeq(q, 1, n)
  BY DEF FirstOnes
<1> HIDE DEF q, got
<1>4. CASE Len(q) < Limit
  <2>1. n = Len(q)
    BY <1>1, <1>2, <1>4, MinOf
  <2>2. got = q
    BY <1>1, <1>3, <2>1
  <2> QED  BY <1>4, <2>2 DEF q, got, IsPage
<1>5. CASE ~(Len(q) < Limit)
  <2>0. n = Limit
    <3> DEFINE T == {Limit, Len(q)}
    <3>1. T \in SUBSET Int /\ T # {} /\ Limit \in T /\ \A x \in T : Limit <= x
      BY <1>1, <1>2, <1>5
    <3> HIDE DEF T
    <3>2. Min(T) = Limit
      BY <3>1, MinOf
    <3> QED  BY <3>2 DEF T
  <2>1. n = Limit /\ n \in 1 .. Cardinality(S)
    BY <2>0, <1>1, <1>2, <1>5
  <2> HIDE DEF n
  <2>2. got \in Seq(S) /\ Len(got) = n /\ got[n] = q[n]
    <3>1. got = [m \in 1 .. n |-> q[m]]
      BY <1>1, <1>3, <2>1
    <3>2. \A m \in 1 .. n : q[m] \in S
      BY <1>1, <2>1
    <3> QED  BY <3>1, <3>2, <2>1
  <2>3. Last(got) = q[n]
    BY <2>2 DEF Last
  <2>4. q[n] \in S /\ got = Ordered(UpTo(S, before, q[n]), before)
    BY <1>3, <2>1, OrderedFirst DEF q, UpTo
  <2>5. ~(Len(got) < Limit)
    BY <2>1, <2>2, <1>2
  <2>6. IsPage(got, S, before)
    BY <2>3, <2>4, <2>5 DEF IsPage
  <2> QED  BY <2>6 DEF got, q
<1> QED  BY <1>4, <1>5

Upward == {p \in Key \X Key : p[1] < p[2]}
Downward == {p \in Key \X Key : p[1] > p[2]}

LEMMA KeyOrders ==
    ASSUME NEW S \in SUBSET Key
    PROVE  /\ IsFiniteSet(S) /\ TotalOn(Upward, S) /\ TotalOn(Downward, S)
           /\ \A x, y \in S : <<x, y>> \in Upward <=> x < y
           /\ \A x, y \in S : <<x, y>> \in Downward <=> x > y
<1>1. \A x \in S : x \in Key /\ x \in Nat
  BY KeysAreNat
<1>2. IsFiniteSet(S)
  <2>1. IsFiniteSet(Key)
    BY KeysAreNat, FS_Interval DEF Key
  <2> QED  BY <2>1, FS_Subset
<1>3. \A x, y \in S : <<x, y>> \in Upward <=> x < y
  BY <1>1 DEF Upward
<1>4. \A x, y \in S : <<x, y>> \in Downward <=> x > y
  BY <1>1 DEF Downward
<1>5. TotalOn(Upward, S)
  BY <1>1, <1>3 DEF TotalOn
<1>6. TotalOn(Downward, S)
  BY <1>1, <1>4 DEF TotalOn
<1> QED  BY <1>2, <1>3, <1>4, <1>5, <1>6

\* The answer r so far and the next page make the answer after it.
Extends(p, page, r) == p \o page = r

Below(k) == {x \in Data : x < k}
AtLeast(k) == {x \in Data : k <= x}
Between(s, e) == {x \in Data : s <= x /\ x < e}

\* What comes after the keys below s.
LEMMA UpwardJoins ==
    ASSUME NEW s \in Nat, NEW e \in Nat, s <= e
    PROVE  Extends(Ascending(Below(s)), Ascending(Between(s, e)), Ascending(Below(e)))
<1>1. \A x \in Data : x \in Key /\ x \in Nat
  BY KeysAreNat
<1>2. Below(s) \cup Between(s, e) = Below(e) /\ Below(e) \in SUBSET Key
  BY <1>1 DEF Below, Between
<1>3. Below(s) \in SUBSET Key /\ Between(s, e) \in SUBSET Key
  BY <1>1 DEF Below, Between
<1>4. \A x \in Below(s), y \in Between(s, e) : <<x, y>> \in Upward
  BY <1>1 DEF Below, Between, Upward
<1>5. IsFiniteSet(Below(s)) /\ IsFiniteSet(Between(s, e)) /\ TotalOn(Upward, Below(s) \cup Between(s, e))
  BY <1>2, <1>3, KeyOrders
<1> HIDE DEF Upward
<1>6. Ordered(Below(s), Upward) \o Ordered(Between(s, e), Upward) = Ordered(Below(s) \cup Between(s, e), Upward)
  BY <1>4, <1>5, OrderedJoin
<1> QED  BY <1>2, <1>6 DEF Ascending, Upward, Extends

LEMMA DownwardJoins ==
    ASSUME NEW s \in Nat, NEW e \in Nat, s <= e
    PROVE  Extends(Descending(AtLeast(e)), Descending(Between(s, e)), Descending(AtLeast(s)))
<1>1. \A x \in Data : x \in Key /\ x \in Nat
  BY KeysAreNat
<1>2. AtLeast(e) \cup Between(s, e) = AtLeast(s) /\ AtLeast(s) \in SUBSET Key
  BY <1>1 DEF AtLeast, Between
<1>3. AtLeast(e) \in SUBSET Key /\ Between(s, e) \in SUBSET Key
  BY <1>1 DEF AtLeast, Between
<1>4. \A x \in AtLeast(e), y \in Between(s, e) : <<x, y>> \in Downward
  BY <1>1 DEF AtLeast, Between, Downward
<1>5. IsFiniteSet(AtLeast(e)) /\ IsFiniteSet(Between(s, e)) /\ TotalOn(Downward, AtLeast(e) \cup Between(s, e))
  BY <1>2, <1>3, KeyOrders
<1> HIDE DEF Downward
<1>6. Ordered(AtLeast(e), Downward) \o Ordered(Between(s, e), Downward) = Ordered(AtLeast(e) \cup Between(s, e), Downward)
  BY <1>4, <1>5, OrderedJoin
<1> QED  BY <1>2, <1>6 DEF Descending, Downward, Extends

\* One page of MVCCStore.Scan, from s up; the client goes on at "next".
LEMMA PageUp ==
    ASSUME NEW s \in Nat, NEW e \in Nat, s < e
    PROVE  LET got == Scan(s, e)
               next == IF Len(got) < Limit THEN e ELSE Last(got) + 1 IN
           /\ next \in Nat /\ s < next /\ next <= e
           /\ Extends(Ascending(Below(s)), got, Ascending(Below(next)))
<1> DEFINE got == Scan(s, e)
           next == IF Len(got) < Limit THEN e ELSE Last(got) + 1
<1>1. Between(s, e) \in SUBSET Key /\ \A x \in Between(s, e) : x \in Nat /\ s <= x /\ x < e
  BY KeysAreNat DEF Between
<1>2. got = FirstOnes(Ordered(Between(s, e), Upward))
  BY DEF Scan, Ascending, Between, Upward
<1>3. IsPage(got, Between(s, e), Upward)
  <2>1. IsFiniteSet(Between(s, e)) /\ TotalOn(Upward, Between(s, e))
    BY <1>1, KeyOrders
  <2> HIDE DEF got
  <2> QED  BY <2>1, <1>2, FirstOnesAre
<1> HIDE DEF got
<1>4. CASE Len(got) < Limit
  <2>1. got = Ascending(Between(s, e))
    BY <1>3, <1>4 DEF IsPage, Ascending, Upward
  <2> QED  BY <2>1, <1>4, UpwardJoins DEF got
<1>5. CASE ~(Len(got) < Limit)
  <2>1. Last(got) \in Between(s, e) /\ Last(got) \in Nat /\ s <= Last(got) /\ Last(got) < e
    BY <1>1, <1>3, <1>5 DEF IsPage
  <2>2. UpTo(Between(s, e), Upward, Last(got)) = Between(s, Last(got) + 1)
    <3>1. \A x \in Between(s, e) : <<x, Last(got)>> \in Upward <=> x < Last(got)
      BY <1>1, <2>1, KeyOrders
    <3>2. \A x \in Data : x \in Nat
      BY KeysAreNat
    <3> QED  BY <3>1, <3>2, <2>1 DEF Between, UpTo
  <2>3. got = Ascending(Between(s, Last(got) + 1))
    BY <1>3, <1>5, <2>2 DEF IsPage, Ascending, Upward
  <2>4. Extends(Ascending(Below(s)), Ascending(Between(s, Last(got) + 1)), Ascending(Below(Last(got) + 1)))
    BY <2>1, UpwardJoins
  <2> QED  BY <1>5, <2>1, <2>3, <2>4 DEF got
<1> QED  BY <1>4, <1>5

\* The same downwards to s.
LEMMA PageDown ==
    ASSUME NEW s \in Nat, NEW e \in Nat, s < e
    PROVE  LET got == ReverseScan(s, e)
               next == IF Len(got) < Limit THEN s ELSE Last(got) IN
           /\ next \in Nat /\ s <= next /\ next < e
           /\ Extends(Descending(AtLeast(e)), got, Descending(AtLeast(next)))
<1> DEFINE got == ReverseScan(s, e)
           next == IF Len(got) < Limit THEN s ELSE Last(got)
<1>1. Between(s, e) \in SUBSET Key /\ \A x \in Between(s, e) : x \in Nat /\ s <= x /\ x < e
  BY KeysAreNat DEF Between
<1>2. got = FirstOnes(Ordered(Between(s, e), Downward))
  BY DEF ReverseScan, Descending, Between, Downward
<1>3. IsPage(got, Between(s, e), Downward)
  <2>1. IsFiniteSet(Between(s, e)) /\ TotalOn(Downward, Between(s, e))
    BY <1>1, KeyOrders
  <2> HIDE DEF got
  <2> QED  BY <2>1, <1>2, FirstOnesAre
<1> HIDE DEF got
<1>4. CASE Len(got) < Limit
  <2>1. got = Descending(Between(s, e))
    BY <1>3, <1>4 DEF IsPage, Descending, Downward
  <2> QED  BY <2>1, <1>4, DownwardJoins DEF got
<1>5. CASE ~(Len(got) < Limit)
  <2>1. Last(got) \in Between(s, e) /\ Last(got) \in Nat /\ s <= Last(got) /\ Last(got) < e
    BY <1>1, <1>3, <1>5 DEF IsPage
  <2>2. UpTo(Between(s, e), Downward, Last(got)) = Between(Last(got), e)
    <3>1. \A x \in Between(s, e) : <<x, Last(got)>> \in Downward <=> x > Last(got)
      BY <1>1, <2>1, KeyOrders
    <3>2. \A x \in Data : x \in Nat
      BY KeysAreNat
    <3> QED  BY <3>1, <3>2, <2>1 DEF Between, UpTo
  <2>3. got = Descending(Between(Last(got), e))
    BY <1>3, <1>5, <2>2 DEF IsPage, Descending, Downward
  <2>4. Extends(Descending(AtLeast(e)), Descending(Between(Last(got), e)), Descending(AtLeast(Last(got))))
    BY <2>1, DownwardJoins
  <2> QED  BY <1>5, <2>1, <2>3, <2>4 DEF got
<1> QED  BY <1>4, <1>5

\* A part of the answer from the front is a prefix of all of it.
LEMMA PrefixUp ==
    ASSUME NEW k \in Nat
    PROVE  IsPrefix(Ascending(Below(k)), Ascending(Data)) /\ (k = NoEnd => Below(k) = Data)
<1> DEFINE n == IF k <= NoEnd THEN NoEnd ELSE k
           p == Ascending(Below(k))
           q == Ascending(Between(k, n))
<1>1. \A x \in Data : x \in Nat /\ x < NoEnd
  BY KeysAreNat DEF NoEnd
<1>2. n \in Nat /\ k <= n /\ NoEnd <= n /\ NoEnd \in Nat
  BY KeysAreNat DEF NoEnd
<1> HIDE DEF n
<1>3. Below(n) = Data /\ Below(NoEnd) = Data
  BY <1>1, <1>2 DEF Below
<1>4. Extends(p, q, Ascending(Data))
  BY <1>2, <1>3, UpwardJoins
<1>5. p \in Seq(Key) /\ q \in Seq(Key)
  <2>1. Below(k) \in SUBSET Key /\ Between(k, n) \in SUBSET Key
    BY KeysAreNat DEF Below, Between
  <2>2. Lists(Ordered(Below(k), Upward), Below(k), Upward)
    BY <2>1, KeyOrders, OrderedLists
  <2>3. Lists(Ordered(Between(k, n), Upward), Between(k, n), Upward)
    BY <2>1, KeyOrders, OrderedLists
  <2>4. p \in Seq(Below(k)) /\ q \in Seq(Between(k, n))
    BY <2>2, <2>3 DEF Lists, Ascending, Upward
  <2> HIDE DEF p, q
  <2> QED  BY <2>1, <2>4
<1> HIDE DEF p, q
<1>6. IsPrefix(p, p \o q)
  BY <1>5 DEF IsPrefix
<1> QED  BY <1>3, <1>4, <1>6 DEF p, Extends

LEMMA PrefixDown ==
    ASSUME NEW k \in Nat
    PROVE  IsPrefix(Descending(AtLeast(k)), Descending(Data)) /\ (k = 1 => AtLeast(k) = Data)
<1> DEFINE p == Descending(AtLeast(k))
           q == Descending(Between(0, k))
<1>1. \A x \in Data : x \in Nat /\ 1 <= x
  BY KeysAreNat
<1>2. AtLeast(0) = Data /\ AtLeast(1) = Data
  BY <1>1 DEF AtLeast
<1>4. Extends(p, q, Descending(Data))
  <2>1. 0 \in Nat /\ 0 <= k
    OBVIOUS
  <2> QED  BY <2>1, <1>2, DownwardJoins
<1>5. p \in Seq(Key) /\ q \in Seq(Key)
  <2>1. AtLeast(k) \in SUBSET Key /\ Between(0, k) \in SUBSET Key
    BY KeysAreNat DEF AtLeast, Between
  <2>2. Lists(Ordered(AtLeast(k), Downward), AtLeast(k), Downward)
    BY <2>1, KeyOrders, OrderedLists
  <2>3. Lists(Ordered(Between(0, k), Downward), Between(0, k), Downward)
    BY <2>1, KeyOrders, OrderedLists
  <2>4. p \in Seq(AtLeast(k)) /\ q \in Seq(Between(0, k))
    BY <2>2, <2>3 DEF Lists, Descending, Downward
  <2> HIDE DEF p, q
  <2> QED  BY <2>1, <2>4
<1> HIDE DEF p, q
<1>6. IsPrefix(p, p \o q)
  BY <1>5 DEF IsPrefix
<1> QED  BY <1>2, <1>4, <1>6 DEF p, Extends

-----------------------------------------------------------------------------
(* The inductive invariant of the scans. *)

\* What a client has cached is what its region is or has been, in an older version.
CacheOK(m) ==
    /\ m.region \in 1 .. id /\ RegionTyped(m.meta)
    /\ m.region \in DOMAIN regions => SameOrNewer(m.meta, regions[m.region])

\* ... and holds the next key.  GetPrevRegionByKey may return an empty region.
CacheFits(m) ==
    \/ Serves(m.meta, m)
    \/ m.cmd = "ReverseScan" /\ m.meta.end = m.to /\ m.to <= m.meta.start /\ Emptied

\* How far a scan has come.
ScanProgress(m) ==
    /\ m.key \in 1 .. NoEnd /\ m.to \in 1 .. NoEnd
    /\ IF m.cmd = "ReverseScan" THEN m.key = 1 /\ m.out = Descending(AtLeast(m.to))
       ELSE m.to = NoEnd /\ m.out = Ascending(Below(m.key))
    /\ IF m.pc = "done" THEN m.key = m.to ELSE m.key < m.to

ScannerOK(m) ==
    \/ m.cmd = "none" /\ m.pc = "idle" /\ m.out = <<>>
    \/ /\ m.cmd \in {"Scan", "ReverseScan", "INTERLOCK"}
       /\ m.pc \in {"locate", "send", "run", "done", "panic"}
       /\ ScanProgress(m)
       /\ m.pc \in {"send", "run"} => CacheOK(m) /\ CacheFits(m)
       /\ m.pc = "run" => m.start = m.meta.start /\ m.end = m.meta.end
       /\ m.pc = "panic" => m.cmd = "ReverseScan" /\ Emptied

ScansInv == RegionsInv /\ \A c \in Scanner : ScannerOK(cli[c])

LEMMA NoneOrdered ==
    ASSUME NEW before
    PROVE  Ordered({}, before) = << >>
<1>1. Cardinality({}) = 0
  BY FS_EmptySet
<1>2. DOMAIN Ordered({}, before) = {}
  BY <1>1 DEF Ordered
<1>3. TotalOn(before, {}) /\ IsFiniteSet({})
  BY FS_EmptySet DEF TotalOn
<1>4. Ordered({}, before) \in [1 .. 0 -> {}]
  BY <1>1, <1>3, OrderedSorts
<1> QED  BY <1>4

LEMMA InvScans == ScansInv => ScanExact
<1> SUFFICES ASSUME ScansInv, NEW c \in Scanner
             PROVE  LET m == cli[c]
                        all == IF m.cmd = "ReverseScan" THEN Descending(Data) ELSE Ascending(Data)
                    IN /\ IsPrefix(m.out, all) /\ (m.pc = "done" => m.out = all)
                       /\ m.pc = "panic" => m.cmd = "ReverseScan" /\ (StaleSplit \/ RepeatedSplit)
  BY DEF ScanExact
<1> DEFINE m == cli[c]
<1>1. ScannerOK(m)
  BY DEF ScansInv
<1>2. NoEnd \in Nat /\ 1 < NoEnd
  BY KeysAreNat DEF NoEnd
<1> HIDE DEF m
<1>3. CASE m.cmd = "none" /\ m.pc = "idle" /\ m.out = <<>>
  <2>1. IsPrefix(Ascending(Below(0)), Ascending(Data)) /\ Below(0) = {}
    <3>1. Below(0) = {}
      BY KeysAreNat DEF Below
    <3> QED  BY <3>1, PrefixUp
  <2>2. Ascending(Below(0)) = << >>
    BY <2>1, NoneOrdered DEF Ascending
  <2> QED  BY <1>3, <2>1, <2>2 DEF m
<1>4. CASE /\ m.cmd \in {"Scan", "INTERLOCK"} /\ ScanProgress(m)
           /\ m.pc # "panic"
  <2>1. m.out = Ascending(Below(m.key)) /\ m.key \in Nat /\ (m.pc = "done" => m.key = NoEnd)
    BY <1>2, <1>4 DEF ScanProgress
  <2>2. IsPrefix(m.out, Ascending(Data)) /\ (m.pc = "done" => m.out = Ascending(Data))
    BY <2>1, PrefixUp
  <2> QED  BY <1>4, <2>2 DEF m
<1>5. CASE /\ m.cmd = "ReverseScan" /\ ScanProgress(m)
           /\ m.pc = "panic" => Emptied
  <2>1. m.out = Descending(AtLeast(m.to)) /\ m.to \in Nat /\ (m.pc = "done" => m.to = 1)
    BY <1>2, <1>5 DEF ScanProgress
  <2>2. IsPrefix(m.out, Descending(Data)) /\ (m.pc = "done" => m.out = Descending(Data))
    BY <2>1, PrefixDown
  <2> QED  BY <1>5, <2>2 DEF m, Emptied
<1> QED  BY <1>1, <1>3, <1>4, <1>5 DEF ScannerOK

\* A scanner without a request, or with one that has not begun.
LEMMA ScansInitInv == RegionsInit => ScansInv
<1> SUFFICES ASSUME RegionsInit, NEW c \in Scanner
             PROVE  ScannerOK(cli[c])
  BY RegionsInitInv DEF ScansInv
<1>1. PICK on \in Together : \E f \in [on -> Requests] :
         /\ \A d \in on : f[d] \in RequestsOf(d)
         /\ cli = [d \in Client |-> IF d \in on THEN [f[d] EXCEPT !.pc = "locate"]
                                   ELSE Request("none", 0, 0)]
  BY DEF RegionsInit
<1>2. PICK f \in [on -> Requests] :
         /\ \A d \in on : f[d] \in RequestsOf(d)
         /\ cli = [d \in Client |-> IF d \in on THEN [f[d] EXCEPT !.pc = "locate"]
                                   ELSE Request("none", 0, 0)]
  BY <1>1
<1>3. c \in Client
  BY DEF Client
<1>4. CASE c \in on
  <2>1. PICK cmd \in {"Scan", "ReverseScan", "INTERLOCK"} : f[c] = Request(cmd, 1, NoEnd)
    BY <1>2, <1>4 DEF RequestsOf
  <2> DEFINE m == [Request(cmd, 1, NoEnd) EXCEPT !.pc = "locate"]
  <2>2. cli[c] = m
    BY <1>2, <1>3, <1>4, <2>1
  <2>3. m.cmd = cmd /\ m.key = 1 /\ m.to = NoEnd /\ m.pc = "locate" /\ m.out = << >>
    BY DEF Request
  <2>4. NoEnd \in Nat /\ 1 < NoEnd /\ Below(1) = {} /\ AtLeast(NoEnd) = {}
    BY KeysAreNat DEF NoEnd, Below, AtLeast
  <2>5. Ascending(Below(1)) = << >> /\ Descending(AtLeast(NoEnd)) = << >>
    BY <2>4, NoneOrdered DEF Ascending, Descending
  <2> HIDE DEF m
  <2>6. ScanProgress(m)
    BY <2>3, <2>4, <2>5 DEF ScanProgress
  <2>7. ScannerOK(m)
    BY <2>3, <2>6 DEF ScannerOK
  <2> QED  BY <2>2, <2>7
<1>5. CASE c \notin on
  <2>1. cli[c] = Request("none", 0, 0)
    BY <1>2, <1>3, <1>5
  <2> QED  BY <2>1 DEF ScannerOK, Request
<1> QED  BY <1>4, <1>5

LEMMA NewerYet ==
    ASSUME NEW a, NEW b, NEW c, a.ver \in Nat, b.ver \in Nat, c.ver \in Nat,
           SameOrNewer(a, b), SameOrNewer(b, c)
    PROVE  SameOrNewer(a, c)
BY DEF SameOrNewer

\* What a scanner knows stays true whatever the others do.
LEMMA ScannerStays ==
    ASSUME RegionsInv, RegionsInv', Onward, NEW m, ScannerOK(m), NEW c, cli'[c] = m
    PROVE  ScannerOK(cli[c])'
<1>1. CacheOK(m) => /\ m.region \in 1 .. id' /\ RegionTyped(m.meta)
                    /\ m.region \in DOMAIN regions' => SameOrNewer(m.meta, regions'[m.region])
  <2> SUFFICES ASSUME CacheOK(m)
               PROVE  /\ m.region \in 1 .. id' /\ RegionTyped(m.meta)
                      /\ m.region \in DOMAIN regions' => SameOrNewer(m.meta, regions'[m.region])
    OBVIOUS
  <2>1. id \in Nat /\ id' \in Nat /\ id <= id' /\ m.region \in 1 .. id /\ RegionTyped(m.meta)
    BY DEF RegionsInv, RegionsTyped, Onward, CacheOK
  <2>2. ASSUME m.region \in DOMAIN regions'
        PROVE  SameOrNewer(m.meta, regions'[m.region])
    <3>1. m.region \in DOMAIN regions /\ SameOrNewer(regions[m.region], regions'[m.region])
      BY <2>1, <2>2 DEF Onward, Aged
    <3>2. SameOrNewer(m.meta, regions[m.region])
      BY <3>1 DEF CacheOK
    <3>3. RegionTyped(regions[m.region]) /\ RegionTyped(regions'[m.region])
      BY <2>2, <3>1 DEF RegionsInv, RegionsTyped
    <3>4. m.meta.ver \in Nat /\ regions[m.region].ver \in Nat /\ regions'[m.region].ver \in Nat
      BY <2>1, <3>3 DEF RegionTyped
    <3> QED  BY <3>1, <3>2, <3>4, NewerYet
  <2> QED  BY <2>1, <2>2
<1>2. Emptied => Emptied'
  BY DEF Onward
<1>3. CacheOK(m) => CacheOK(cli[c])'
  BY <1>1 DEF CacheOK
<1>4. CacheFits(m) => CacheFits(cli[c])'
  BY <1>2 DEF CacheFits, Serves, RegionContains, NoEnd
<1>5. ScanProgress(m) => ScanProgress(cli[c])'
  BY DEF ScanProgress, Descending, Ascending, Ordered, AtLeast, Below, NoEnd
<1> QED  BY <1>2, <1>3, <1>4, <1>5 DEF ScannerOK

-----------------------------------------------------------------------------
(* Every step keeps the invariant of the scans. *)

\* The request of m, with another cache or at another place of its loop.
SameScan(m, new) ==
    /\ new.cmd = m.cmd /\ new.key = m.key /\ new.to = m.to /\ new.out = m.out
    /\ m.pc \in {"locate", "send"} /\ new.pc \in {"locate", "send", "run"}

LEMMA GoesOn ==
    ASSUME NEW m, ScannerOK(m), NEW new, SameScan(m, new),
           new.pc \in {"send", "run"} => CacheOK(new) /\ CacheFits(new),
           new.pc = "run" => new.start = new.meta.start /\ new.end = new.meta.end
    PROVE  ScannerOK(new)
BY DEF ScannerOK, SameScan, ScanProgress

\* A region as it is now is fit for the cache.
LEMMA FreshCache ==
    ASSUME RegionsInv, NEW new, new.region \in DOMAIN regions, new.meta = regions[new.region]
    PROVE  CacheOK(new)
<1>1. /\ id \in Nat /\ new.region \in 1 .. id /\ RegionTyped(regions[new.region])
      /\ regions[new.region].ver \in Nat
  BY DEF RegionsInv, RegionsTyped, RegionTyped
<1> QED  BY <1>1 DEF CacheOK, SameOrNewer

\* GetRegion and GetPrevRegion give a region that holds the next key, or an empty one.
LEMMA LocateScans ==
    ASSUME RegionsInv, NEW c \in Scanner, c \in Client, ScannerOK(cli[c]), Locate(c)
    PROVE  \E new : cli' = [cli EXCEPT ![c] = new] /\ ScannerOK(new)
<1> DEFINE m == cli[c]
<1>1. PICK i \in Located(m) : \E p :
         cli' = [cli EXCEPT ![c].pc = "send", ![c].region = i, ![c].meta = regions[i], ![c].peer = p]
  BY DEF Locate
<1>2. PICK p :
         cli' = [cli EXCEPT ![c].pc = "send", ![c].region = i, ![c].meta = regions[i], ![c].peer = p]
  BY <1>1
<1> DEFINE new == [m EXCEPT !.pc = "send", !.region = i, !.meta = regions[i], !.peer = p]
<1>3. cli' = [cli EXCEPT ![c] = new]
  BY <1>2
<1>4. DOMAIN m = ClientFields /\ m.pc = "locate"
  BY DEF RegionsInv, ClientsTyped, ClientTyped, Locate
<1>5. /\ new.region = i /\ new.meta = regions[i] /\ new.pc = "send"
      /\ new.cmd = m.cmd /\ new.key = m.key /\ new.to = m.to /\ new.out = m.out
  BY <1>4 DEF ClientFields
<1> HIDE DEF new, m
<1>6. i \in DOMAIN regions
  BY DEF Located
<1>7. CacheOK(new)
  BY <1>5, <1>6, FreshCache
<1>8. CacheFits(new)
  <2>1. \/ Serves(regions[i], m)
        \/ m.cmd = "ReverseScan" /\ regions[i].end = m.to
    BY DEF Located
  <2>2. CASE Serves(regions[i], m)
    BY <2>2, <1>5 DEF CacheFits, Serves
  <2>3. CASE m.cmd = "ReverseScan" /\ regions[i].end = m.to
    <3>1. regions[i].start \in Nat /\ regions[i].end \in Nat
      BY <1>6, KeysAreNat DEF RegionsInv, RegionsTyped, RegionTyped, NoEnd
    <3>2. CASE regions[i].start < regions[i].end
      BY <2>3, <3>1, <3>2, <1>5 DEF CacheFits, Serves
    <3>3. CASE ~(regions[i].start < regions[i].end)
      <4>1. Emptied
        BY <3>3, <1>6 DEF RegionsInv, Proper
      <4> QED  BY <2>3, <3>1, <3>3, <4>1, <1>5 DEF CacheFits
    <3> QED  BY <3>2, <3>3
  <2> QED  BY <2>1, <2>2, <2>3
<1>9. SameScan(m, new)
  BY <1>4, <1>5 DEF SameScan
<1> QED  BY <1>3, <1>5, <1>7, <1>8, <1>9, GoesOn DEF m

\* The client goes on after a region error with what it has, with the current
\* region if that serves, or with a new lookup.
LEMMA ErrorScans ==
    ASSUME RegionsInv, NEW c, ScannerOK(cli[c]), DOMAIN cli[c] = ClientFields,
           cli[c].pc = "send", NEW e, e # "RaftEntryTooLarge"
    PROVE  ScannerOK(AfterError(c, e))
<1> DEFINE m == cli[c]
           cur == IF m.region \in DOMAIN regions THEN regions[m.region] ELSE m.meta
           new == AfterError(c, e)
<1>1. \/ \E p : new = [m EXCEPT !.pc = "send", !.peer = p]
      \/ Serves(cur, m) /\ \E p : new = [m EXCEPT !.pc = "send", !.meta = cur, !.peer = p]
      \/ new = [m EXCEPT !.pc = "locate", !.region = None]
  BY DEF AfterError
<1>2. CacheOK(m) /\ CacheFits(m)
  BY DEF ScannerOK
<1>3. /\ SameScan(m, new)
      /\ \/ new.pc = "send" /\ new.region = m.region /\ new.meta = m.meta
         \/ new.pc = "send" /\ new.region = m.region /\ new.meta = cur /\ Serves(cur, m)
         \/ new.pc = "locate"
  <2>1. DOMAIN m = ClientFields /\ m.pc = "send"
    OBVIOUS
  <2> HIDE DEF new, cur, m
  <2>2. CASE \E p : new = [m EXCEPT !.pc = "send", !.peer = p]
    BY <2>1, <2>2 DEF ClientFields, SameScan
  <2>3. CASE Serves(cur, m) /\ \E p : new = [m EXCEPT !.pc = "send", !.meta = cur, !.peer = p]
    BY <2>1, <2>3 DEF ClientFields, SameScan
  <2>4. CASE new = [m EXCEPT !.pc = "locate", !.region = None]
    BY <2>1, <2>4 DEF ClientFields, SameScan
  <2> QED  BY <1>1, <2>2, <2>3, <2>4
<1> HIDE DEF new
<1>4. CASE new.pc = "send" /\ new.region = m.region /\ new.meta = m.meta
  <2>1. CacheOK(new)
    BY <1>2, <1>4 DEF CacheOK
  <2>2. CacheFits(new)
    <3> HIDE DEF m
    <3> QED  BY <1>2, <1>3, <1>4 DEF CacheFits, Serves, SameScan
  <2> QED  BY <2>1, <2>2, <1>3, <1>4, GoesOn DEF new
<1>5. CASE new.pc = "send" /\ new.region = m.region /\ new.meta = cur /\ Serves(cur, m)
  <2>1. CacheOK(new)
    BY <1>2, <1>5, FreshCache DEF CacheOK
  <2>2. CacheFits(new)
    <3> HIDE DEF m, cur
    <3> QED  BY <1>3, <1>5 DEF CacheFits, Serves, SameScan
  <2> QED  BY <2>1, <2>2, <1>3, <1>5, GoesOn DEF new
<1>6. CASE new.pc = "locate"
  BY <1>3, <1>6, GoesOn DEF new
<1> QED  BY <1>3, <1>4, <1>5, <1>6

\* A request that is served runs on the range its client has cached: the versions
\* agree, so no split or merge has changed it since.
LEMMA CheckScans ==
    ASSUME RegionsInv, NEW c \in Scanner, c \in Client, ScannerOK(cli[c]), CheckRequest(c)
    PROVE  \E new : cli' = [cli EXCEPT ![c] = new] /\ ScannerOK(new)
<1> DEFINE m == cli[c]
<1>1. PICK se \in StoreErrors(m.peer.store) :
         LET e == IF se # "none" THEN se
                  ELSE IF ContextError(m) # "none" THEN ContextError(m) ELSE SizeError(c) IN
         cli' = [cli EXCEPT ![c] =
             IF e = "none"
             THEN [m EXCEPT !.pc = "run", !.start = regions[m.region].start,
                            !.end = regions[m.region].end]
             ELSE IF ~RawReturns(m.cmd) /\ se = "none"
                  THEN [m EXCEPT !.pc = "run", !.err = e]
                  ELSE AfterError(c, e)]
  BY DEF CheckRequest
<1> DEFINE e == IF se # "none" THEN se
                ELSE IF ContextError(m) # "none" THEN ContextError(m) ELSE SizeError(c)
           served == [m EXCEPT !.pc = "run", !.start = regions[m.region].start,
                               !.end = regions[m.region].end]
<1>2. DOMAIN m = ClientFields /\ m.pc = "send"
  BY DEF RegionsInv, ClientsTyped, ClientTyped, CheckRequest
<1>3. /\ CacheOK(m) /\ CacheFits(m) /\ RawReturns(m.cmd)
  BY <1>2 DEF ScannerOK, RawReturns
<1>4. e # "RaftEntryTooLarge"
  <2>1. SizeError(c) = "none"
    BY RegionsAssumption DEF SizeError
  <2>2. se # "RaftEntryTooLarge"
    BY DEF StoreErrors
  <2>3. ContextError(m) # "RaftEntryTooLarge"
    BY DEF ContextError
  <2> QED  BY <2>1, <2>2, <2>3
<1>5. CASE e = "none"
  <2>1. cli' = [cli EXCEPT ![c] = served]
    BY <1>1, <1>5
  <2>2. ContextError(m) = "none"
    BY <1>5
  <2>3. m.region \in DOMAIN regions /\ regions[m.region].ver = m.meta.ver
    BY <2>2 DEF ContextError
  <2>4. regions[m.region].start = m.meta.start /\ regions[m.region].end = m.meta.end
    BY <2>3, <1>3 DEF CacheOK, SameOrNewer
  <2>5. /\ SameScan(m, served) /\ served.pc = "run"
        /\ served.start = regions[m.region].start /\ served.end = regions[m.region].end
        /\ served.region = m.region /\ served.meta = m.meta
    BY <1>2 DEF ClientFields, SameScan
  <2> HIDE DEF served
  <2>6. CacheOK(served)
    BY <1>3, <2>5 DEF CacheOK
  <2>7. CacheFits(served)
    <3> HIDE DEF m
    <3> QED  BY <1>3, <2>5 DEF CacheFits, Serves, SameScan
  <2>8. ScannerOK(served)
    BY <2>4, <2>5, <2>6, <2>7, GoesOn
  <2> QED  BY <2>1, <2>8
<1>6. CASE e # "none"
  <2>1. cli' = [cli EXCEPT ![c] = AfterError(c, e)]
    BY <1>1, <1>3, <1>6
  <2>2. ScannerOK(AfterError(c, e))
    <3> HIDE DEF e
    <3> QED  BY <1>2, <1>4, ErrorScans
  <2> QED  BY <2>1, <2>2
<1> QED  BY <1>5, <1>6

MovedUp(m, next, got) ==
    [m EXCEPT !.pc = IF next >= m.to THEN "done" ELSE "locate", !.key = next, !.out = @ \o got]

MovedDown(m, next, got) ==
    [m EXCEPT !.pc = IF next <= m.key THEN "done" ELSE "locate", !.to = next, !.out = @ \o got]

\* A page that joins on brings a scan forward.
LEMMA ForwardOn ==
    ASSUME NEW m, DOMAIN m = ClientFields, ScannerOK(m), m.pc = "run", m.cmd # "ReverseScan",
           NEW next \in Nat \ {0}, next <= NoEnd, NEW got,
           Extends(Ascending(Below(m.key)), got, Ascending(Below(next)))
    PROVE  ScannerOK(MovedUp(m, next, got))
<1> DEFINE new == MovedUp(m, next, got)
<1>1. /\ m.cmd \in {"Scan", "INTERLOCK"} /\ m.key \in 1 .. NoEnd /\ m.to = NoEnd
      /\ m.out = Ascending(Below(m.key)) /\ m.key < NoEnd
  BY DEF ScannerOK, ScanProgress
<1>2. /\ new.cmd = m.cmd /\ new.key = next /\ new.to = m.to
      /\ new.pc = IF next >= m.to THEN "done" ELSE "locate"
  BY DEF ClientFields, MovedUp
<1>3. new.out = m.out \o got
  BY DEF ClientFields, MovedUp
<1> HIDE DEF new
<1>4. new.out = Ascending(Below(next))
  BY <1>1, <1>3 DEF Extends
<1>5. NoEnd \in Nat
  BY KeysAreNat DEF NoEnd
<1>6. ScanProgress(new)
  BY <1>1, <1>2, <1>4, <1>5 DEF ScanProgress
<1> QED  BY <1>1, <1>2, <1>6 DEF ScannerOK, new

LEMMA DownOn ==
    ASSUME NEW m, DOMAIN m = ClientFields, ScannerOK(m), m.pc = "run", m.cmd = "ReverseScan",
           NEW next \in Nat \ {0}, next <= NoEnd, NEW got,
           Extends(Descending(AtLeast(m.to)), got, Descending(AtLeast(next)))
    PROVE  ScannerOK(MovedDown(m, next, got))
<1> DEFINE new == MovedDown(m, next, got)
<1>1. m.key = 1 /\ m.out = Descending(AtLeast(m.to))
  BY DEF ScannerOK, ScanProgress
<1>2. /\ new.cmd = m.cmd /\ new.key = m.key /\ new.to = next
      /\ new.pc = IF next <= m.key THEN "done" ELSE "locate"
  BY DEF ClientFields, MovedDown
<1>3. new.out = m.out \o got
  BY DEF ClientFields, MovedDown
<1> HIDE DEF new
<1>4. new.out = Descending(AtLeast(next))
  BY <1>1, <1>3 DEF Extends
<1>5. NoEnd \in Nat /\ 1 <= NoEnd
  BY KeysAreNat DEF NoEnd
<1>6. ScanProgress(new)
  BY <1>1, <1>2, <1>4, <1>5 DEF ScanProgress
<1> QED  BY <1>2, <1>6 DEF ScannerOK, new

\* A forward scan runs on a region that holds its key, which ends above it.
LEMMA RunsWithin ==
    ASSUME NEW m, ScannerOK(m), m.pc = "run", m.cmd # "ReverseScan"
    PROVE  /\ m.key \in Nat /\ m.to = NoEnd /\ NoEnd \in Nat
           /\ m.start = m.meta.start /\ m.end = m.meta.end
           /\ m.start \in Nat /\ m.end \in Nat
           /\ m.start <= m.key /\ m.key < m.end /\ m.end <= NoEnd
<1>1. /\ ScanProgress(m) /\ CacheOK(m) /\ CacheFits(m)
      /\ m.start = m.meta.start /\ m.end = m.meta.end
  BY DEF ScannerOK
<1>2. /\ NoEnd \in Nat /\ m.key \in Nat /\ m.to = NoEnd /\ m.key < NoEnd
      /\ m.meta.start \in Nat /\ m.meta.end \in Nat /\ m.meta.end <= NoEnd
  BY <1>1, KeysAreNat DEF CacheOK, RegionTyped, ScanProgress, NoEnd
<1>3. RegionContains(m.meta, m.key)
  BY <1>1 DEF CacheFits, Serves
<1> QED  BY <1>1, <1>2, <1>3 DEF RegionContains

LEMMA RunScans ==
    ASSUME NEW c, ScannerOK(cli[c]), DOMAIN cli[c] = ClientFields, RunScan(c)
    PROVE  \E new : cli' = [cli EXCEPT ![c] = new] /\ ScannerOK(new)
<1> DEFINE m == cli[c]
           got == Scan(m.key, Min({m.to, m.meta.end, m.end}))
           next == IF Len(got) < Limit THEN Min({m.to, m.meta.end}) ELSE Last(got) + 1
           page == Scan(m.key, m.end)
           after == IF Len(page) < Limit THEN m.end ELSE Last(page) + 1
<1>1. /\ m.pc = "run" /\ m.cmd = "Scan"
      /\ cli' = [cli EXCEPT ![c] = IF ~InRange(m, m.key) THEN [m EXCEPT !.pc = "panic"]
                                  ELSE MovedUp(m, next, got)]
  BY DEF RunScan, MovedUp
<1>2. /\ m.key \in Nat /\ m.to = NoEnd /\ NoEnd \in Nat
      /\ m.start = m.meta.start /\ m.end = m.meta.end
      /\ m.start \in Nat /\ m.end \in Nat
      /\ m.start <= m.key /\ m.key < m.end /\ m.end <= NoEnd
  BY <1>1, RunsWithin
<1>3. InRange(m, m.key)
  BY <1>2 DEF InRange, RegionContains
<1>4. Min({m.to, m.meta.end, m.end}) = m.end /\ Min({m.to, m.meta.end}) = m.end
  <2>1. \A x \in {m.to, m.meta.end, m.end} : x \in Int /\ m.end <= x
    BY <1>2
  <2>2. {m.to, m.meta.end, m.end} \in SUBSET Int /\ {m.to, m.meta.end} \in SUBSET Int
        /\ m.end \in {m.to, m.meta.end, m.end} /\ m.end \in {m.to, m.meta.end}
    BY <1>2, <2>1
  <2> HIDE DEF m
  <2>3. Min({m.to, m.meta.end, m.end}) = m.end
    BY ONLY <2>1, <2>2, MinOf
  <2>4. Min({m.to, m.meta.end}) = m.end
    BY ONLY <2>1, <2>2, MinOf
  <2> QED  BY <2>3, <2>4
<1>5. got = page /\ next = after
  BY <1>4
<1>6. /\ after \in Nat /\ m.key < after /\ after <= m.end
      /\ Extends(Ascending(Below(m.key)), page, Ascending(Below(after)))
  <2> HIDE DEF m
  <2> QED  BY <1>2, PageUp
<1>7. cli' = [cli EXCEPT ![c] = MovedUp(m, after, page)]
  BY <1>1, <1>3, <1>5
<1> HIDE DEF got, next, page, after
<1>8. ScannerOK(MovedUp(m, after, page))
  BY <1>1, <1>2, <1>6, ForwardOn
<1> QED  BY <1>7, <1>8

\* The interlock request is clipped to the region, so it stops where the region does.
LEMMA RunInterlocks ==
    ASSUME NEW c, ScannerOK(cli[c]), DOMAIN cli[c] = ClientFields, RunInterlock(c)
    PROVE  \E new : cli' = [cli EXCEPT ![c] = new] /\ ScannerOK(new)
<1> DEFINE m == cli[c]
           next == Min({m.to, m.meta.end})
           upper == Min({next, m.end})
           got == Ascending({k \in Data : Max({m.key, m.start}) <= k /\ k < upper})
<1>1. /\ m.pc = "run" /\ m.cmd = "INTERLOCK"
      /\ cli' = [cli EXCEPT ![c] = MovedUp(m, next, got)]
  BY DEF RunInterlock, MovedUp
<1>2. /\ m.key \in Nat /\ m.to = NoEnd /\ NoEnd \in Nat
      /\ m.start = m.meta.start /\ m.end = m.meta.end
      /\ m.start \in Nat /\ m.end \in Nat
      /\ m.start <= m.key /\ m.key < m.end /\ m.end <= NoEnd
  BY <1>1, RunsWithin
<1>3. next = m.end /\ Min({m.end, m.end}) = m.end /\ Max({m.key, m.start}) = m.key
  <2>1. /\ \A x \in {m.to, m.meta.end} : x \in Int /\ m.end <= x
        /\ \A x \in {m.end, m.end} : x \in Int /\ m.end <= x
        /\ \A x \in {m.key, m.start} : x \in Int /\ x <= m.key
    BY <1>2
  <2>2. /\ {m.to, m.meta.end} \in SUBSET Int /\ m.end \in {m.to, m.meta.end}
        /\ {m.end, m.end} \in SUBSET Int /\ m.end \in {m.end, m.end}
        /\ {m.key, m.start} \in SUBSET Int /\ m.key \in {m.key, m.start}
    BY <1>2, <2>1
  <2> HIDE DEF m
  <2>3. Min({m.to, m.meta.end}) = m.end
    BY ONLY <2>1, <2>2, MinOf
  <2>4. Min({m.end, m.end}) = m.end
    BY ONLY <2>1, <2>2, MinOf
  <2>5. Max({m.key, m.start}) = m.key
    BY ONLY <2>1, <2>2, MaxOf
  <2> QED  BY <2>3, <2>4, <2>5
<1>4. got = Ascending(Between(m.key, m.end))
  BY <1>3 DEF Between
<1>5. Extends(Ascending(Below(m.key)), Ascending(Between(m.key, m.end)), Ascending(Below(m.end)))
  <2> HIDE DEF m
  <2> QED  BY <1>2, UpwardJoins
<1>6. cli' = [cli EXCEPT ![c] = MovedUp(m, m.end, got)]
  BY <1>1, <1>3
<1> HIDE DEF got, next, upper
<1>7. ScannerOK(MovedUp(m, m.end, got))
  BY <1>1, <1>2, <1>4, <1>5, ForwardOn
<1> QED  BY <1>6, <1>7

\* A reverse scan runs down from its bound to the start of the region, unless the
\* region is empty and nothing of it lies below the bound.
LEMMA RunReverses ==
    ASSUME NEW c, ScannerOK(cli[c]), DOMAIN cli[c] = ClientFields, RunReverseScan(c)
    PROVE  \E new : cli' = [cli EXCEPT ![c] = new] /\ ScannerOK(new)
<1> DEFINE m == cli[c]
           lower == Max({m.key, m.meta.start})
           got == ReverseScan(lower, Min({m.to, m.end}))
           next == IF Len(got) < Limit THEN lower ELSE Last(got)
           floor == IF m.start < 1 THEN 1 ELSE m.start
           page == ReverseScan(floor, m.to)
           after == IF Len(page) < Limit THEN floor ELSE Last(page)
           panics == [m EXCEPT !.pc = "panic"]
<1>1. /\ m.pc = "run" /\ m.cmd = "ReverseScan"
      /\ cli' = [cli EXCEPT ![c] = IF ~InRange(m, lower) THEN panics
                                  ELSE MovedDown(m, next, got)]
  BY DEF RunReverseScan, MovedDown
<1>2. /\ ScanProgress(m) /\ CacheOK(m) /\ CacheFits(m)
      /\ m.start = m.meta.start /\ m.end = m.meta.end
  BY <1>1 DEF ScannerOK
<1>3. /\ NoEnd \in Nat /\ m.key = 1 /\ m.to \in Nat /\ 1 < m.to /\ m.to <= NoEnd
      /\ m.start \in Nat /\ m.end \in Nat /\ m.start < NoEnd /\ m.end <= NoEnd
  BY <1>1, <1>2, KeysAreNat DEF CacheOK, RegionTyped, ScanProgress, NoEnd
<1>4. lower = floor /\ floor \in Nat \ {0} /\ m.start <= floor
  <2>1. /\ \A x \in {m.key, m.meta.start} : x \in Int /\ x <= floor
        /\ floor \in {m.key, m.meta.start} /\ floor \in Nat \ {0} /\ m.start <= floor
    BY <1>2, <1>3
  <2>2. {m.key, m.meta.start} \in SUBSET Int
    BY <2>1
  <2> HIDE DEF m, floor
  <2> QED  BY <2>1, <2>2, MaxOf
<1>5. CASE Serves(m.meta, m)
  <2>1. floor < m.to /\ m.to <= m.end
    <3>1. m.start < m.to /\ m.to <= m.end
      BY <1>1, <1>2, <1>3, <1>5 DEF Serves
    <3> QED  BY <1>3, <3>1
  <2>2. InRange(m, lower)
    <3> HIDE DEF lower, floor, m
    <3> QED  BY <1>3, <1>4, <2>1 DEF InRange, RegionContains
  <2>3. Min({m.to, m.end}) = m.to
    <3>1. /\ \A x \in {m.to, m.end} : x \in Int /\ m.to <= x
          /\ {m.to, m.end} \in SUBSET Int
      BY <1>3, <2>1
    <3> HIDE DEF m
    <3> QED  BY <3>1, MinOf
  <2>4. got = page /\ next = after
    <3> HIDE DEF lower, floor
    <3> QED  BY <1>4, <2>3
  <2>5. /\ after \in Nat /\ floor <= after /\ after < m.to
        /\ Extends(Descending(AtLeast(m.to)), page, Descending(AtLeast(after)))
    <3> HIDE DEF m, floor
    <3> QED  BY <1>3, <1>4, <2>1, PageDown
  <2>6. cli' = [cli EXCEPT ![c] = MovedDown(m, after, page)]
    BY <1>1, <2>2, <2>4
  <2>7. after \in Nat \ {0} /\ after <= NoEnd
    <3> HIDE DEF m, floor, page, after
    <3> QED  BY <1>3, <1>4, <2>5
  <2> HIDE DEF got, next, lower, floor, page, after
  <2>8. ScannerOK(MovedDown(m, after, page))
    BY <1>1, <2>5, <2>7, DownOn
  <2> QED  BY <2>6, <2>8
<1>6. CASE m.meta.end = m.to /\ m.to <= m.meta.start /\ Emptied
  <2>1. ~InRange(m, lower)
    <3>1. m.end = m.to /\ m.to <= m.start
      BY <1>2, <1>6
    <3> HIDE DEF lower, floor, m
    <3> QED  BY <1>3, <1>4, <3>1, SMTT(20) DEF InRange, RegionContains
  <2>2. cli' = [cli EXCEPT ![c] = panics]
    BY <1>1, <2>1
  <2>3. /\ panics.cmd = m.cmd /\ panics.key = m.key /\ panics.to = m.to /\ panics.out = m.out
        /\ panics.pc = "panic"
    BY DEF ClientFields
  <2> HIDE DEF panics
  <2>4. ScanProgress(panics)
    BY <1>1, <1>2, <2>3 DEF ScanProgress
  <2>5. ScannerOK(panics)
    BY <1>1, <1>6, <2>3, <2>4 DEF ScannerOK
  <2> QED  BY <2>2, <2>5
<1> QED  BY <1>2, <1>5, <1>6 DEF CacheFits

LEMMA ScansStep ==
    ASSUME SplitRangesHoldData, ScansInv, [RegionsNext]_regionsVars
    PROVE  ScansInv'
<1>1. RegionsInv /\ RegionsInv' /\ Onward
  BY RegionsStep DEF ScansInv
<1> SUFFICES ASSUME NEW c \in Scanner
             PROVE  ScannerOK(cli[c])'
  BY <1>1 DEF ScansInv
<1>2. /\ c \in Client /\ c \notin Raw /\ ScannerOK(cli[c]) /\ DOMAIN cli[c] = ClientFields
      /\ DOMAIN cli = Client
  BY <1>1, RegionsAssumption DEF Client, ScansInv, RegionsInv, ClientsTyped, ClientTyped
<1>3. ASSUME NEW new, cli' = [cli EXCEPT ![c] = new], ScannerOK(new)
      PROVE  ScannerOK(cli[c])'
  <2>1. cli'[c] = new
    BY <1>2, <1>3
  <2> QED  BY <1>1, <1>3, <2>1, ScannerStays
<1>4. ASSUME cli'[c] = cli[c]
      PROVE  ScannerOK(cli[c])'
  <2> DEFINE m == cli[c]
  <2>1. ScannerOK(m) /\ cli'[c] = m
    BY <1>2, <1>4
  <2> HIDE DEF m
  <2> QED  BY <1>1, <2>1, ScannerStays
<1>5. CASE ClusterStep
  <2>1. cli' = cli
    BY <1>5 DEF ClusterStep, Merge, AddPeer, RemovePeer, ChangeLeader, SetStore, SplitKeys
  <2> QED  BY <2>1, <1>4
<1>6. CASE ClientStep(c)
  <2>1. CASE Locate(c)
    BY <1>1, <1>2, <1>3, <2>1, LocateScans
  <2>2. CASE CheckRequest(c)
    BY <1>1, <1>2, <1>3, <2>2, CheckScans
  <2>3. CASE RunScan(c)
    BY <1>2, <1>3, <2>3, RunScans
  <2>4. CASE RunReverseScan(c)
    BY <1>2, <1>3, <2>4, RunReverses
  <2>5. CASE RunInterlock(c)
    BY <1>2, <1>3, <2>5, RunInterlocks
  <2>6. ~RunRaw(c)
    BY <1>2 DEF RunRaw
  <2>7. ~SplitLookup(c) /\ ~SplitApply(c)
    BY <1>2 DEF SplitLookup, SplitApply, ScannerOK
  <2> QED  BY <1>6, <2>1, <2>2, <2>3, <2>4, <2>5, <2>6, <2>7 DEF ClientStep
<1>7. ASSUME NEW d \in Client, ClientStep(d), d # c
      PROVE  ScannerOK(cli[c])'
  <2>1. cli'[c] = cli[c]
    BY <1>7, <1>2 DEF ClientStep, Locate, CheckRequest, RunScan, RunReverseScan, RunInterlock,
                      RunRaw, SplitLookup, SplitApply
  <2> QED  BY <2>1, <1>4
<1>8. CASE UNCHANGED regionsVars
  BY <1>4, <1>8 DEF regionsVars
<1> QED  BY <1>5, <1>6, <1>7, <1>8 DEF RegionsNext

\* The callers of handleKvScan and handleCoFIDelAGRequest: a scan that pages through
\* regions which split, merge and move under it returns each committed key once
\* and in order, and all of them when it ends.  It panics only as a reverse scan
\* that was sent to an empty region, which a SplitRegion request leaves that is
\* applied at the start of its region, or to one that has lost its key.
THEOREM ScanExactHolds ==
    ASSUME SplitRangesHoldData
    PROVE  RegionsSpec => []ScanExact
<1>1. ScansInv /\ [RegionsNext]_regionsVars => ScansInv'
  BY ScansStep
<1> QED  BY ScansInitInv, <1>1, InvScans, PTL DEF RegionsSpec

==============================================================================
