---------------------------- MODULE EngineProofs ----------------------------
(***************************************************************************)
(* Proofs about the embedding lookup of all ranks (EmbeddingEngine.tla),   *)
(* for every configuration, batch, slice and number of ranks: the places   *)
(* of the code which decide on which rank an id has its row agree          *)
(* (Sharding.tla), every rank is asked for ids that it owns, stored rows   *)
(* are where they are looked for, and all ranks run through the same       *)
(* sequence of collectives.                                                *)
(***************************************************************************)
EXTENDS EmbeddingEngine, FiniteSetTheorems, FunctionTheorems, WellFoundedInduction, TLAPS

----------------------------------------------------------------------------
(* Which rank owns a bucket.                                                *)

\* A set of naturals has a least element.
LEMMA LeastOf ==
  ASSUME NEW T, T \subseteq Nat, T # {}
  PROVE  \E m \in T : \A n \in T : m <= n
  <1> DEFINE R == OpToRel(<, Nat)
  <1>1. IsWellFoundedOn(R, Nat)
    BY NatLessThanWellFounded
  <1>2. \A x, y \in Nat : x < y => <<x, y>> \in R
    BY DEF OpToRel
  <1> HIDE DEF R
  <1>3. PICK m \in T : \A n \in T : ~(<<n, m>> \in R)
    BY <1>1, WFMin
  <1>4. \A n \in T : m <= n
    <2> TAKE n \in T
    <2>1. m \in Nat /\ n \in Nat /\ ~(n < m)
      BY <1>2, <1>3
    <2> QED
      BY <2>1
  <1> QED
    BY <1>4

\* Quotient and remainder of any integer, as ids_partition() uses them.
LEMMA DivisionFacts ==
  ASSUME NEW a \in Int, NEW d \in Nat \ {0}
  PROVE  /\ a \div d \in Int /\ (a % d) \in 0 .. (d - 1)
         /\ a = (a \div d) * d + (a % d)
  BY Z3

\* Products with a neighbour.
LEMMA Distribute ==
  ASSUME NEW x \in Int, NEW d \in Int
  PROVE  x * (d + 1) = x * d + x /\ (x + 1) * d = x * d + d
  BY Z3

\* Products are ordered as their factors are.
LEMMA ProductsOrdered ==
  ASSUME NEW x \in Int, NEW y \in Int, NEW d \in Nat
  PROVE  /\ x <= y => x * d <= y * d
         /\ x * d < y * d => x < y
  BY Z3

\* A quotient is known from the multiples around the dividend.
LEMMA QuotientBetween ==
  ASSUME NEW a \in Int, NEW d \in Nat \ {0}, NEW q \in Int
  PROVE  /\ a < (q + 1) * d => a \div d <= q
         /\ q * d <= a => q <= a \div d
  <1> DEFINE quo == a \div d
  <1>1. quo \in Int /\ quo * d <= a /\ a < (quo + 1) * d
    BY DivisionFacts, Z3
  <1> HIDE DEF quo
  <1>2. a < (q + 1) * d => quo <= q
    <2>1. a < (q + 1) * d => quo * d < (q + 1) * d
      BY <1>1
    <2>2. quo * d < (q + 1) * d => quo < q + 1
      BY <1>1, ProductsOrdered
    <2> QED
      BY <1>1, <2>1, <2>2
  <1>3. q * d <= a => q <= quo
    <2>1. q * d <= a => q * d < (quo + 1) * d
      BY <1>1
    <2>2. q * d < (quo + 1) * d => q < quo + 1
      BY <1>1, ProductsOrdered
    <2> QED
      BY <1>1, <2>1, <2>2
  <1> QED
    BY <1>2, <1>3 DEF quo

\* What the ranges of gen_slice() add up to.
SliceSum(r, w, total) == r * (total \div w) + (IF r < total % w THEN r ELSE total % w)

\* The sum that gen_slice() forms rank by rank: the closed form satisfies the
\* recursion, and a least rank at which another solution differs does not exist.
LEMMA SliceBeginSum ==
  ASSUME NEW w \in Nat \ {0}, NEW total \in Nat, NEW r \in 0 .. w
  PROVE  SliceBegin(r, w, total) = SliceSum(r, w, total)
  <1> DEFINE Unrolled(f) == [i \in 0 .. w |-> IF i = 0 THEN 0 ELSE f[i - 1] + ShardSliceSize(i - 1, w, total)]
             g == [i \in 0 .. w |-> SliceSum(i, w, total)]
             m == total \div w
             n == total % w
  <1>1. m \in Nat /\ n \in Nat
    BY DivisionFacts
  <1>2. \A i \in 0 .. w : SliceSum(i, w, total) = i * m + (IF i < n THEN i ELSE n)
    BY DEF SliceSum
  <1>3. \A i \in 0 .. w : ShardSliceSize(i, w, total) = m + (IF i < n THEN 1 ELSE 0)
    BY DEF ShardSliceSize
  <1> HIDE DEF m, n
  <1>4. \A i \in 1 .. w : SliceSum(i, w, total) = SliceSum(i - 1, w, total) + ShardSliceSize(i - 1, w, total)
    <2> TAKE i \in 1 .. w
    <2>1. i * m = (i - 1) * m + m
      BY <1>1
    <2> DEFINE x == (i - 1) * m
    <2>2. x \in Int
      BY <1>1
    <2> HIDE DEF x
    <2>3. SliceSum(i, w, total) = x + m + (IF i < n THEN i ELSE n)
      BY <1>2, <2>1 DEF x
    <2>4. SliceSum(i - 1, w, total) = x + (IF i - 1 < n THEN i - 1 ELSE n)
      BY <1>2 DEF x
    <2>5. ShardSliceSize(i - 1, w, total) = m + (IF i - 1 < n THEN 1 ELSE 0)
      BY <1>3
    <2> QED
      BY <1>1, <2>2, <2>3, <2>4, <2>5
  <1>5. SliceSum(0, w, total) = 0
    BY <1>1, <1>2
  <1>6. g = Unrolled(g)
    BY <1>4, <1>5
  <1>7. ASSUME NEW f, f = Unrolled(f) PROVE f = g
    <2>1. f = [i \in 0 .. w |-> f[i]] /\ \A i \in 0 .. w : f[i] = IF i = 0 THEN 0 ELSE f[i - 1] + ShardSliceSize(i - 1, w, total)
      BY <1>7
    <2>2. \A i \in 0 .. w : f[i] = SliceSum(i, w, total)
      <3> DEFINE wrong == {i \in 0 .. w : f[i] # SliceSum(i, w, total)}
      <3> SUFFICES ASSUME wrong # {} PROVE FALSE
        OBVIOUS
      <3>0. wrong \subseteq Nat
        OBVIOUS
      <3>1. PICK i \in wrong : \A j \in wrong : i <= j
        <4> HIDE DEF wrong
        <4> QED
          BY <3>0, LeastOf
      <3>2. CASE i = 0
        BY <3>1, <3>2, <2>1, <1>5
      <3>3. CASE i # 0
        <4>1. i \in 1 .. w /\ i - 1 \in 0 .. w /\ i - 1 \notin wrong
          BY <3>1, <3>3
        <4>2. f[i - 1] = SliceSum(i - 1, w, total)
          BY <4>1
        <4>3. f[i] = f[i - 1] + ShardSliceSize(i - 1, w, total)
          <5>1. i \in 0 .. w /\ i # 0
            BY <4>1
          <5> QED
            BY <5>1, <2>1
        <4>4. f[i] = SliceSum(i, w, total)
          BY <4>1, <4>2, <4>3, <1>4
        <4> QED
          BY <3>1, <4>4
      <3> QED
        BY <3>2, <3>3
    <2> QED
      BY <2>1, <2>2
  <1>8. (CHOOSE f : f = Unrolled(f)) = g
    BY <1>6, <1>7
  <1>9. SliceBegin(r, w, total) = (CHOOSE f : f = Unrolled(f))[r]
    BY DEF SliceBegin
  <1> QED
    BY <1>8, <1>9

-----------------------------------------------------------------------------
\* The arithmetic of one table, with m buckets for a rank and n ranks that
\* have one more.
LEMMA SliceArithmetic ==
  ASSUME NEW w \in Nat \ {0}, NEW total \in Nat, w <= total
  PROVE  LET m == total \div w  n == total % w IN
         m \in Nat \ {0} /\ n \in 0 .. (w - 1) /\ total = w * m + n
  <1> DEFINE m == total \div w
             n == total % w
  <1>1. m \in Int /\ n \in 0 .. (w - 1) /\ total = m * w + n
    BY DivisionFacts
  <1>2. 1 <= m
    BY QuotientBetween
  <1> HIDE DEF m, n
  <1>3. m * w = w * m
    BY <1>1
  <1> QED
    BY <1>1, <1>2, <1>3 DEF m, n

\* A range of gen_slice(), without the sum.
LEMMA InSliceMeans ==
  ASSUME NEW w \in Nat \ {0}, NEW total \in Nat, w <= total, NEW r \in 0 .. (w - 1), NEW b \in Nat,
         NEW m \in Nat \ {0}, NEW n \in 0 .. (w - 1), m = total \div w, n = total % w
  PROVE  /\ r < n => (InSlice(b, r, w, total) <=> r * (m + 1) <= b /\ b < (r + 1) * (m + 1))
         /\ r >= n => (InSlice(b, r, w, total) <=> r * m + n <= b /\ b < (r + 1) * m + n)
  <1>1. SliceBegin(r, w, total) = r * m + (IF r < n THEN r ELSE n)
    <2>1. r \in 0 .. w
      OBVIOUS
    <2> QED
      BY <2>1, SliceBeginSum DEF SliceSum
  <1>2. SliceBegin(r + 1, w, total) = (r + 1) * m + (IF r + 1 < n THEN r + 1 ELSE n)
    <2>1. r + 1 \in 0 .. w
      OBVIOUS
    <2> QED
      BY <2>1, SliceBeginSum DEF SliceSum
  <1>3. r * (m + 1) = r * m + r /\ (r + 1) * (m + 1) = (r + 1) * m + (r + 1)
    <2> DEFINE s == r + 1
    <2>1. r \in Int /\ s \in Int /\ m \in Int
      OBVIOUS
    <2> HIDE DEF s
    <2>2. r * (m + 1) = r * m + r /\ s * (m + 1) = s * m + s
      BY <2>1, Distribute
    <2> QED
      BY <2>2 DEF s
  <1> DEFINE x == r * m
             y == (r + 1) * m
  <1>4. x \in Int /\ y \in Int
    OBVIOUS
  <1>5. SliceBegin(r, w, total) = x + (IF r < n THEN r ELSE n)
        /\ SliceBegin(r + 1, w, total) = y + (IF r + 1 < n THEN r + 1 ELSE n)
        /\ r * (m + 1) = x + r /\ (r + 1) * (m + 1) = y + (r + 1)
    BY <1>1, <1>2, <1>3
  <1>6. /\ r < n => (InSlice(b, r, w, total) <=> x + r <= b /\ b < y + (r + 1))
        /\ r >= n => (InSlice(b, r, w, total) <=> x + n <= b /\ b < y + n)
    <2> HIDE DEF x, y
    <2> QED
      BY <1>4, <1>5 DEF InSlice
  <1> QED
    BY <1>5, <1>6

\* A bucket of the range of rank r is sent to rank r.
LEMMA SliceToOwner ==
  ASSUME NEW w \in Nat \ {0}, NEW total \in Nat, w <= total, NEW r \in 0 .. (w - 1), NEW b \in Nat,
         InSlice(b, r, w, total)
  PROVE  Owner(b, w, total) = r
  <1> DEFINE m == total \div w
             n == total % w
             large == b \div (m + 1)
             plain == (b - n) \div m
  <1>1. m \in Nat \ {0} /\ n \in 0 .. (w - 1)
    BY SliceArithmetic
  <1>2. Owner(b, w, total) = IF large > plain THEN large ELSE plain
    BY DEF Owner
  <1>3. /\ r < n => r * (m + 1) <= b /\ b < (r + 1) * (m + 1)
        /\ r >= n => r * m + n <= b /\ b < (r + 1) * m + n
    BY <1>1, InSliceMeans
  <1>4. large \in Int /\ plain \in Int
    <2>1. b - n \in Int /\ b \in Int /\ m + 1 \in Nat \ {0}
      BY <1>1
    <2> HIDE DEF m, n
    <2> QED
      BY <1>1, <2>1, DivisionFacts
  <1> HIDE DEF m, n
  <1>5. CASE r < n
    <2>1. large = r
      <3>1. large <= r /\ r <= large
        BY <1>1, <1>3, <1>5, QuotientBetween
      <3> QED
        BY <1>4, <3>1
    <2>2. plain <= r
      <3>1. (r + 1) * (m + 1) = (r + 1) * m + (r + 1)
        BY <1>1
      <3>2. b - n < (r + 1) * m
        BY <1>1, <1>3, <1>5, <3>1
      <3> QED
        BY <1>1, <3>2, QuotientBetween
    <2> QED
      BY <1>2, <1>4, <2>1, <2>2
  <1>6. CASE r >= n
    <2>1. plain = r
      <3>1. r * m <= b - n /\ b - n < (r + 1) * m
        BY <1>1, <1>3, <1>6
      <3>2. plain <= r /\ r <= plain
        BY <1>1, <3>1, QuotientBetween
      <3> QED
        BY <1>4, <3>2
    <2>2. large <= r
      <3>1. (r + 1) * (m + 1) = (r + 1) * m + (r + 1)
        BY <1>1
      <3>2. b < (r + 1) * (m + 1)
        BY <1>1, <1>3, <1>6, <3>1
      <3> QED
        BY <1>1, <3>2, QuotientBetween
    <2> QED
      BY <1>2, <1>4, <2>1, <2>2
  <1> QED
    BY <1>1, <1>5, <1>6

\* Every bucket is in the range of some rank.
LEMMA SlicesCover ==
  ASSUME NEW w \in Nat \ {0}, NEW total \in Nat, w <= total, NEW b \in 0 .. (total - 1)
  PROVE  \E r \in 0 .. (w - 1) : InSlice(b, r, w, total)
  <1> DEFINE m == total \div w
             n == total % w
             large == b \div (m + 1)
             plain == (b - n) \div m
  <1>1. m \in Nat \ {0} /\ n \in 0 .. (w - 1) /\ total = w * m + n
    BY SliceArithmetic
  <1>2. /\ large \in Int /\ large * (m + 1) <= b /\ b < (large + 1) * (m + 1)
    <2>1. b \in Int /\ m + 1 \in Nat \ {0}
      BY <1>1
    <2> HIDE DEF m, n
    <2>2. large \in Int /\ (b % (m + 1)) \in 0 .. ((m + 1) - 1) /\ b = large * (m + 1) + (b % (m + 1))
      BY <2>1, <1>1, DivisionFacts
    <2>3. (large + 1) * (m + 1) = large * (m + 1) + (m + 1)
      BY <2>1, <2>2, Distribute
    <2> HIDE DEF large
    <2>4. large * (m + 1) \in Int
      BY <2>2, <1>1
    <2> QED
      BY <2>2, <2>3, <2>4, <1>1
  <1>3. /\ plain \in Int /\ plain * m <= b - n /\ b - n < (plain + 1) * m
    <2>1. b - n \in Int
      BY <1>1
    <2> HIDE DEF m, n
    <2>2. plain \in Int /\ ((b - n) % m) \in 0 .. (m - 1) /\ b - n = plain * m + ((b - n) % m)
      BY <2>1, <1>1, DivisionFacts
    <2>3. (plain + 1) * m = plain * m + m
      BY <2>2, <1>1
    <2> HIDE DEF plain
    <2>4. plain * m \in Int
      BY <2>2, <1>1
    <2> QED
      BY <2>2, <2>3, <2>4, <1>1
  <1>4. \A r \in 0 .. (w - 1) :
          /\ r < n => (InSlice(b, r, w, total) <=> r * (m + 1) <= b /\ b < (r + 1) * (m + 1))
          /\ r >= n => (InSlice(b, r, w, total) <=> r * m + n <= b /\ b < (r + 1) * m + n)
    <2> TAKE r \in 0 .. (w - 1)
    <2>1. b \in Nat /\ m = total \div w /\ n = total % w
      OBVIOUS
    <2> HIDE DEF m, n
    <2> QED
      BY <1>1, <2>1, InSliceMeans
  <1> HIDE DEF m, n, large, plain
  <1>5. CASE b < n * (m + 1)
    <2>1. large < n
      <3>1. large * (m + 1) < n * (m + 1)
        BY <1>1, <1>2, <1>5
      <3> QED
        BY <1>1, <1>2, <3>1, ProductsOrdered
    <2>2. 0 <= large
      <3>1. 0 * (m + 1) < (large + 1) * (m + 1)
        BY <1>1, <1>2
      <3>2. 0 < large + 1
        BY <1>1, <1>2, <3>1, ProductsOrdered
      <3> QED
        BY <1>2, <3>2
    <2> QED
      BY <1>1, <1>2, <1>4, <2>1, <2>2
  <1>6. CASE b >= n * (m + 1)
    <2>1. n <= plain
      <3>1. n * (m + 1) = n * m + n
        BY <1>1
      <3>2. n * m < (plain + 1) * m
        BY <1>1, <1>3, <1>6, <3>1
      <3>3. n < plain + 1
        BY <1>1, <1>3, <3>2, ProductsOrdered
      <3> QED
        BY <1>1, <1>3, <3>3
    <2>2. plain < w
      <3>1. plain * m < w * m
        BY <1>1, <1>3
      <3> QED
        BY <1>1, <1>3, <3>1, ProductsOrdered
    <2>3. plain \in 0 .. (w - 1) /\ plain >= n
      BY <1>1, <1>3, <2>1, <2>2
    <2>4. plain * m + n <= b /\ b < (plain + 1) * m + n
      BY <1>1, <1>3
    <2> QED
      BY <1>4, <2>3, <2>4
  <1> QED
    BY <1>1, <1>5, <1>6

\* gen_slice() and ids_partition() agree, for every number of ranks and of
\* buckets: a bucket is sent to the rank whose range it is in, and to no other.
THEOREM OwnersAgree ==
  ASSUME NEW w \in Nat \ {0}, NEW total \in Nat, w <= total, NEW b \in 0 .. (total - 1)
  PROVE  /\ Owner(b, w, total) \in 0 .. (w - 1)
         /\ \A r \in 0 .. (w - 1) : InSlice(b, r, w, total) <=> Owner(b, w, total) = r
  <1>1. PICK r \in 0 .. (w - 1) : InSlice(b, r, w, total)
    BY SlicesCover
  <1>2. b \in Nat
    OBVIOUS
  <1>3. \A q \in 0 .. (w - 1) : InSlice(b, q, w, total) => Owner(b, w, total) = q
    BY <1>2, SliceToOwner
  <1> QED
    BY <1>1, <1>3

----------------------------------------------------------------------------
(* Sets of numbers in an order.                                             *)

\* What comes before x in the order by rank and value.
Earlier(S, rank, x) == {y \in S : rank[y] < rank[x] \/ (rank[y] = rank[x] /\ y < x)}
Place(S, rank, x) == Cardinality(Earlier(S, rank, x)) + 1

\* The members of a set in their places, one for each number.
Numbered(S, rank) ==
  /\ \A x \in S : Place(S, rank, x) \in 1 .. Cardinality(S)
  /\ \A x, y \in S : y \in Earlier(S, rank, x) => Place(S, rank, y) < Place(S, rank, x)
  /\ \A i \in 1 .. Cardinality(S) : \E x \in S : Place(S, rank, x) = i

\* Counting what comes before numbers the members of a finite set without a gap.
LEMMA CountingNumbers ==
  ASSUME NEW S, S \subseteq Int, IsFiniteSet(S), NEW rank \in [S -> Int]
  PROVE  Numbered(S, rank)
  <1> DEFINE n == Cardinality(S)
             E(x) == Earlier(S, rank, x)
             P(x) == Place(S, rank, x)
  <1>1. n \in Nat
    BY FS_CardinalityType
  <1>2. \A x \in S : E(x) \subseteq S /\ x \notin E(x)
    BY DEF Earlier
  <1>3. \A x \in S : IsFiniteSet(E(x)) /\ Cardinality(E(x)) \in Nat /\ Cardinality(E(x)) <= n /\ Cardinality(E(x)) # n
    BY <1>2, FS_Subset, FS_CardinalityType
  <1>4. \A x \in S : P(x) \in 1 .. n
    BY <1>1, <1>3 DEF Place
  <1>5. \A x, y \in S : y \in E(x) => P(y) < P(x)
    <2> SUFFICES ASSUME NEW x \in S, NEW y \in S, y \in E(x) PROVE P(y) < P(x)
      OBVIOUS
    <2>1. E(y) \subseteq E(x) /\ y \notin E(y)
      <3>1. x \in Int /\ y \in Int /\ rank[x] \in Int /\ rank[y] \in Int
        OBVIOUS
      <3>2. ASSUME NEW z \in E(y) PROVE z \in E(x)
        <4>1. z \in S /\ z \in Int /\ rank[z] \in Int
          BY DEF Earlier
        <4> QED
          BY <3>1, <4>1 DEF Earlier
      <3> QED
        BY <1>2, <3>2
    <2>2. Cardinality(E(y)) <= Cardinality(E(x)) /\ Cardinality(E(y)) # Cardinality(E(x))
      <3>1. E(y) \in SUBSET E(x) /\ E(y) # E(x)
        BY <2>1
      <3> QED
        BY <1>3, <3>1, FS_Subset
    <2> QED
      BY <1>3, <2>2 DEF Place
  <1>6. \A x, y \in S : x = y \/ x \in E(y) \/ y \in E(x)
    BY DEF Earlier
  <1> DEFINE f == [x \in S |-> P(x)]
             T == {P(x) : x \in S}
  <1>7. f \in Surjection(S, T)
    BY DEF Surjection
  <1>8. f \in Injection(S, T)
    <2>1. f \in [S -> T]
      OBVIOUS
    <2>2. \A x, y \in S : f[x] = f[y] => x = y
      <3> SUFFICES ASSUME NEW x \in S, NEW y \in S, P(x) = P(y), x # y PROVE FALSE
        OBVIOUS
      <3>1. P(x) \in Nat /\ P(y) \in Nat /\ (P(x) < P(y) \/ P(y) < P(x))
        BY <1>1, <1>4, <1>5, <1>6
      <3> QED
        BY <3>1
    <2> QED
      BY <2>1, <2>2 DEF Injection, IsInjective
  <1>9. IsFiniteSet(T) /\ Cardinality(T) = n
    BY <1>7, <1>8, FS_Surjection
  <1>10. T = 1 .. n
    <2>1. T \in SUBSET (1 .. n)
      BY <1>4
    <2>2. IsFiniteSet(1 .. n) /\ Cardinality(1 .. n) = n
      BY <1>1, FS_Interval
    <2> HIDE DEF T
    <2> QED
      BY <1>9, <2>1, <2>2, FS_Subset
  <1>11. \A i \in 1 .. n : \E x \in S : P(x) = i
    BY <1>10
  <1> QED
    BY <1>4, <1>5, <1>11 DEF Numbered

\* s lists S by rank and value.
Lists(s, S, rank) ==
  /\ s \in [1 .. Cardinality(S) -> S]
  /\ \A i \in 1 .. Cardinality(S) : Place(S, rank, s[i]) = i
  /\ \A x \in S : Place(S, rank, x) \in 1 .. Cardinality(S) /\ s[Place(S, rank, x)] = x
  /\ \A i, j \in 1 .. Cardinality(S) : i < j => rank[s[i]] <= rank[s[j]]

\* The list by rank and value.
Listed(S, rank) == [i \in 1 .. Cardinality(S) |-> CHOOSE x \in S : Place(S, rank, x) = i]

\* It lists every member once, in the order.
LEMMA ListedLists ==
  ASSUME NEW S, S \subseteq Int, IsFiniteSet(S), NEW rank \in [S -> Int]
  PROVE  Lists(Listed(S, rank), S, rank)
  <1> DEFINE n == Cardinality(S)
             s == Listed(S, rank)
  <1>0. n \in Nat
    BY FS_CardinalityType
  <1>1. Numbered(S, rank)
    BY CountingNumbers
  <1>2. \A i \in 1 .. n : s[i] \in S /\ Place(S, rank, s[i]) = i
    BY <1>1 DEF Numbered, Listed
  <1>3. \A x, y \in S : x = y \/ x \in Earlier(S, rank, y) \/ y \in Earlier(S, rank, x)
    BY DEF Earlier
  <1>4. \A x \in S : Place(S, rank, x) \in 1 .. n
    BY <1>1 DEF Numbered
  <1>5. \A x, y \in S : Place(S, rank, x) = Place(S, rank, y) => x = y
    <2> SUFFICES ASSUME NEW x \in S, NEW y \in S, Place(S, rank, x) = Place(S, rank, y), x # y PROVE FALSE
      OBVIOUS
    <2>1. Place(S, rank, x) < Place(S, rank, y) \/ Place(S, rank, y) < Place(S, rank, x)
      BY <1>1, <1>3 DEF Numbered
    <2> QED
      BY <1>0, <1>4, <2>1
  <1>6. \A x \in S : s[Place(S, rank, x)] = x
    BY <1>2, <1>4, <1>5
  <1>7. ASSUME NEW i \in 1 .. n, NEW j \in 1 .. n, i < j, ~(rank[s[i]] <= rank[s[j]]) PROVE FALSE
    <2>1. s[i] \in S /\ s[j] \in S /\ rank[s[i]] \in Int /\ rank[s[j]] \in Int
      BY <1>2
    <2>2. s[j] \in Earlier(S, rank, s[i])
      BY <1>7, <2>1 DEF Earlier
    <2>3. Place(S, rank, s[j]) < Place(S, rank, s[i])
      BY <1>1, <2>1, <2>2 DEF Numbered
    <2> QED
      BY <1>2, <1>7, <2>3
  <1>8. s \in [1 .. n -> S]
    BY <1>2 DEF Listed
  <1> HIDE DEF s
  <1>9. \A i, j \in 1 .. n : i < j => rank[s[i]] <= rank[s[j]]
    BY <1>7
  <1> QED
    BY <1>2, <1>4, <1>6, <1>8, <1>9 DEF Lists, s

----------------------------------------------------------------------------
(* The ids of a batch, cut by owner.                                        *)

\* What belongs to the ranks before q.
Below(S, rank, q) == {x \in S : rank[x] < q}

\* A list by rank: the members of the ranks below q are its first ones.
LEMMA BelowComeFirst ==
  ASSUME NEW S, S \subseteq Int, IsFiniteSet(S), NEW rank \in [S -> Int], NEW s, Lists(s, S, rank),
         NEW q \in Int, NEW i \in 1 .. Cardinality(S)
  PROVE  rank[s[i]] < q <=> i <= Cardinality(Below(S, rank, q))
  <1> DEFINE B == Below(S, rank, q)
             E == Earlier(S, rank, s[i])
  <1>1. s[i] \in S /\ rank[s[i]] \in Int /\ s[i] \in Int
    BY DEF Lists
  <1>2. IsFiniteSet(B) /\ Cardinality(B) \in Nat
    <2>1. B \in SUBSET S
      BY DEF Below
    <2> QED
      BY <2>1, FS_Subset, FS_CardinalityType
  <1>3. IsFiniteSet(E) /\ Cardinality(E) = i - 1 /\ s[i] \notin E /\ i \in Nat /\ Cardinality(E) \in Nat
    <2>1. E \in SUBSET S
      BY DEF Earlier
    <2>2. Cardinality(S) \in Nat /\ Place(S, rank, s[i]) = i
      BY FS_CardinalityType DEF Lists
    <2>3. IsFiniteSet(E) /\ Cardinality(E) \in Nat /\ Cardinality(E) + 1 = i
      BY <2>1, <2>2, FS_Subset, FS_CardinalityType DEF Place
    <2>4. s[i] \notin E
      BY <1>1 DEF Earlier
    <2> QED
      BY <2>3, <2>4
  <1>4. CASE rank[s[i]] < q
    <2>1. E \cup {s[i]} \in SUBSET B
      <3>1. ASSUME NEW y \in E PROVE y \in B
        <4>1. y \in S /\ rank[y] \in Int /\ rank[y] <= rank[s[i]]
          BY <1>1 DEF Earlier
        <4> QED
          BY <1>1, <1>4, <4>1 DEF Below
      <3>2. s[i] \in B
        BY <1>1, <1>4 DEF Below
      <3> QED
        BY <3>1, <3>2
    <2>2. Cardinality(E \cup {s[i]}) = i
      <3> HIDE DEF E
      <3>1. Cardinality(E \cup {s[i]}) = Cardinality(E) + 1
        BY <1>3, FS_AddElement
      <3> QED
        BY <1>3, <3>1
    <2>3. i <= Cardinality(B)
      BY <1>2, <2>1, <2>2, FS_Subset
    <2> QED
      BY <1>4, <2>3
  <1>5. CASE ~(rank[s[i]] < q)
    <2>1. B \in SUBSET E
      <3>1. ASSUME NEW y \in B PROVE y \in E
        <4>1. y \in S /\ rank[y] \in Int /\ rank[y] < q
          BY DEF Below
        <4> QED
          BY <1>1, <1>5, <4>1 DEF Earlier
      <3> QED
        BY <3>1
    <2>2. Cardinality(B) <= Cardinality(E)
      BY <1>3, <2>1, FS_Subset
    <2>3. ~(i <= Cardinality(B))
      BY <1>2, <1>3, <2>2
    <2> QED
      BY <1>5, <2>3
  <1> QED
    BY <1>4, <1>5

\* The sums of sizes that SplitBy forms.
Begins(w, sizes, f) == [q \in 0 .. w |-> IF q = 0 THEN 0 ELSE f[q - 1] + sizes[q - 1]]

\* What belongs to rank q, and where its part of the list begins.
OfRank(S, rank, q) == {x \in S : rank[x] = q}
BeginsOf(w, sizes) == CHOOSE f : f = Begins(w, sizes, f)

\* The parts begin where the ranks below end.
LEMMA BeginsCount ==
  ASSUME NEW S, S \subseteq Int, IsFiniteSet(S), NEW w \in Nat \ {0}, NEW rank \in [S -> 0 .. (w - 1)], NEW sizes,
         \A q \in 0 .. (w - 1) : sizes[q] = Cardinality(OfRank(S, rank, q))
  PROVE  BeginsOf(w, sizes) = [q \in 0 .. w |-> Cardinality(Below(S, rank, q))]
  <1> DEFINE g == [q \in 0 .. w |-> Cardinality(Below(S, rank, q))]
  <1>1. \A q \in Int : Below(S, rank, q) \in SUBSET S /\ IsFiniteSet(Below(S, rank, q)) /\ Cardinality(Below(S, rank, q)) \in Nat
    <2>1. \A q \in Int : Below(S, rank, q) \in SUBSET S
      BY DEF Below
    <2> QED
      BY <2>1, FS_Subset, FS_CardinalityType
  <1>0. \A x \in S : rank[x] \in Int /\ 0 <= rank[x] /\ rank[x] < w
    <2> TAKE x \in S
    <2>1. rank[x] \in 0 .. (w - 1)
      OBVIOUS
    <2> QED
      BY <2>1
  <1>2. g[0] = 0
    <2>1. Below(S, rank, 0) = {}
      <3>1. \A x \in S : ~(rank[x] < 0)
        BY <1>0
      <3> QED
        BY <3>1, Zenon DEF Below
    <2>2. 0 \in 0 .. w
      OBVIOUS
    <2> QED
      BY <2>1, <2>2, FS_EmptySet
  <1>3. \A q \in 1 .. w : g[q] = g[q - 1] + sizes[q - 1]
    <2> TAKE q \in 1 .. w
    <2> DEFINE A == Below(S, rank, q - 1)
               C == OfRank(S, rank, q - 1)
    <2>1. q \in Int /\ q - 1 \in 0 .. (w - 1) /\ q - 1 \in 0 .. w /\ q \in 0 .. w
      OBVIOUS
    <2>2. IsFiniteSet(C) /\ IsFiniteSet(A) /\ Cardinality(A) \in Nat /\ Cardinality(C) \in Nat
      <3>1. C \in SUBSET S
        BY DEF OfRank
      <3>2. IsFiniteSet(A) /\ Cardinality(A) \in Nat
        <4>1. q - 1 \in Int
          BY <2>1
        <4> QED
          BY <1>1, <4>1
      <3> HIDE DEF A, C
      <3>3. IsFiniteSet(C) /\ Cardinality(C) \in Nat
        BY <3>1, FS_Subset, FS_CardinalityType
      <3> QED
        BY <3>2, <3>3
    <2>3. Below(S, rank, q) = A \cup C /\ A \cap C = {}
      <3>1. \A x \in S : rank[x] < q <=> rank[x] < q - 1 \/ rank[x] = q - 1
        BY <1>0, <2>1
      <3>2. \A x \in S : ~(rank[x] < q - 1 /\ rank[x] = q - 1)
        BY <1>0, <2>1
      <3> QED
        BY <3>1, <3>2, Zenon DEF Below, OfRank
    <2> HIDE DEF A, C
    <2>4. Cardinality(A \cup C) = Cardinality(A) + Cardinality(C) - Cardinality(A \cap C)
      BY <2>2, FS_Union
    <2>5. Cardinality(A \cap C) = 0
      BY <2>3, FS_EmptySet
    <2>6. Cardinality(Below(S, rank, q)) = Cardinality(A) + Cardinality(C)
      BY <2>2, <2>3, <2>4, <2>5
    <2>7. sizes[q - 1] = Cardinality(C)
      BY <2>1 DEF C
    <2> QED
      BY <2>1, <2>6, <2>7 DEF A
  <1>4. g = Begins(w, sizes, g)
    <2>1. g = [q \in 0 .. w |-> g[q]]
      OBVIOUS
    <2> HIDE DEF g
    <2>2. \A q \in 0 .. w : g[q] = IF q = 0 THEN 0 ELSE g[q - 1] + sizes[q - 1]
      <3> TAKE q \in 0 .. w
      <3>1. q # 0 => q \in 1 .. w
        OBVIOUS
      <3> QED
        BY <1>2, <1>3, <3>1
    <2>3. Begins(w, sizes, g) = [q \in 0 .. w |-> g[q]]
      BY <2>2 DEF Begins
    <2> QED
      BY <2>1, <2>3
  <1>5. ASSUME NEW f, f = Begins(w, sizes, f) PROVE f = g
    <2>1. f = [q \in 0 .. w |-> f[q]] /\ \A q \in 0 .. w : f[q] = IF q = 0 THEN 0 ELSE f[q - 1] + sizes[q - 1]
      BY <1>5 DEF Begins
    <2> HIDE DEF g
    <2>2. \A q \in 0 .. w : f[q] = g[q]
      <3> DEFINE wrong == {q \in 0 .. w : f[q] # g[q]}
      <3> SUFFICES ASSUME wrong # {} PROVE FALSE
        OBVIOUS
      <3>0. wrong \subseteq Nat
        OBVIOUS
      <3>1. PICK q \in wrong : \A m \in wrong : q <= m
        <4> HIDE DEF wrong
        <4> QED
          BY <3>0, LeastOf
      <3>2. q # 0
        BY <1>2, <2>1, <3>1
      <3>3. q \in 1 .. w /\ q - 1 \in 0 .. w /\ q - 1 \notin wrong /\ q \in 0 .. w
        BY <3>1, <3>2
      <3>4. f[q] = f[q - 1] + sizes[q - 1]
        BY <2>1, <3>2, <3>3
      <3>5. f[q - 1] = g[q - 1]
        BY <3>3
      <3> QED
        BY <1>3, <3>1, <3>3, <3>4, <3>5
    <2> QED
      BY <2>1, <2>2 DEF g
  <1> HIDE DEF g
  <1>6. (CHOOSE f : f = Begins(w, sizes, f)) = g
    BY <1>4, <1>5
  <1> QED
    BY <1>6, Zenon DEF g, BeginsOf

\* The part for rank q has nothing but members of rank q.
LEMMA PartsByRank ==
  ASSUME NEW S, S \subseteq Int, IsFiniteSet(S), NEW w \in Nat \ {0}, NEW rank \in [S -> 0 .. (w - 1)],
         NEW s, Lists(s, S, rank), NEW q \in 0 .. (w - 1)
  PROVE  SubSeq(s, Cardinality(Below(S, rank, q)) + 1, Cardinality(Below(S, rank, q + 1)))
           \in Seq(OfRank(S, rank, q))
  <1> DEFINE n == Cardinality(S)
             a == Cardinality(Below(S, rank, q))
             b == Cardinality(Below(S, rank, q + 1))
             T == {x \in S : rank[x] = q}
  <1>1. n \in Nat /\ a \in Nat /\ b \in Nat /\ a <= b /\ b <= n
    <2>1. Below(S, rank, q) \in SUBSET Below(S, rank, q + 1) /\ Below(S, rank, q + 1) \in SUBSET S
      <3>1. \A x \in S : rank[x] < q => rank[x] < q + 1
        <4> TAKE x \in S
        <4>1. rank[x] \in 0 .. (w - 1)
          OBVIOUS
        <4> QED
          BY <4>1
      <3> QED
        BY <3>1 DEF Below
    <2>2. IsFiniteSet(Below(S, rank, q + 1)) /\ b <= n
      BY <2>1, FS_Subset
    <2>3. IsFiniteSet(Below(S, rank, q)) /\ a <= b
      BY <2>1, <2>2, FS_Subset
    <2> QED
      BY <2>2, <2>3, FS_CardinalityType
  <1>2. rank \in [S -> Int] /\ q \in Int /\ q + 1 \in Int
    OBVIOUS
  <1>3. \A i \in 1 .. n : s[i] \in S /\ rank[s[i]] \in Int /\ (rank[s[i]] < q <=> i <= a) /\ (rank[s[i]] < q + 1 <=> i <= b)
    <2> TAKE i \in 1 .. n
    <2>1. s[i] \in S
      BY DEF Lists
    <2> QED
      BY <1>2, <2>1, BelowComeFirst
  <1>4. s \in Seq(S) /\ Len(s) = n
    <2>1. s \in [1 .. n -> S]
      BY DEF Lists
    <2> HIDE DEF n
    <2> QED
      BY <1>1, <2>1
  <1> HIDE DEF n, a, b
  <1>5. SubSeq(s, a + 1, b) = [j \in 1 .. (b - a) |-> s[a + j]]
    <2>1. a + 1 \in 1 .. Len(s) + 1 /\ b \in (a + 1) - 1 .. Len(s)
      BY <1>1, <1>4
    <2>2. SubSeq(s, a + 1, b) \in Seq(S) /\ Len(SubSeq(s, a + 1, b)) = b - a
          /\ \A j \in 1 .. (b - a) : SubSeq(s, a + 1, b)[j] = s[a + j]
      BY <1>1, <1>4, <2>1
    <2> DEFINE u == SubSeq(s, a + 1, b)
    <2> HIDE DEF u
    <2>3. u \in Seq(S) /\ Len(u) = b - a /\ \A j \in 1 .. (b - a) : u[j] = s[a + j]
      BY <2>2 DEF u
    <2>4. u = [j \in 1 .. (b - a) |-> s[a + j]]
      BY <2>3
    <2> QED
      BY <2>4 DEF u
  <1>6. \A j \in 1 .. (b - a) : s[a + j] \in T
    <2> TAKE j \in 1 .. (b - a)
    <2>1. a + j \in 1 .. n /\ ~(a + j <= a) /\ a + j <= b
      BY <1>1
    <2>2. s[a + j] \in S /\ rank[s[a + j]] \in Int /\ ~(rank[s[a + j]] < q) /\ rank[s[a + j]] < q + 1
      BY <1>3, <2>1
    <2> QED
      BY <2>2
  <1>7. [j \in 1 .. (b - a) |-> s[a + j]] \in Seq(T)
    <2> HIDE DEF T
    <2>1. b - a \in Nat
      BY <1>1
    <2> QED
      BY <1>6, <2>1
  <1> QED
    BY <1>5, <1>7 DEF a, b, OfRank

----------------------------------------------------------------------------
(* What the engine's operators yield.                                       *)

\* The sequences that FlattenSeq forms one after the other.
Unrolled(seqs, f) == [i \in 1 .. Len(seqs) |-> IF i = 1 THEN seqs[i] ELSE f[i - 1] \o seqs[i]]

\* FlattenSeq appends one sequence after the other.
LEMMA FlattenUnrolled ==
  ASSUME NEW S, NEW seqs \in Seq(Seq(S)), Len(seqs) > 0
  PROVE  \E f \in [1 .. Len(seqs) -> Seq(S)] : f = Unrolled(seqs, f) /\ FlattenSeq(seqs) = f[Len(seqs)]
  <1> DEFINE n == Len(seqs)
             Sol(m, f) == f \in [1 .. m -> Seq(S)]
                          /\ \A i \in 1 .. m : f[i] = IF i = 1 THEN seqs[i] ELSE f[i - 1] \o seqs[i]
             bad == {m \in 1 .. n : ~\E f : Sol(m, f)}
  <1>0. n \in Nat /\ n >= 1 /\ \A i \in 1 .. n : seqs[i] \in Seq(S)
    OBVIOUS
  <1>1. bad = {}
    <2> SUFFICES ASSUME bad # {} PROVE FALSE
      OBVIOUS
    <2>1. bad \subseteq Nat
      BY <1>0
    <2>2. PICK m \in bad : \A j \in bad : m <= j
      <3> HIDE DEF bad
      <3> QED
        BY <2>1, LeastOf
    <2>3. m \in 1 .. n /\ ~\E f : Sol(m, f)
      BY <2>2
    <2>4. CASE m = 1
      <3> DEFINE g == [i \in 1 .. 1 |-> seqs[1]]
      <3>1. Sol(1, g)
        BY <1>0
      <3> QED
        BY <2>3, <2>4, <3>1
    <2>5. CASE m # 1
      <3>1. m - 1 \in 1 .. n /\ m - 1 \notin bad
        <4>1. m - 1 \in 1 .. n /\ m \in Nat
          BY <1>0, <2>3, <2>5
        <4> HIDE DEF bad
        <4>2. m - 1 \notin bad
          BY <2>2, <4>1
        <4> QED
          BY <4>1, <4>2
      <3>2. PICK f : Sol(m - 1, f)
        BY <3>1
      <3> DEFINE g == [i \in 1 .. m |-> IF i = m THEN f[m - 1] \o seqs[m] ELSE f[i]]
      <3>3. f[m - 1] \in Seq(S) /\ seqs[m] \in Seq(S)
        BY <1>0, <2>3, <3>1, <3>2
      <3>4. f[m - 1] \o seqs[m] \in Seq(S)
        BY <3>3
      <3>5. \A i \in 1 .. m : i # m => i \in 1 .. m - 1 /\ f[i] \in Seq(S)
        BY <2>3, <3>2
      <3>6. g \in [1 .. m -> Seq(S)]
        BY <3>4, <3>5
      <3>7. \A i \in 1 .. m - 1 : g[i] = f[i]
        BY <2>3
      <3>8. \A i \in 1 .. m : g[i] = IF i = 1 THEN seqs[i] ELSE g[i - 1] \o seqs[i]
        <4> TAKE i \in 1 .. m
        <4>1. CASE i = m
          <5>1. m \in 1 .. m /\ m - 1 \in 1 .. m - 1
            BY <2>3, <2>5
          <5>2. g[m] = f[m - 1] \o seqs[m]
            BY <5>1
          <5> QED
            BY <2>5, <3>7, <4>1, <5>1, <5>2
        <4>2. CASE i # m
          <5>1. i \in 1 .. m - 1 /\ (i # 1 => i - 1 \in 1 .. m - 1)
            BY <2>3, <4>2
          <5>2. g[i] = f[i] /\ (i # 1 => g[i - 1] = f[i - 1])
            BY <3>7, <5>1
          <5>3. f[i] = IF i = 1 THEN seqs[i] ELSE f[i - 1] \o seqs[i]
            BY <3>2, <5>1
          <5> QED
            BY <5>2, <5>3
        <4> QED
          BY <4>1, <4>2
      <3>9. Sol(m, g)
        BY <3>6, <3>8
      <3> QED
        BY <2>3, <3>9
    <2> QED
      BY <2>4, <2>5
  <1>2. PICK f : Sol(n, f)
    <2> HIDE DEF Sol
    <2>1. n \in 1 .. n
      BY <1>0
    <2> QED
      BY <1>1, <2>1
  <1>3. f = Unrolled(seqs, f)
    BY <1>2 DEF Unrolled
  <1> DEFINE h == CHOOSE x : x = Unrolled(seqs, x)
  <1>4. h = Unrolled(seqs, h)
    BY <1>3
  <1>5. FlattenSeq(seqs) = h[n]
    BY <1>0 DEF FlattenSeq, Unrolled
  <1> HIDE DEF h
  <1>6. \A i \in 1 .. n : h[i] \in Seq(S)
    <2> DEFINE wrong == {i \in 1 .. n : h[i] \notin Seq(S)}
    <2> SUFFICES ASSUME wrong # {} PROVE FALSE
      OBVIOUS
    <2>1. wrong \subseteq Nat
      BY <1>0
    <2>2. PICK m \in wrong : \A j \in wrong : m <= j
      <3> HIDE DEF wrong
      <3> QED
        BY <2>1, LeastOf
    <2>3. h[m] = IF m = 1 THEN seqs[m] ELSE h[m - 1] \o seqs[m]
      BY <1>4, <2>2 DEF Unrolled
    <2>4. m # 1 => m - 1 \in 1 .. n /\ m - 1 \notin wrong
      BY <1>0, <2>2
    <2>5. m # 1 => h[m - 1] \in Seq(S)
      BY <2>4
    <2>6. seqs[m] \in Seq(S)
      BY <1>0, <2>2
    <2>7. h[m] \in Seq(S)
      BY <2>3, <2>5, <2>6
    <2> QED
      BY <2>2, <2>7
  <1>7. h \in [1 .. n -> Seq(S)]
    <2>1. h = [i \in 1 .. n |-> h[i]]
      BY <1>4 DEF Unrolled
    <2> QED
      BY <1>6, <2>1
  <1> QED
    BY <1>4, <1>5, <1>7

LEMMA EmptyIsSequence == \A S : <<>> \in Seq(S)
  OBVIOUS

\* Appended sequences hold nothing else.
LEMMA FlattenTyped ==
  ASSUME NEW S, NEW seqs \in Seq(Seq(S))
  PROVE  FlattenSeq(seqs) \in Seq(S)
  <1>1. CASE Len(seqs) > 0
    <2>1. PICK f \in [1 .. Len(seqs) -> Seq(S)] : FlattenSeq(seqs) = f[Len(seqs)]
      BY <1>1, FlattenUnrolled
    <2>2. Len(seqs) \in 1 .. Len(seqs)
      BY <1>1
    <2> QED
      BY <2>1, <2>2
  <1>2. CASE ~(Len(seqs) > 0)
    <2>1. Len(seqs) = 0 /\ seqs = <<>>
      BY <1>2
    <2>2. FlattenSeq(seqs) = seqs
      BY <2>1 DEF FlattenSeq
    <2>3. FlattenSeq(seqs) = <<>>
      BY <2>1, <2>2
    <2> QED
      BY <2>3, EmptyIsSequence
  <1> QED
    BY <1>1, <1>2

\* Numbers in their own order.
LEMMA InOrderLists ==
  ASSUME NEW S, S \subseteq Int, IsFiniteSet(S)
  PROVE  /\ Lists(InOrder(S, <), S, [x \in S |-> 0])
         /\ InOrder(S, <) \in Seq(S) /\ DOMAIN InOrder(S, <) = 1 .. Cardinality(S) /\ Cardinality(S) \in Nat
  <1> DEFINE rank == [x \in S |-> 0]
             s == InOrder(S, <)
  <1>1. \A x \in S : {y \in S : y < x} = Earlier(S, rank, x)
    BY DEF Earlier
  <1>2. rank \in [S -> Int]
    OBVIOUS
  <1>3. \A x \in S : Cardinality(Earlier(S, rank, x)) \in Nat
    <2>1. \A x \in S : Earlier(S, rank, x) \in SUBSET S
      BY DEF Earlier
    <2> QED
      BY <2>1, FS_Subset, FS_CardinalityType
  <1>4. Cardinality(S) \in Nat
    BY FS_CardinalityType
  <1> HIDE DEF rank
  <1>5. \A i \in 1 .. Cardinality(S) : \A x \in S : Cardinality({y \in S : y < x}) = i - 1 <=> Place(S, rank, x) = i
    <2> TAKE i \in 1 .. Cardinality(S)
    <2> TAKE x \in S
    <2>1. {y \in S : y < x} = Earlier(S, rank, x) /\ Cardinality(Earlier(S, rank, x)) \in Nat
      BY <1>1, <1>3
    <2> QED
      BY <1>4, <2>1 DEF Place
  <1>6. s = Listed(S, rank)
    <2>1. ASSUME NEW i \in 1 .. Cardinality(S)
          PROVE  (CHOOSE x \in S : Cardinality({y \in S : y < x}) = i - 1) = (CHOOSE x \in S : Place(S, rank, x) = i)
      <3>1. \A x \in S : Cardinality({y \in S : y < x}) = i - 1 <=> Place(S, rank, x) = i
        BY <1>5
      <3> QED
        BY <3>1, Zenon
    <2>2. s = [i \in 1 .. Cardinality(S) |-> CHOOSE x \in S : Cardinality({y \in S : y < x}) = i - 1]
      BY DEF InOrder
    <2>3. ASSUME NEW i \in 1 .. Cardinality(S) PROVE s[i] = Listed(S, rank)[i]
      <3>1. s[i] = CHOOSE x \in S : Cardinality({y \in S : y < x}) = i - 1
        BY <2>2, Zenon
      <3>2. Listed(S, rank)[i] = CHOOSE x \in S : Place(S, rank, x) = i
        BY Zenon DEF Listed
      <3> QED
        BY <2>1, <3>1, <3>2, Zenon
    <2>4. s = [i \in 1 .. Cardinality(S) |-> s[i]]
      BY <2>2
    <2>5. Listed(S, rank) = [i \in 1 .. Cardinality(S) |-> Listed(S, rank)[i]]
      BY DEF Listed
    <2> DEFINE t == Listed(S, rank)
    <2> HIDE DEF s, t
    <2> QED
      BY <2>3, <2>4, <2>5 DEF t
  <1>7. Lists(s, S, rank)
    BY <1>2, <1>6, ListedLists
  <1>8. s \in [1 .. Cardinality(S) -> S]
    BY <1>7 DEF Lists
  <1> HIDE DEF s
  <1>9. s \in Seq(S) /\ DOMAIN s = 1 .. Cardinality(S)
    BY <1>4, <1>8
  <1> QED
    BY <1>4, <1>7, <1>9 DEF s, rank

\* There is at least one feature.
ConfGood == conf \in Seq(ToSet(conf)) /\ conf # <<>>

\* Features are numbers.
LEMMA FeaturesNumbered ==
  ASSUME ConfGood
  PROVE  Features \subseteq Nat /\ IsFiniteSet(Features) /\ 1 \in Features
  <1>1. Len(conf) \in Nat /\ DOMAIN conf = 1 .. Len(conf) /\ Len(conf) # 0
    BY DEF ConfGood
  <1>2. IsFiniteSet(1 .. Len(conf))
    BY <1>1, FS_Interval
  <1> QED
    BY <1>1, <1>2 DEF Features

\* The number of a feature's child in its table.
LEMMA EncodeIndexFound ==
  ASSUME ConfGood, NEW f \in Features
  PROVE  EncodeIndex(f) \in Nat
  <1> DEFINE ht == HtName(f)
             F == Firsts(ht)
             D == {g \in Features : HtName(g) = ht /\ conf[g].shared = conf[f].shared}
  <1>1. F \subseteq Int /\ IsFiniteSet(F)
    <2>1. F \in SUBSET Features
      BY DEF Firsts
    <2> QED
      BY <2>1, FeaturesNumbered, FS_Subset
  <1>2. PICK m \in D : \A g \in D : m <= g
    <2>1. D \subseteq Nat /\ f \in D
      BY FeaturesNumbered
    <2> HIDE DEF D
    <2> QED
      BY <2>1, LeastOf
  <1>3. m \in F /\ conf[m].shared = conf[f].shared
    BY <1>2 DEF Firsts
  <1> DEFINE s == InOrder(F, <)
  <1>4. Lists(s, F, [x \in F |-> 0]) /\ DOMAIN s = 1 .. Cardinality(F) /\ Cardinality(F) \in Nat
    <2> HIDE DEF F
    <2> QED
      BY <1>1, InOrderLists
  <1>5. PICK i \in 1 .. Cardinality(F) : s[i] = m
    <2> HIDE DEF F, s
    <2> QED
      BY <1>3, <1>4 DEF Lists
  <1>6. Children(ht) = [j \in DOMAIN s |-> conf[s[j]].shared]
    BY DEF Children
  <1> HIDE DEF F, s, ht
  <1>7. i \in DOMAIN Children(ht) /\ Children(ht)[i] = conf[f].shared /\ DOMAIN Children(ht) = 1 .. Cardinality(F)
    BY <1>3, <1>4, <1>5, <1>6
  <1>8. EncodeIndex(f) = (CHOOSE j \in DOMAIN Children(ht) : Children(ht)[j] = conf[f].shared) - 1
    BY DEF EncodeIndex, ht
  <1>9. (CHOOSE j \in DOMAIN Children(ht) : Children(ht)[j] = conf[f].shared) \in 1 .. Cardinality(F)
    BY <1>7
  <1> QED
    BY <1>4, <1>8, <1>9

\* There is a group, and groups are lists of features.
GroupsGood ==
  /\ Len(groups) \in Nat \ {0} /\ DOMAIN groups = 1 .. Len(groups)
  /\ \A g \in 1 .. Len(groups) : groups[g] \in Seq(Features)

\* Part of a finite set of naturals.
LEMMA FiniteNumbers ==
  ASSUME NEW T, T \subseteq Nat, IsFiniteSet(T), NEW S, S \in SUBSET T
  PROVE  S \subseteq Int /\ IsFiniteSet(S)
  <1>1. IsFiniteSet(S)
    BY FS_Subset, Zenon
  <1>2. S \subseteq Int
    OBVIOUS
  <1> QED
    BY <1>1, <1>2

\* group_features() yields such groups, of whatever features a batch lists.
LEMMA GroupsAreGood ==
  ASSUME NEW o \in Seq(Features), o # <<>>, NEW made, made = Groups(o)
  PROVE  /\ Len(made) \in Nat \ {0} /\ DOMAIN made = 1 .. Len(made)
         /\ \A g \in 1 .. Len(made) : made[g] \in Seq(Features)
  <1> DEFINE first(S) == CHOOSE i \in S : \A j \in S : i <= j
             sameHt(i) == {j \in DOMAIN o : HtName(o[j]) = HtName(o[i])}
             sameRun(i) == {j \in DOMAIN o : RuntimeInfo(o[j]) = RuntimeInfo(o[i])}
             leaders == {i \in DOMAIN o : i = first(sameRun(i))}
             before(i, j) == \/ first(sameHt(i)) < first(sameHt(j))
                             \/ HtName(o[i]) = HtName(o[j]) /\ i < j
             ordered == InOrder(leaders, before)
             members(x) == InOrder(sameRun(ordered[x]), <)
             e(x) == [m \in DOMAIN members(x) |-> o[members(x)[m]]]
             n == Cardinality(leaders)
             D == DOMAIN o
  <1>0. /\ D = 1 .. Len(o) /\ Len(o) \in Nat /\ 1 \in D /\ D \subseteq Nat /\ IsFiniteSet(D)
        /\ \A i \in D : 1 <= i /\ o[i] \in Features
    <2>1. D = 1 .. Len(o) /\ Len(o) \in Nat /\ Len(o) # 0
      OBVIOUS
    <2>2. IsFiniteSet(1 .. Len(o))
      BY <2>1, FS_Interval
    <2> QED
      BY <2>1, <2>2
  <1>1. made = [x \in DOMAIN ordered |-> e(x)]
    BY DEF Groups
  <1>2. DOMAIN ordered = 1 .. n
    BY DEF InOrder
  <1>3. n \in Nat \ {0}
    <2>1. 1 \in leaders
      <3> DEFINE S == sameRun(1)
      <3>1. 1 \in S /\ S \subseteq Nat /\ \A i \in S : 1 <= i
        BY <1>0
      <3> HIDE DEF S
      <3>2. \E i \in S : \A j \in S : i <= j
        BY <3>1
      <3>3. first(S) \in S /\ \A j \in S : first(S) <= j
        BY <3>2
      <3> DEFINE m == first(S)
      <3>4. m \in S /\ m <= 1
        BY <3>1, <3>3
      <3> HIDE DEF m, first
      <3>5. m = 1
        BY <3>1, <3>4
      <3> QED
        BY <3>5, <1>0 DEF m, S
    <2>2. leaders \in SUBSET D
      OBVIOUS
    <2> HIDE DEF leaders, D
    <2>3. IsFiniteSet(leaders) /\ leaders # {}
      BY <2>1, <2>2, <1>0, FS_Subset
    <2> QED
      BY <2>3, FS_CardinalityType, FS_EmptySet
  <1>4. ASSUME NEW x \in 1 .. n PROVE e(x) \in Seq(Features)
    <2> HIDE DEF n, ordered
    <2> DEFINE S == sameRun(ordered[x])
    <2>1. members(x) = InOrder(S, <)
      OBVIOUS
    <2>2. S \in SUBSET D
      OBVIOUS
    <2> HIDE DEF S, sameRun, D
    <2>3. S \subseteq Int /\ IsFiniteSet(S)
      <3>1. S \in SUBSET D /\ D \subseteq Nat /\ IsFiniteSet(D)
        BY <2>2, <1>0
      <3> QED
        BY <3>1, FiniteNumbers, Zenon
    <2>4. InOrder(S, <) \in Seq(S)
      BY <2>3, InOrderLists
    <2> DEFINE mem == members(x)
    <2>5. mem \in Seq(S)
      BY <2>1, <2>4
    <2> HIDE DEF mem, members
    <2>6. Len(mem) \in Nat /\ DOMAIN mem = 1 .. Len(mem) /\ \A m \in 1 .. Len(mem) : o[mem[m]] \in Features
      <3>1. Len(mem) \in Nat /\ DOMAIN mem = 1 .. Len(mem) /\ \A m \in 1 .. Len(mem) : mem[m] \in S
        BY <2>5
      <3>2. \A i \in S : o[i] \in Features
        BY <2>2, <1>0
      <3> QED
        BY <3>1, <3>2
    <2>7. [m \in DOMAIN mem |-> o[mem[m]]] \in Seq(Features)
      BY <2>6
    <2> QED
      BY <2>7 DEF mem
  <1> HIDE DEF n, ordered, e
  <1>5. made = [x \in 1 .. n |-> e(x)]
    BY <1>1, <1>2
  <1>6. made \in Seq(Seq(Features)) /\ Len(made) = n /\ DOMAIN made = 1 .. n
    BY <1>3, <1>4, <1>5
  <1> QED
    BY <1>3, <1>4, <1>5, <1>6

\* Samples are lists of ids.
LoadGood == \A r \in Ranks : \A f \in Features : load[r][f] \in Seq(Seq(Int))

\* What a rank asks for are numbers.
LEMMA CoalescedIdsTyped ==
  ASSUME ConfGood, GroupsGood, LoadGood, NEW r \in Ranks, NEW g \in 1 .. Len(groups)
  PROVE  CoalescedIds(r, g) \in Seq(Int)
  <1> DEFINE ids(i) == FlattenSeq(load[r][groups[g][i]])
             e(i) == [j \in DOMAIN ids(i) |-> Encode(ids(i)[j], EncodeIndex(groups[g][i]))]
             seqs == [i \in DOMAIN groups[g] |-> e(i)]
  <1>1. CoalescedIds(r, g) = FlattenSeq(seqs)
    BY DEF CoalescedIds
  <1>2. groups[g] \in Seq(Features)
    BY DEF GroupsGood
  <1>3. ASSUME NEW i \in DOMAIN groups[g] PROVE e(i) \in Seq(Int)
    <2> DEFINE f == groups[g][i]
    <2>1. f \in Features
      BY <1>2
    <2> HIDE DEF f
    <2>2. EncodeIndex(f) \in Nat /\ load[r][f] \in Seq(Seq(Int))
      BY <2>1, EncodeIndexFound DEF LoadGood
    <2> DEFINE u == FlattenSeq(load[r][f])
               x == EncodeIndex(f)
    <2>3. u \in Seq(Int)
      BY <2>2, FlattenTyped
    <2> HIDE DEF u, x
    <2>4. \A z \in Int : Encode(z, x) \in Int
      <3> TAKE z \in Int
      <3>1. x \in Nat /\ IdBound \in Nat \ {0}
        BY <2>2, EngineAssumption DEF x
      <3>2. (z % IdBound) \in Int
        BY <3>1, DivisionFacts
      <3>3. x * IdBound \in Int
        BY <3>1
      <3> QED
        BY <3>2, <3>3 DEF Encode
    <2>5. [j \in DOMAIN u |-> Encode(u[j], x)] \in Seq(Int)
      <3>1. DOMAIN u = 1 .. Len(u) /\ Len(u) \in Nat /\ \A j \in 1 .. Len(u) : u[j] \in Int
        BY <2>3
      <3>2. \A j \in 1 .. Len(u) : Encode(u[j], x) \in Int
        BY <2>4, <3>1
      <3> QED
        BY <3>1, <3>2
    <2> QED
      BY <2>5 DEF u, x, f
  <1>4. seqs \in Seq(Seq(Int))
    <2>1. DOMAIN groups[g] = 1 .. Len(groups[g]) /\ Len(groups[g]) \in Nat
      BY <1>2
    <2> HIDE DEF e
    <2> QED
      BY <1>3, <2>1
  <1> HIDE DEF seqs
  <1> QED
    BY <1>1, <1>4, FlattenTyped

\* Ids that belong to rank q of w.
OwnedIds(w, q) == {x \in Int : Owner(Bucket(x), w, SliceSize) = q}

\* There is a bucket for every rank.
WorldGood == world \in 1 .. SliceSize

\* The owner of an id is one of the ranks.
LEMMA OwnerIsRank ==
  ASSUME WorldGood, NEW x \in Int
  PROVE  Bucket(x) \in 0 .. (SliceSize - 1) /\ Owner(Bucket(x), world, SliceSize) \in 0 .. (world - 1)
  <1>1. SliceSize \in Nat \ {0} /\ world \in Nat \ {0} /\ world <= SliceSize
    BY EngineAssumption DEF WorldGood
  <1>2. Bucket(x) \in 0 .. (SliceSize - 1)
    BY <1>1, DivisionFacts DEF Bucket
  <1>3. Owner(Bucket(x), world, SliceSize) \in 0 .. (world - 1)
    BY <1>1, <1>2, OwnersAgree
  <1> QED
    BY <1>2, <1>3

\* Every rank is sent ids that it owns.
LEMMA SentToOwners ==
  ASSUME WorldGood, NEW ids \in Seq(Int), NEW q \in Ranks
  PROVE  SplitBy(Partition(ids).unique, Partition(ids).parts)[q] \in Seq(OwnedIds(world, q))
  <1> DEFINE S == ToSet(ids)
             rank == [x \in S |-> Owner(Bucket(x), world, SliceSize)]
             unique == InOrder(S, LAMBDA x, y : rank[x] < rank[y] \/ (rank[x] = rank[y] /\ x < y))
             parts == [p \in Ranks |-> Cardinality({x \in S : rank[x] = p})]
  <1>1. Partition(ids).unique = unique /\ Partition(ids).parts = parts
    BY DEF Partition
  <1>2. S \subseteq Int /\ IsFiniteSet(S)
    <2>1. DOMAIN ids = 1 .. Len(ids) /\ Len(ids) \in Nat /\ \A i \in 1 .. Len(ids) : ids[i] \in Int
      OBVIOUS
    <2>2. ids \in Surjection(1 .. Len(ids), S)
      BY <2>1 DEF Surjection, ToSet
    <2>3. IsFiniteSet(1 .. Len(ids))
      BY <2>1, FS_Interval
    <2>4. IsFiniteSet(S)
      BY <2>2, <2>3, FS_Surjection
    <2> QED
      BY <2>1, <2>4 DEF ToSet
  <1>3. world \in Nat \ {0} /\ q \in 0 .. (world - 1) /\ Ranks = 0 .. (world - 1)
    BY EngineAssumption DEF WorldGood, Ranks
  <1> HIDE DEF S
  <1>4. rank \in [S -> 0 .. (world - 1)] /\ rank \in [S -> Int]
    <2>1. ASSUME NEW x \in S PROVE rank[x] \in 0 .. (world - 1) /\ rank[x] \in Int
      <3>1. x \in Int
        BY <1>2
      <3>2. Owner(Bucket(x), world, SliceSize) \in 0 .. (world - 1)
        BY <3>1, OwnerIsRank
      <3> QED
        BY <1>3, <3>2
    <2>2. rank = [x \in S |-> rank[x]]
      OBVIOUS
    <2> HIDE DEF rank
    <2> QED
      BY <2>1, <2>2
  <1> HIDE DEF rank
  <1>5. unique = Listed(S, rank)
    <2>1. ASSUME NEW i \in 1 .. Cardinality(S) PROVE unique[i] = Listed(S, rank)[i]
      <3>1. ASSUME NEW x \in S
            PROVE  Cardinality({y \in S : rank[y] < rank[x] \/ (rank[y] = rank[x] /\ y < x)}) = i - 1 <=> Place(S, rank, x) = i
        <4>1. {y \in S : rank[y] < rank[x] \/ (rank[y] = rank[x] /\ y < x)} = Earlier(S, rank, x)
          BY DEF Earlier
        <4>2. Earlier(S, rank, x) \in SUBSET S
          BY DEF Earlier
        <4>3. Cardinality(Earlier(S, rank, x)) \in Nat /\ Cardinality(S) \in Nat
          BY <1>2, <4>2, FS_Subset, FS_CardinalityType
        <4> DEFINE A == {y \in S : rank[y] < rank[x] \/ (rank[y] = rank[x] /\ y < x)}
        <4>4. A = Earlier(S, rank, x)
          BY <4>1
        <4> HIDE DEF A
        <4>5. Cardinality(A) = i - 1 <=> Cardinality(Earlier(S, rank, x)) + 1 = i
          BY <4>3, <4>4
        <4> QED
          BY <4>5 DEF Place, A
      <3>2. unique[i] = CHOOSE x \in S : Cardinality({y \in S : rank[y] < rank[x] \/ (rank[y] = rank[x] /\ y < x)}) = i - 1
        BY Zenon DEF InOrder
      <3>3. Listed(S, rank)[i] = CHOOSE x \in S : Place(S, rank, x) = i
        BY Zenon DEF Listed
      <3> QED
        BY <3>1, <3>2, <3>3, Zenon
    <2>4. unique = [i \in 1 .. Cardinality(S) |->
                     CHOOSE x \in S : Cardinality({y \in S : rank[y] < rank[x] \/ (rank[y] = rank[x] /\ y < x)}) = i - 1]
      BY Zenon DEF InOrder
    <2>2. unique = [i \in 1 .. Cardinality(S) |-> unique[i]]
      <3> DEFINE c(i) == CHOOSE x \in S : Cardinality({y \in S : rank[y] < rank[x] \/ (rank[y] = rank[x] /\ y < x)}) = i - 1
      <3>1. unique = [i \in 1 .. Cardinality(S) |-> c(i)]
        BY <2>4, Zenon
      <3> HIDE DEF unique, c
      <3> QED
        BY <3>1
    <2>3. Listed(S, rank) = [i \in 1 .. Cardinality(S) |-> Listed(S, rank)[i]]
      BY DEF Listed
    <2> DEFINE t == Listed(S, rank)
    <2> HIDE DEF unique, t
    <2> QED
      BY <2>1, <2>2, <2>3 DEF t
  <1> HIDE DEF unique
  <1>6. Lists(unique, S, rank)
    BY <1>2, <1>4, <1>5, ListedLists
  <1> DEFINE beg == BeginsOf(world, parts)
  <1>7. SplitBy(unique, parts)[q] = SubSeq(unique, beg[q] + 1, beg[q + 1])
    BY Zenon DEF SplitBy, Begins, BeginsOf
  <1>8. \A p \in 0 .. (world - 1) : parts[p] = Cardinality(OfRank(S, rank, p))
    BY <1>3 DEF OfRank
  <1> HIDE DEF parts
  <1>9. beg = [p \in 0 .. world |-> Cardinality(Below(S, rank, p))]
    BY ZenonT(60), <1>2, <1>3, <1>4, <1>8, BeginsCount
  <1>10. beg[q] = Cardinality(Below(S, rank, q)) /\ beg[q + 1] = Cardinality(Below(S, rank, q + 1))
    <2>1. q \in 0 .. world /\ q + 1 \in 0 .. world
      BY <1>3
    <2> HIDE DEF beg
    <2> QED
      BY <1>9, <2>1
  <1> HIDE DEF beg
  <1>11. SplitBy(unique, parts)[q] \in Seq(OfRank(S, rank, q))
    <2>1. SubSeq(unique, Cardinality(Below(S, rank, q)) + 1, Cardinality(Below(S, rank, q + 1))) \in Seq(OfRank(S, rank, q))
      BY <1>2, <1>3, <1>4, <1>6, PartsByRank
    <2> QED
      BY <1>7, <1>10, <2>1, Zenon
  <1>12. OfRank(S, rank, q) \subseteq OwnedIds(world, q)
    BY <1>2 DEF OwnedIds, OfRank, rank
  <1>13. \A s \in Seq(OfRank(S, rank, q)) : s \in Seq(OwnedIds(world, q))
    BY <1>12
  <1> QED
    BY <1>1, <1>11, <1>13

----------------------------------------------------------------------------
(* The collectives of a rank.                                               *)

\* The phases of a rank.
Phases == {"ids", "sizes", "lookup", "reduce", "backward", "accept", "done"}

\* What the groups are exchanged as, and which of them are trained.
Infos == [g \in 1 .. Len(groups) |-> RuntimeInfo(groups[g][1])]
TrainedGroups == {g \in 1 .. Len(groups) : conf[groups[g][1]].trainable}

\* Groups go backwards: how many trained ones come before group g.
TrainedBefore(T, g) == Cardinality({h \in T : h > g})

\* The n-th collective of a rank, with G groups, inf[g] the g-th, T the trained ones.
IsNth(G, inf, T, n, tag) ==
  \/ n \in 1 .. G /\ tag = <<"ids", inf[n]>>
  \/ n \in (G + 1) .. (2 * G) /\ tag = <<"embs", inf[n - G]>>
  \/ \E g \in T : n = 2 * G + TrainedBefore(T, g) + 1 /\ tag = <<"grads", inf[g]>>

\* How many collectives a rank has posted at group c of phase p.
HasPosted(G, T, p, c, n) ==
  /\ p = "ids" => n = c - 1
  /\ p = "sizes" => n = c
  /\ p = "lookup" => n = G + c - 1
  /\ p = "reduce" => n = 2 * G
  /\ p = "backward" => n = 2 * G + TrainedBefore(T, G + 1 - c)
  /\ p = "accept" => n = 2 * G + TrainedBefore(T, G + 1 - c) + 1 /\ G + 1 - c \in T

\* A rank at group c of phase p has posted s: the first Len(s) collectives.
RankGood(G, inf, T, p, c, s) ==
  /\ p \in Phases /\ c \in 1 .. G
  /\ s \in Seq(ToSet(s))
  /\ HasPosted(G, T, p, c, Len(s))
  /\ \A n \in 1 .. Len(s) : IsNth(G, inf, T, n, s[n].tag)

\* A sequence with one more element.
LEMMA AppendedIs ==
  ASSUME NEW s, s \in Seq(ToSet(s)), NEW x
  PROVE  /\ Append(s, x) \in Seq(ToSet(Append(s, x)))
         /\ Len(Append(s, x)) = Len(s) + 1 /\ Len(s) \in Nat
         /\ \A n \in 1 .. Len(s) : Append(s, x)[n] = s[n]
         /\ Append(s, x)[Len(s) + 1] = x
  <1> DEFINE S == ToSet(s) \cup {x}
             t == Append(s, x)
  <1>1. s \in Seq(S) /\ x \in S
    <2>1. ToSet(s) \subseteq S /\ x \in S
      OBVIOUS
    <2> HIDE DEF S
    <2> QED
      BY <2>1
  <1> HIDE DEF S
  <1>2. t \in Seq(S) /\ Len(t) = Len(s) + 1 /\ Len(s) \in Nat
        /\ (\A n \in 1 .. Len(s) : t[n] = s[n]) /\ t[Len(s) + 1] = x
    BY <1>1
  <1> HIDE DEF t
  <1>3. t \in Seq(ToSet(t))
    <2>1. DOMAIN t = 1 .. Len(t) /\ Len(t) \in Nat /\ t = [n \in 1 .. Len(t) |-> t[n]]
      BY <1>2
    <2>2. \A n \in 1 .. Len(t) : t[n] \in ToSet(t)
      BY <2>1 DEF ToSet
    <2> QED
      BY <2>1, <2>2
  <1> QED
    BY <1>2, <1>3 DEF t

\* One trained group after the other.
LEMMA TrainedCounted ==
  ASSUME NEW G \in Nat \ {0}, NEW T, T \subseteq 1 .. G
  PROVE  /\ \A g \in 0 .. G : TrainedBefore(T, g) \in Nat
         /\ TrainedBefore(T, G) = 0
         /\ \A g \in 1 .. G : TrainedBefore(T, g - 1) = TrainedBefore(T, g) + (IF g \in T THEN 1 ELSE 0)
  <1> DEFINE A(g) == {h \in T : h > g}
  <1>0. \A h \in T : h \in Int /\ 1 <= h /\ h <= G
    OBVIOUS
  <1>1. IsFiniteSet(T)
    <2>1. T \in SUBSET (1 .. G) /\ IsFiniteSet(1 .. G)
      BY FS_Interval
    <2> QED
      BY <2>1, FS_Subset
  <1>2. \A g \in 0 .. G : IsFiniteSet(A(g)) /\ Cardinality(A(g)) \in Nat
    <2> TAKE g \in 0 .. G
    <2>1. A(g) \in SUBSET T
      OBVIOUS
    <2> HIDE DEF A
    <2> QED
      BY <1>1, <2>1, FS_Subset, FS_CardinalityType
  <1>3. Cardinality(A(G)) = 0
    <2>1. A(G) = {}
      <3>1. \A h \in T : ~(h > G)
        BY <1>0
      <3> QED
        BY <3>1, Zenon
    <2> QED
      BY <2>1, FS_EmptySet
  <1>4. ASSUME NEW g \in 1 .. G PROVE Cardinality(A(g - 1)) = Cardinality(A(g)) + (IF g \in T THEN 1 ELSE 0)
    <2>1. \A h \in T : h > g - 1 <=> h > g \/ h = g
      BY <1>0
    <2>2. g \in 0 .. G /\ g \in Int /\ ~(g > g)
      OBVIOUS
    <2>3. CASE g \in T
      <3>1. A(g - 1) = A(g) \cup {g}
        BY <2>1, <2>3, Zenon
      <3>2. g \notin A(g)
        BY <2>2
      <3>3. IsFiniteSet(A(g)) /\ Cardinality(A(g)) \in Nat
        BY <1>2, <2>2
      <3> HIDE DEF A
      <3>4. Cardinality(A(g) \cup {g}) = Cardinality(A(g)) + 1
        BY <3>2, <3>3, FS_AddElement
      <3> QED
        BY <2>3, <3>1, <3>4
    <2>4. CASE g \notin T
      <3>1. A(g - 1) = A(g)
        BY <2>1, <2>4, Zenon
      <3>2. Cardinality(A(g)) \in Nat
        BY <1>2, <2>2
      <3> HIDE DEF A
      <3> QED
        BY <2>4, <3>1, <3>2
    <2> QED
      BY <2>3, <2>4
  <1>5. \A g : TrainedBefore(T, g) = Cardinality(A(g))
    BY DEF TrainedBefore
  <1> HIDE DEF A
  <1> QED
    BY <1>2, <1>3, <1>4, <1>5

\* Earlier trained groups have fewer before them.
LEMMA TrainedApart ==
  ASSUME NEW G \in Nat \ {0}, NEW T, T \subseteq 1 .. G, NEW g \in T, NEW h \in T,
         TrainedBefore(T, g) = TrainedBefore(T, h)
  PROVE  g = h
  <1>1. ASSUME NEW a \in T, NEW b \in T, a < b PROVE TrainedBefore(T, a) # TrainedBefore(T, b)
    <2> DEFINE A == {x \in T : x > a}
               B == {x \in T : x > b}
    <2>1. IsFiniteSet(A)
      <3>1. A \in SUBSET (1 .. G)
        OBVIOUS
      <3>2. IsFiniteSet(1 .. G)
        BY FS_Interval
      <3> HIDE DEF A
      <3> QED
        BY <3>1, <3>2, FS_Subset
    <2>2. a \in Int /\ b \in Int /\ \A x \in T : x \in Int
      OBVIOUS
    <2>3. B \in SUBSET A /\ b \in A /\ b \notin B
      <3>1. \A x \in T : x > b => x > a
        BY <1>1, <2>2
      <3>2. b > a /\ ~(b > b)
        BY <1>1, <2>2
      <3> QED
        BY <3>1, <3>2
    <2> HIDE DEF A, B
    <2>4. Cardinality(A) # Cardinality(B)
      BY <2>1, <2>3, FS_Subset
    <2> QED
      BY <2>4 DEF TrainedBefore, A, B
  <1>2. g \in Int /\ h \in Int
    OBVIOUS
  <1> QED
    BY <1>1, <1>2

\* There is one n-th collective.
LEMMA NthIsOne ==
  ASSUME NEW G \in Nat \ {0}, NEW T, T \subseteq 1 .. G, NEW inf, NEW n, NEW t, NEW u,
         IsNth(G, inf, T, n, t), IsNth(G, inf, T, n, u)
  PROVE  t = u
  <1>1. \A g \in T : TrainedBefore(T, g) \in Nat
    <2>1. \A g \in T : g \in 0 .. G
      OBVIOUS
    <2> QED
      BY <2>1, TrainedCounted
  <1>2. CASE n \in 1 .. G
    <2>1. n \notin (G + 1) .. (2 * G) /\ \A g \in T : n # 2 * G + TrainedBefore(T, g) + 1
      BY <1>1, <1>2
    <2> QED
      BY <2>1, Zenon DEF IsNth
  <1>3. CASE n \in (G + 1) .. (2 * G)
    <2>1. n \notin 1 .. G /\ \A g \in T : n # 2 * G + TrainedBefore(T, g) + 1
      BY <1>1, <1>3
    <2> QED
      BY <2>1, Zenon DEF IsNth
  <1>4. CASE n \notin 1 .. G /\ n \notin (G + 1) .. (2 * G)
    <2>1. PICK g \in T : n = 2 * G + TrainedBefore(T, g) + 1 /\ t = <<"grads", inf[g]>>
      BY <1>4, Zenon DEF IsNth
    <2>2. PICK h \in T : n = 2 * G + TrainedBefore(T, h) + 1 /\ u = <<"grads", inf[h]>>
      BY <1>4, Zenon DEF IsNth
    <2>3. TrainedBefore(T, g) = TrainedBefore(T, h)
      BY <1>1, <2>1, <2>2
    <2>4. g = h
      BY <2>3, TrainedApart
    <2> QED
      BY <2>1, <2>2, <2>4
  <1> QED
    BY <1>2, <1>3, <1>4

\* The group after group c, the first after the last.
NextOf(G, c) == IF c = G THEN 1 ELSE c + 1

\* A rank that posts nothing, and one that posts the next collective.
LEMMA RankStays ==
  ASSUME NEW G, NEW inf, NEW T, NEW p, NEW c, NEW s, RankGood(G, inf, T, p, c, s),
         NEW p2 \in Phases, NEW c2 \in 1 .. G, HasPosted(G, T, p2, c2, Len(s))
  PROVE  RankGood(G, inf, T, p2, c2, s)
  BY Zenon DEF RankGood

LEMMA RankPosts ==
  ASSUME NEW G, NEW inf, NEW T, NEW p, NEW c, NEW s, RankGood(G, inf, T, p, c, s),
         NEW p2 \in Phases, NEW c2 \in 1 .. G, NEW x,
         HasPosted(G, T, p2, c2, Len(s) + 1), IsNth(G, inf, T, Len(s) + 1, x.tag)
  PROVE  RankGood(G, inf, T, p2, c2, Append(s, x))
  <1> DEFINE t == Append(s, x)
  <1>1. s \in Seq(ToSet(s)) /\ \A n \in 1 .. Len(s) : IsNth(G, inf, T, n, s[n].tag)
    BY DEF RankGood
  <1>2. /\ t \in Seq(ToSet(t))
        /\ Len(t) = Len(s) + 1 /\ Len(s) \in Nat
        /\ \A n \in 1 .. Len(s) : t[n] = s[n]
        /\ t[Len(s) + 1] = x
    BY <1>1, AppendedIs
  <1> HIDE DEF t
  <1>3. ASSUME NEW n \in 1 .. Len(t) PROVE IsNth(G, inf, T, n, t[n].tag)
    <2>1. CASE n \in 1 .. Len(s)
      <3>1. t[n] = s[n] /\ IsNth(G, inf, T, n, s[n].tag)
        BY <1>1, <1>2, <2>1
      <3> QED
        BY <3>1, Zenon
    <2>2. CASE n \notin 1 .. Len(s)
      <3>1. n = Len(s) + 1
        BY <1>2, <2>2
      <3>2. t[n] = x
        BY <1>2, <3>1
      <3> QED
        BY <3>1, <3>2
    <2> QED
      BY <2>1, <2>2
  <1>4. HasPosted(G, T, p2, c2, Len(t))
    BY <1>2, Zenon
  <1>5. RankGood(G, inf, T, p2, c2, t)
    BY <1>2, <1>3, <1>4, Zenon DEF RankGood
  <1> QED
    BY <1>5 DEF t

\* The ids of a group are sent.
LEMMA IdsArePosted ==
  ASSUME NEW G \in Nat \ {0}, NEW inf, NEW T, NEW c, NEW s, NEW x,
         RankGood(G, inf, T, "ids", c, s), x.tag = <<"ids", inf[c]>>
  PROVE  RankGood(G, inf, T, "sizes", c, Append(s, x))
  <1>1. c \in 1 .. G /\ Len(s) = c - 1
    BY DEF RankGood, HasPosted
  <1>2. Len(s) + 1 = c
    BY <1>1
  <1>3. HasPosted(G, T, "sizes", c, Len(s) + 1)
    BY <1>2 DEF HasPosted
  <1>4. IsNth(G, inf, T, Len(s) + 1, x.tag)
    BY <1>1, <1>2 DEF IsNth
  <1> QED
    BY <1>1, <1>3, <1>4, RankPosts DEF Phases

\* What was sent has arrived.
LEMMA IdsAreRead ==
  ASSUME NEW G \in Nat \ {0}, NEW inf, NEW T, NEW c, NEW s, RankGood(G, inf, T, "sizes", c, s)
  PROVE  RankGood(G, inf, T, IF c = G THEN "lookup" ELSE "ids", NextOf(G, c), s)
  <1>1. c \in 1 .. G /\ Len(s) = c
    BY DEF RankGood, HasPosted
  <1>2. NextOf(G, c) \in 1 .. G
    BY <1>1 DEF NextOf
  <1>3. CASE c = G
    <2>1. HasPosted(G, T, "lookup", NextOf(G, c), Len(s))
      BY <1>1, <1>3 DEF HasPosted, NextOf
    <2> QED
      BY <1>2, <1>3, <2>1, RankStays DEF Phases
  <1>4. CASE c # G
    <2>1. HasPosted(G, T, "ids", NextOf(G, c), Len(s))
      BY <1>1, <1>4 DEF HasPosted, NextOf
    <2> QED
      BY <1>2, <1>4, <2>1, RankStays DEF Phases
  <1> QED
    BY <1>3, <1>4

\* The rows of a group are sent back.
LEMMA RowsArePosted ==
  ASSUME NEW G \in Nat \ {0}, NEW inf, NEW T, NEW c, NEW s, NEW x,
         RankGood(G, inf, T, "lookup", c, s), x.tag = <<"embs", inf[c]>>
  PROVE  RankGood(G, inf, T, IF c = G THEN "reduce" ELSE "lookup", NextOf(G, c), Append(s, x))
  <1>1. c \in 1 .. G /\ Len(s) = G + c - 1
    BY DEF RankGood, HasPosted
  <1>2. NextOf(G, c) \in 1 .. G
    BY <1>1 DEF NextOf
  <1>3. IsNth(G, inf, T, Len(s) + 1, x.tag)
    <2>1. Len(s) + 1 \in (G + 1) .. (2 * G) /\ Len(s) + 1 - G = c
      BY <1>1
    <2> QED
      BY <2>1 DEF IsNth
  <1>4. CASE c = G
    <2>1. HasPosted(G, T, "reduce", NextOf(G, c), Len(s) + 1)
      BY <1>1, <1>4 DEF HasPosted, NextOf
    <2> QED
      BY <1>2, <1>3, <1>4, <2>1, RankPosts DEF Phases
  <1>5. CASE c # G
    <2>1. HasPosted(G, T, "lookup", NextOf(G, c), Len(s) + 1)
      BY <1>1, <1>5 DEF HasPosted, NextOf
    <2> QED
      BY <1>2, <1>3, <1>5, <2>1, RankPosts DEF Phases
  <1> QED
    BY <1>4, <1>5

\* A group is reduced.
LEMMA GroupIsReduced ==
  ASSUME NEW G \in Nat \ {0}, NEW inf, NEW T, T \subseteq 1 .. G, NEW c, NEW s,
         RankGood(G, inf, T, "reduce", c, s), NEW next \in {"backward", "done"}
  PROVE  RankGood(G, inf, T, IF c = G THEN next ELSE "reduce", NextOf(G, c), s)
  <1>1. c \in 1 .. G /\ Len(s) = 2 * G
    BY DEF RankGood, HasPosted
  <1>2. NextOf(G, c) \in 1 .. G
    BY <1>1 DEF NextOf
  <1>3. CASE c = G
    <2>1. TrainedBefore(T, G) = 0
      BY TrainedCounted
    <2>2. NextOf(G, c) = 1 /\ G + 1 - 1 = G
      BY <1>3 DEF NextOf
    <2>3. HasPosted(G, T, next, 1, Len(s))
      BY <1>1, <2>1, <2>2 DEF HasPosted
    <2> QED
      BY <1>2, <1>3, <2>2, <2>3, RankStays DEF Phases
  <1>4. CASE c # G
    <2>1. HasPosted(G, T, "reduce", NextOf(G, c), Len(s))
      BY <1>1 DEF HasPosted
    <2> QED
      BY <1>2, <1>4, <2>1, RankStays DEF Phases
  <1> QED
    BY <1>3, <1>4

\* The gradients of a trained group are sent.
LEMMA GradsArePosted ==
  ASSUME NEW G \in Nat \ {0}, NEW inf, NEW T, T \subseteq 1 .. G, NEW c, NEW s, NEW x,
         RankGood(G, inf, T, "backward", c, s), G + 1 - c \in T, x.tag = <<"grads", inf[G + 1 - c]>>
  PROVE  RankGood(G, inf, T, "accept", c, Append(s, x))
  <1>1. c \in 1 .. G /\ Len(s) = 2 * G + TrainedBefore(T, G + 1 - c)
    BY DEF RankGood, HasPosted
  <1>2. Len(s) + 1 = 2 * G + TrainedBefore(T, G + 1 - c) + 1
    BY <1>1
  <1>3. HasPosted(G, T, "accept", c, Len(s) + 1)
    BY <1>2 DEF HasPosted
  <1>4. IsNth(G, inf, T, Len(s) + 1, x.tag)
    BY <1>2, Zenon DEF IsNth
  <1> QED
    BY <1>1, <1>3, <1>4, RankPosts DEF Phases

\* A group that is not trained is passed over, one that is was accepted.
LEMMA GroupIsBehind ==
  ASSUME NEW G \in Nat \ {0}, NEW inf, NEW T, T \subseteq 1 .. G, NEW c, NEW s, NEW p,
         RankGood(G, inf, T, p, c, s),
         (p = "backward" /\ G + 1 - c \notin T) \/ p = "accept"
  PROVE  RankGood(G, inf, T, IF c = G THEN "done" ELSE "backward", NextOf(G, c), s)
  <1> DEFINE g == G + 1 - c
  <1>1. c \in 1 .. G /\ HasPosted(G, T, p, c, Len(s))
    BY DEF RankGood
  <1>2. NextOf(G, c) \in 1 .. G
    BY <1>1 DEF NextOf
  <1>3. CASE c = G
    <2>1. HasPosted(G, T, "done", NextOf(G, c), Len(s))
      BY DEF HasPosted
    <2> QED
      BY <1>2, <1>3, <2>1, RankStays DEF Phases
  <1>4. CASE c # G
    <2>1. g \in 1 .. G /\ G + 1 - (c + 1) = g - 1 /\ NextOf(G, c) = c + 1
      BY <1>1, <1>4 DEF NextOf
    <2>2. TrainedBefore(T, g - 1) = TrainedBefore(T, g) + (IF g \in T THEN 1 ELSE 0) /\ TrainedBefore(T, g) \in Nat
      <3>1. g \in 0 .. G
        BY <2>1
      <3>2. /\ \A h \in 0 .. G : TrainedBefore(T, h) \in Nat
            /\ \A h \in 1 .. G : TrainedBefore(T, h - 1) = TrainedBefore(T, h) + (IF h \in T THEN 1 ELSE 0)
        BY TrainedCounted
      <3>3. g \in 1 .. G
        BY <2>1
      <3> HIDE DEF g
      <3> QED
        BY <3>1, <3>2, <3>3
    <2>3. Len(s) = 2 * G + TrainedBefore(T, g - 1)
      <3>1. CASE p = "backward" /\ g \notin T
        BY <1>1, <2>2, <3>1 DEF HasPosted
      <3>2. CASE p = "accept"
        BY <1>1, <2>2, <3>2 DEF HasPosted
      <3> QED
        BY <3>1, <3>2
    <2>4. HasPosted(G, T, "backward", c + 1, Len(s))
      BY <2>1, <2>3 DEF HasPosted
    <2> QED
      BY <1>2, <1>4, <2>1, <2>4, RankStays DEF Phases
  <1> QED
    BY <1>3, <1>4

----------------------------------------------------------------------------
(* The inductive invariant.                                                 *)

\* The ids a collective carries belong to the ranks they are sent to.
OwnedSent(w, s) ==
  \A n \in 1 .. Len(s) : s[n].tag[1] = "ids" => \A q \in 0 .. (w - 1) : s[n].to[q] \in Seq(OwnedIds(w, q))

\* So have all w ranks, and what they sent belongs to who it was sent to.
RanksGood(G, inf, T, w, P, K, S) ==
  /\ P = [r \in 0 .. (w - 1) |-> P[r]] /\ K = [r \in 0 .. (w - 1) |-> K[r]] /\ S = [r \in 0 .. (w - 1) |-> S[r]]
  /\ \A r \in 0 .. (w - 1) : RankGood(G, inf, T, P[r], K[r], S[r]) /\ OwnedSent(w, S[r])

\* Every rank is somewhere in the same sequence of collectives.
RanksInStep == RanksGood(Len(groups), Infos, TrainedGroups, world, pc, k, posts)

\* One rank moves, the others stay.
LEMMA OneRankMoves ==
  ASSUME NEW G, NEW inf, NEW T, NEW w, NEW P, NEW K, NEW S, RanksGood(G, inf, T, w, P, K, S),
         NEW r \in 0 .. (w - 1), NEW p, NEW c, NEW s, RankGood(G, inf, T, p, c, s), OwnedSent(w, s)
  PROVE  RanksGood(G, inf, T, w, [P EXCEPT ![r] = p], [K EXCEPT ![r] = c], [S EXCEPT ![r] = s])
  <1> DEFINE P2 == [P EXCEPT ![r] = p]
             K2 == [K EXCEPT ![r] = c]
             S2 == [S EXCEPT ![r] = s]
  <1>1. /\ P = [q \in 0 .. (w - 1) |-> P[q]] /\ K = [q \in 0 .. (w - 1) |-> K[q]] /\ S = [q \in 0 .. (w - 1) |-> S[q]]
        /\ \A q \in 0 .. (w - 1) : RankGood(G, inf, T, P[q], K[q], S[q]) /\ OwnedSent(w, S[q])
    BY Zenon DEF RanksGood
  <1>2. P2 = [q \in 0 .. (w - 1) |-> P2[q]] /\ K2 = [q \in 0 .. (w - 1) |-> K2[q]] /\ S2 = [q \in 0 .. (w - 1) |-> S2[q]]
    BY <1>1
  <1>3. P2[r] = p /\ K2[r] = c /\ S2[r] = s
    BY <1>1
  <1>4. \A q \in 0 .. (w - 1) : q # r => P2[q] = P[q] /\ K2[q] = K[q] /\ S2[q] = S[q]
    BY <1>1
  <1> HIDE DEF P2, K2, S2
  <1>5. ASSUME NEW q \in 0 .. (w - 1) PROVE RankGood(G, inf, T, P2[q], K2[q], S2[q]) /\ OwnedSent(w, S2[q])
    <2>1. CASE q = r
      BY <1>3, <2>1, Zenon
    <2>2. CASE q # r
      <3>1. P2[q] = P[q] /\ K2[q] = K[q] /\ S2[q] = S[q]
        BY <1>4, <2>2
      <3> QED
        BY <1>1, <3>1, Zenon
    <2> QED
      BY <2>1, <2>2
  <1>6. RanksGood(G, inf, T, w, P2, K2, S2)
    BY <1>2, <1>5, Zenon DEF RanksGood
  <1> QED
    BY <1>6 DEF P2, K2, S2

\* Groups are described by the options they are made of.
LEMMA OptionsStay ==
  ASSUME UNCHANGED <<conf, groups>>
  PROVE  /\ \A f : HtName(f)' = HtName(f)
         /\ Infos' = Infos /\ TrainedGroups' = TrainedGroups /\ GroupsGood' = GroupsGood
  <1>1. conf' = conf /\ groups' = groups
    OBVIOUS
  <1>2. Features' = Features
    BY <1>1 DEF Features
  <1>3. \A f : HtName(f)' = HtName(f)
    BY <1>1, <1>2 DEF HtName, CoalescedInfo, ChildTrainable
  <1>4. \A f : RuntimeInfo(f)' = RuntimeInfo(f)
    BY <1>1, <1>3 DEF RuntimeInfo
  <1>5. Infos' = Infos
    BY <1>1, <1>4 DEF Infos
  <1>6. TrainedGroups' = TrainedGroups
    BY <1>1 DEF TrainedGroups
  <1>7. GroupsGood' = GroupsGood
    BY <1>1, <1>2 DEF GroupsGood
  <1> QED
    BY <1>3, <1>5, <1>6, <1>7

\* The ranks after a step.
LEMMA RanksMove ==
  ASSUME UNCHANGED <<conf, groups, world>>, RanksGood(Len(groups), Infos, TrainedGroups, world, pc', k', posts')
  PROVE  RanksInStep'
  <1>1. Infos' = Infos /\ TrainedGroups' = TrainedGroups
    BY OptionsStay
  <1> QED
    BY <1>1 DEF RanksInStep

\* What a rank was asked for belongs to it.
IdsOwned ==
  /\ DOMAIN ex = Ranks
  /\ \A r \in Ranks : /\ DOMAIN ex[r] = 1 .. Len(groups)
                      /\ \A g \in 1 .. Len(groups) :
                           "ids" \in DOMAIN ex[r][g] /\ ex[r][g].ids \in Seq(OwnedIds(world, r))

\* What a rank stores belongs to it.
StoredWhereOwned ==
  /\ DOMAIN tables = Ranks
  /\ \A r \in Ranks : \A row \in tables[r] : row[2] \in OwnedIds(world, r)

\* The inductive invariant.
EngineInv ==
  /\ conf \in Configs /\ world \in Worlds
  /\ GroupsGood /\ LoadGood
  /\ RanksInStep /\ IdsOwned /\ StoredWhereOwned

\* What the constants are assumed to be.
LEMMA ConfigsAreGood ==
  ASSUME conf \in Configs
  PROVE  ConfGood
  BY EngineAssumption DEF ConfGood

LEMMA WorldsAreGood ==
  ASSUME world \in Worlds
  PROVE  WorldGood
  BY EngineAssumption DEF WorldGood

LEMMA TrainedAreGroups == TrainedGroups \subseteq 1 .. Len(groups)
  BY DEF TrainedGroups

\* What the invariant says of one rank.
LEMMA RankFacts ==
  ASSUME EngineInv, NEW r \in Ranks
  PROVE  /\ Len(groups) \in Nat \ {0} /\ k[r] \in 1 .. Len(groups)
         /\ RankGood(Len(groups), Infos, TrainedGroups, pc[r], k[r], posts[r])
         /\ OwnedSent(world, posts[r])
  <1>1. RankGood(Len(groups), Infos, TrainedGroups, pc[r], k[r], posts[r]) /\ OwnedSent(world, posts[r])
    <2>1. \A q \in Ranks : RankGood(Len(groups), Infos, TrainedGroups, pc[q], k[q], posts[q]) /\ OwnedSent(world, posts[q])
      BY Zenon DEF EngineInv, RanksInStep, RanksGood, Ranks
    <2> QED
      BY <2>1
  <1>2. Len(groups) \in Nat \ {0}
    BY DEF EngineInv, GroupsGood
  <1>3. k[r] \in 1 .. Len(groups)
    BY <1>1 DEF RankGood
  <1> QED
    BY <1>1, <1>2, <1>3

\* A step of one rank.
LEMMA StepOfRank ==
  ASSUME EngineInv, UNCHANGED <<conf, groups, world, load>>, NEW r \in Ranks, NEW p, NEW c, NEW s,
         RankGood(Len(groups), Infos, TrainedGroups, p, c, s), OwnedSent(world, s),
         pc' = [pc EXCEPT ![r] = p], k' = [k EXCEPT ![r] = c], posts' = [posts EXCEPT ![r] = s],
         IdsOwned', StoredWhereOwned'
  PROVE  EngineInv'
  <1>1. r \in 0 .. (world - 1) /\ RanksGood(Len(groups), Infos, TrainedGroups, world, pc, k, posts)
    BY DEF EngineInv, RanksInStep, Ranks
  <1>2. RanksGood(Len(groups), Infos, TrainedGroups, world, pc', k', posts')
    BY <1>1, OneRankMoves
  <1>3. RanksInStep'
    BY <1>2, RanksMove
  <1>4. GroupsGood'
    BY OptionsStay DEF EngineInv
  <1>5. LoadGood'
    BY DEF EngineInv, LoadGood, Ranks, Features
  <1> QED
    BY <1>3, <1>4, <1>5 DEF EngineInv

\* What does not change, as an update of one rank.
LEMMA RankUnchanged ==
  ASSUME EngineInv, NEW r \in Ranks
  PROVE  k = [k EXCEPT ![r] = k[r]] /\ posts = [posts EXCEPT ![r] = posts[r]]
  <1>1. /\ k = [q \in 0 .. (world - 1) |-> k[q]]
        /\ posts = [q \in 0 .. (world - 1) |-> posts[q]]
    BY Zenon DEF EngineInv, RanksInStep, RanksGood
  <1> DEFINE k2 == [k EXCEPT ![r] = k[r]]
             s2 == [posts EXCEPT ![r] = posts[r]]
  <1>2. k2 = [q \in 0 .. (world - 1) |-> k2[q]] /\ \A q \in 0 .. (world - 1) : k2[q] = k[q]
    BY <1>1
  <1>3. s2 = [q \in 0 .. (world - 1) |-> s2[q]] /\ \A q \in 0 .. (world - 1) : s2[q] = posts[q]
    BY <1>1
  <1> HIDE DEF k2, s2
  <1>4. k2 = k
    BY <1>1, <1>2
  <1>5. s2 = posts
    BY <1>1, <1>3
  <1> QED
    BY <1>4, <1>5 DEF k2, s2

\* Nothing stored, nothing received.
LEMMA TablesStay ==
  ASSUME EngineInv, UNCHANGED <<world, tables>>
  PROVE  StoredWhereOwned'
  BY DEF EngineInv, StoredWhereOwned, Ranks

LEMMA ExStays ==
  ASSUME EngineInv, UNCHANGED <<groups, world, ex>>
  PROVE  IdsOwned'
  BY DEF EngineInv, IdsOwned, Ranks

\* A rank changes what it holds of one group.
LEMMA ExMoves ==
  ASSUME EngineInv, UNCHANGED <<groups, world>>, NEW r \in Ranks, NEW g \in 1 .. Len(groups), NEW e,
         "ids" \in DOMAIN e, e.ids \in Seq(OwnedIds(world, r)),
         ex' = [ex EXCEPT ![r] = [ex[r] EXCEPT ![g] = e]]
  PROVE  IdsOwned'
  <1>1. IdsOwned /\ Ranks' = Ranks
    BY DEF EngineInv, Ranks
  <1>2. DOMAIN ex' = Ranks
    BY <1>1 DEF IdsOwned
  <1>3. ASSUME NEW q \in Ranks
        PROVE  DOMAIN ex'[q] = 1 .. Len(groups)
               /\ \A h \in 1 .. Len(groups) : "ids" \in DOMAIN ex'[q][h] /\ ex'[q][h].ids \in Seq(OwnedIds(world, q))
    <2>1. DOMAIN ex[q] = 1 .. Len(groups)
          /\ \A h \in 1 .. Len(groups) : "ids" \in DOMAIN ex[q][h] /\ ex[q][h].ids \in Seq(OwnedIds(world, q))
      BY <1>1 DEF IdsOwned
    <2>2. CASE q = r
      <3>1. ex'[q] = [ex[q] EXCEPT ![g] = e]
        BY <1>1, <2>2 DEF IdsOwned
      <3> QED
        BY <2>1, <2>2, <3>1
    <2>3. CASE q # r
      <3>1. ex'[q] = ex[q]
        BY <1>1, <2>3 DEF IdsOwned
      <3> QED
        BY <2>1, <3>1
    <2> QED
      BY <2>2, <2>3
  <1> QED
    BY <1>1, <1>2, <1>3 DEF IdsOwned

\* A collective is tagged with its group.
LEMMA InfoOfGroup ==
  ASSUME NEW g \in 1 .. Len(groups)
  PROVE  RuntimeInfo(groups[g][1]) = Infos[g]
  BY DEF Infos

\* One more collective.
LEMMA OwnedAppended ==
  ASSUME NEW s, s \in Seq(ToSet(s)), NEW w, OwnedSent(w, s), NEW x,
         x.tag[1] = "ids" => \A q \in 0 .. (w - 1) : x.to[q] \in Seq(OwnedIds(w, q))
  PROVE  OwnedSent(w, Append(s, x))
  <1> DEFINE t == Append(s, x)
  <1>1. /\ Len(t) = Len(s) + 1 /\ Len(s) \in Nat
        /\ \A n \in 1 .. Len(s) : t[n] = s[n]
        /\ t[Len(s) + 1] = x
    BY AppendedIs
  <1> HIDE DEF t
  <1>2. ASSUME NEW n \in 1 .. Len(t), t[n].tag[1] = "ids", NEW q \in 0 .. (w - 1)
        PROVE  t[n].to[q] \in Seq(OwnedIds(w, q))
    <2>1. CASE n \in 1 .. Len(s)
      <3>1. t[n] = s[n]
        BY <1>1, <2>1
      <3> QED
        BY <1>2, <2>1, <3>1 DEF OwnedSent
    <2>2. CASE n \notin 1 .. Len(s)
      <3>1. n = Len(s) + 1
        BY <1>1, <2>2
      <3>2. t[n] = x
        BY <1>1, <3>1
      <3> QED
        BY <1>2, <3>2
    <2> QED
      BY <2>1, <2>2
  <1>3. OwnedSent(w, t)
    BY <1>2 DEF OwnedSent
  <1> QED
    BY <1>3 DEF t

----------------------------------------------------------------------------
(* Every action of a rank, and every restart.                               *)

\* Where Goto leaves a rank.
LEMMA GotoMoves ==
  ASSUME NEW r \in Ranks, NEW phase, NEW next, Goto(r, phase, next)
  PROVE  /\ pc' = [pc EXCEPT ![r] = IF k[r] = Len(groups) THEN next ELSE phase]
         /\ k' = [k EXCEPT ![r] = NextOf(Len(groups), k[r])]
  BY DEF Goto, LastGroup, NextOf

\* Each action keeps the invariant. The ids of a group are sent to their owners.
LEMMA ExchangeIdsKeeps ==
  ASSUME EngineInv, NEW r \in Ranks, ExchangeIds(r)
  PROVE  EngineInv'
  <1> DEFINE g == k[r]
             sent == Partition(CoalescedIds(r, g))
             to == SplitBy(sent.unique, sent.parts)
             x == [tag |-> <<"ids", RuntimeInfo(groups[g][1])>>, to |-> to]
  <1>1. /\ pc[r] = "ids"
        /\ posts' = [posts EXCEPT ![r] = Append(posts[r], x)]
        /\ pc' = [pc EXCEPT ![r] = "sizes"]
        /\ ex' = [ex EXCEPT ![r] = [ex[r] EXCEPT ![g] = [ex[r][g] EXCEPT !.sent = sent]]]
        /\ UNCHANGED <<conf, groups, world, load, tables, k>>
    BY DEF ExchangeIds, Post
  <1>2. g \in 1 .. Len(groups) /\ Len(groups) \in Nat \ {0}
        /\ RankGood(Len(groups), Infos, TrainedGroups, "ids", g, posts[r]) /\ OwnedSent(world, posts[r])
    BY <1>1, RankFacts
  <1>3. \A q \in Ranks : to[q] \in Seq(OwnedIds(world, q))
    <2>1. ConfGood /\ WorldGood /\ GroupsGood /\ LoadGood
      BY ConfigsAreGood, WorldsAreGood DEF EngineInv
    <2>2. CoalescedIds(r, g) \in Seq(Int)
      BY <1>2, <2>1, CoalescedIdsTyped
    <2> QED
      BY <2>1, <2>2, SentToOwners
  <1> HIDE DEF to, sent
  <1>4. x.tag = <<"ids", Infos[g]>> /\ x.to = to
    BY <1>2, InfoOfGroup
  <1>5. RankGood(Len(groups), Infos, TrainedGroups, "sizes", g, Append(posts[r], x))
    <2> HIDE DEF x
    <2> QED
      BY <1>2, <1>4, IdsArePosted
  <1>6. OwnedSent(world, Append(posts[r], x))
    <2>1. posts[r] \in Seq(ToSet(posts[r]))
      BY <1>2 DEF RankGood
    <2>2. \A q \in 0 .. (world - 1) : x.to[q] \in Seq(OwnedIds(world, q))
      BY <1>3, <1>4 DEF Ranks
    <2> HIDE DEF x
    <2> QED
      BY <1>2, <2>1, <2>2, OwnedAppended
  <1>7. IdsOwned'
    <2> DEFINE e == [ex[r][g] EXCEPT !.sent = sent]
    <2>1. "ids" \in DOMAIN ex[r][g] /\ ex[r][g].ids \in Seq(OwnedIds(world, r))
      BY <1>2 DEF EngineInv, IdsOwned
    <2>2. "ids" \in DOMAIN e /\ e.ids = ex[r][g].ids
      BY <2>1
    <2>3. ex' = [ex EXCEPT ![r] = [ex[r] EXCEPT ![g] = e]]
      BY <1>1
    <2> HIDE DEF e
    <2> QED
      BY <1>1, <1>2, <2>1, <2>2, <2>3, ExMoves
  <1>8. StoredWhereOwned'
    BY <1>1, TablesStay
  <1>9. k' = [k EXCEPT ![r] = g]
    BY <1>1, RankUnchanged
  <1> HIDE DEF x
  <1> QED
    BY <1>1, <1>5, <1>6, <1>7, <1>8, <1>9, StepOfRank

\* All ranks post the ids of the same group at one place.
LEMMA ExchangeSizesKeeps ==
  ASSUME EngineInv, NEW r \in Ranks, ExchangeSizes(r)
  PROVE  EngineInv'
  <1> DEFINE g == k[r]
             n == Len(posts[r])
             got == Received(r, n)
             from == Joined([q \in Ranks |-> [i \in DOMAIN got[q] |-> q]])
             e == [[ex[r][g] EXCEPT !.ids = Joined(got)] EXCEPT !.from = from]
  <1>1. /\ pc[r] = "sizes" /\ Posted(n)
        /\ Goto(r, "ids", "lookup")
        /\ UNCHANGED <<conf, groups, world, load, tables, posts>>
    BY DEF ExchangeSizes
  <1>2. g \in 1 .. Len(groups) /\ Len(groups) \in Nat \ {0}
        /\ RankGood(Len(groups), Infos, TrainedGroups, "sizes", g, posts[r]) /\ OwnedSent(world, posts[r])
    BY <1>1, RankFacts
  <1>3. n \in 1 .. Len(groups)
    BY <1>2 DEF RankGood, HasPosted
  <1>4. \A q \in Ranks : posts[q][n].to[r] \in Seq(OwnedIds(world, r))
    <2> TAKE q \in Ranks
    <2>1. RankGood(Len(groups), Infos, TrainedGroups, pc[q], k[q], posts[q]) /\ OwnedSent(world, posts[q])
      BY RankFacts
    <2>2. n \in 1 .. Len(posts[q])
      <3>1. Len(posts[q]) >= n
        BY <1>1 DEF Posted
      <3>2. posts[q] \in Seq(ToSet(posts[q]))
        BY <2>1 DEF RankGood
      <3>3. Len(posts[q]) \in Nat
        BY <3>2
      <3> QED
        BY <1>3, <3>1, <3>3
    <2>3. IsNth(Len(groups), Infos, TrainedGroups, n, posts[q][n].tag)
      BY <2>1, <2>2 DEF RankGood
    <2>4. IsNth(Len(groups), Infos, TrainedGroups, n, <<"ids", Infos[n]>>)
      BY <1>3 DEF IsNth
    <2>5. posts[q][n].tag = <<"ids", Infos[n]>>
      BY <1>2, <2>3, <2>4, TrainedAreGroups, NthIsOne
    <2>6. posts[q][n].tag[1] = "ids"
      BY <2>5
    <2>7. r \in 0 .. (world - 1)
      BY DEF Ranks
    <2> QED
      BY <2>1, <2>2, <2>6, <2>7 DEF OwnedSent
  <1>5. Joined(got) \in Seq(OwnedIds(world, r))
    <2> DEFINE parts == [i \in 1 .. world |-> got[i - 1]]
    <2>1. world \in Nat
      BY WorldsAreGood, EngineAssumption DEF EngineInv, WorldGood
    <2>2. \A i \in 1 .. world : i - 1 \in Ranks
      BY <2>1 DEF Ranks
    <2>3. \A i \in 1 .. world : got[i - 1] \in Seq(OwnedIds(world, r))
      BY <1>4, <2>2 DEF Received
    <2> HIDE DEF got
    <2>4. parts \in Seq(Seq(OwnedIds(world, r)))
      BY <2>1, <2>3
    <2> HIDE DEF parts
    <2>5. FlattenSeq(parts) \in Seq(OwnedIds(world, r))
      BY <2>4, FlattenTyped
    <2> QED
      BY <2>5 DEF Joined, parts
  <1>6. ex' = [ex EXCEPT ![r] = [ex[r] EXCEPT ![g] = e]]
    <2>1. ex' = [ex EXCEPT ![r][g].ids = Joined(got), ![r][g].from = from]
      BY DEF ExchangeSizes
    <2> HIDE DEF got, from
    <2>2. DOMAIN ex = Ranks /\ DOMAIN ex[r] = 1 .. Len(groups)
      BY DEF EngineInv, IdsOwned
    <2> QED
      BY <1>2, <2>1, <2>2
  <1> HIDE DEF got, from
  <1>7. IdsOwned'
    <2>1. "ids" \in DOMAIN ex[r][g]
      BY <1>2 DEF EngineInv, IdsOwned
    <2>2. "ids" \in DOMAIN e /\ e.ids = Joined(got)
      BY <2>1
    <2> HIDE DEF e
    <2> QED
      BY <1>1, <1>2, <1>5, <1>6, <2>2, ExMoves
  <1>8. StoredWhereOwned'
    BY <1>1, TablesStay
  <1>9. RankGood(Len(groups), Infos, TrainedGroups, IF g = Len(groups) THEN "lookup" ELSE "ids", NextOf(Len(groups), g), posts[r])
    BY <1>2, IdsAreRead
  <1>10. /\ pc' = [pc EXCEPT ![r] = IF g = Len(groups) THEN "lookup" ELSE "ids"]
         /\ k' = [k EXCEPT ![r] = NextOf(Len(groups), g)]
    BY <1>1, GotoMoves
  <1>11. posts' = [posts EXCEPT ![r] = posts[r]]
    BY <1>1, RankUnchanged
  <1> QED
    BY <1>1, <1>2, <1>7, <1>8, <1>9, <1>10, <1>11, StepOfRank

\* Rows are stored for received ids, and sent back.
LEMMA LookupExchangeKeeps ==
  ASSUME EngineInv, NEW r \in Ranks, LookupExchange(r)
  PROVE  EngineInv'
  <1> DEFINE g == k[r]
             ht == HtName(groups[g][1])
             ids == ex[r][g].ids
             rows == IF Inserts(g) THEN tables[r] \cup {<<ht, id>> : id \in ToSet(ids)} ELSE tables[r]
             found == [i \in DOMAIN ids |-> IF <<ht, ids[i]>> \in rows THEN RowName(ht, ids[i]) ELSE Zero]
             back == [q \in Ranks |-> Len(SelectSeq(ex[r][g].from, LAMBDA s : s = q))]
             x == [tag |-> <<"embs", RuntimeInfo(groups[g][1])>>, to |-> SplitBy(found, back)]
             e == [ex[r][g] EXCEPT !.embs = Len(posts[r]) + 1]
  <1>1. /\ pc[r] = "lookup"
        /\ tables' = [tables EXCEPT ![r] = rows]
        /\ posts' = [posts EXCEPT ![r] = Append(posts[r], x)]
        /\ ex' = [ex EXCEPT ![r] = [ex[r] EXCEPT ![g] = e]]
        /\ Goto(r, "lookup", "reduce")
        /\ UNCHANGED <<conf, groups, world, load>>
    BY DEF LookupExchange, Post
  <1>2. g \in 1 .. Len(groups) /\ Len(groups) \in Nat \ {0}
        /\ RankGood(Len(groups), Infos, TrainedGroups, "lookup", g, posts[r]) /\ OwnedSent(world, posts[r])
    BY <1>1, RankFacts
  <1> HIDE DEF found, back
  <1>3. x.tag = <<"embs", Infos[g]>>
    BY <1>2, InfoOfGroup
  <1>4. x.tag[1] # "ids"
    BY <1>3
  <1> HIDE DEF x
  <1>5. RankGood(Len(groups), Infos, TrainedGroups, IF g = Len(groups) THEN "reduce" ELSE "lookup",
                 NextOf(Len(groups), g), Append(posts[r], x))
    BY <1>2, <1>3, RowsArePosted
  <1>6. OwnedSent(world, Append(posts[r], x))
    <2>1. posts[r] \in Seq(ToSet(posts[r]))
      BY <1>2 DEF RankGood
    <2> QED
      BY <1>2, <1>4, <2>1, OwnedAppended
  <1>7. ids \in Seq(OwnedIds(world, r)) /\ "ids" \in DOMAIN ex[r][g]
    BY <1>2 DEF EngineInv, IdsOwned
  <1>8. IdsOwned'
    <2>1. "ids" \in DOMAIN e /\ e.ids = ids
      BY <1>7
    <2> HIDE DEF e
    <2> QED
      BY <1>1, <1>2, <1>7, <2>1, ExMoves
  <1>9. StoredWhereOwned'
    <2>1. DOMAIN tables = Ranks /\ Ranks' = Ranks /\ \A q \in Ranks : \A row \in tables[q] : row[2] \in OwnedIds(world, q)
      BY <1>1 DEF EngineInv, StoredWhereOwned, Ranks
    <2>2. \A row \in rows : row[2] \in OwnedIds(world, r)
      <3>1. \A id \in ToSet(ids) : id \in OwnedIds(world, r)
        BY <1>7 DEF ToSet
      <3>2. \A id \in ToSet(ids) : <<ht, id>>[2] = id
        OBVIOUS
      <3> HIDE DEF ids, ht
      <3> QED
        BY <2>1, <3>1, <3>2
    <2> HIDE DEF rows
    <2>3. DOMAIN tables' = Ranks /\ \A q \in Ranks : \A row \in tables'[q] : row[2] \in OwnedIds(world, q)
      BY <1>1, <2>1, <2>2
    <2> QED
      BY <1>1, <2>1, <2>3 DEF StoredWhereOwned
  <1>10. /\ pc' = [pc EXCEPT ![r] = IF g = Len(groups) THEN "reduce" ELSE "lookup"]
         /\ k' = [k EXCEPT ![r] = NextOf(Len(groups), g)]
    BY <1>1, GotoMoves
  <1> QED
    BY <1>1, <1>5, <1>6, <1>8, <1>9, <1>10, StepOfRank

\* The rows of a group are reduced.
LEMMA ReduceKeeps ==
  ASSUME EngineInv, NEW r \in Ranks, Reduce(r)
  PROVE  EngineInv'
  <1> DEFINE g == k[r]
             next == IF step = 1 THEN "backward" ELSE "done"
  <1>1. /\ pc[r] = "reduce" /\ Goto(r, "reduce", next)
        /\ UNCHANGED <<conf, groups, world, load, tables, posts, ex>>
    BY Zenon DEF Reduce
  <1>2. g \in 1 .. Len(groups) /\ Len(groups) \in Nat \ {0}
        /\ RankGood(Len(groups), Infos, TrainedGroups, "reduce", g, posts[r]) /\ OwnedSent(world, posts[r])
    BY <1>1, RankFacts
  <1>3. next \in {"backward", "done"}
    OBVIOUS
  <1> HIDE DEF next
  <1>4. RankGood(Len(groups), Infos, TrainedGroups, IF g = Len(groups) THEN next ELSE "reduce", NextOf(Len(groups), g), posts[r])
    BY <1>2, <1>3, TrainedAreGroups, GroupIsReduced
  <1>5. IdsOwned' /\ StoredWhereOwned'
    BY <1>1, ExStays, TablesStay
  <1>6. /\ pc' = [pc EXCEPT ![r] = IF g = Len(groups) THEN next ELSE "reduce"]
        /\ k' = [k EXCEPT ![r] = NextOf(Len(groups), g)]
    BY <1>1, GotoMoves
  <1>7. posts' = [posts EXCEPT ![r] = posts[r]]
    BY <1>1, RankUnchanged
  <1> QED
    BY <1>1, <1>2, <1>4, <1>5, <1>6, <1>7, StepOfRank, Zenon

\* Groups go backwards.
LEMMA BackwardsIs ==
  ASSUME EngineInv, NEW r \in Ranks
  PROVE  /\ Backwards(r) = Len(groups) + 1 - k[r] /\ Backwards(r) \in 1 .. Len(groups)
         /\ conf[groups[Backwards(r)][1]].trainable <=> Backwards(r) \in TrainedGroups
  <1>1. Len(groups) \in Nat \ {0} /\ k[r] \in 1 .. Len(groups)
    BY RankFacts
  <1>2. Backwards(r) = Len(groups) + 1 - k[r] /\ Backwards(r) \in 1 .. Len(groups)
    BY <1>1 DEF Backwards
  <1> QED
    BY <1>2 DEF TrainedGroups

\* Gradients of a trained group are sent, others passed over.
LEMMA ExchangeGradsKeeps ==
  ASSUME EngineInv, NEW r \in Ranks, ExchangeGrads(r)
  PROVE  EngineInv'
  <1> DEFINE c == k[r]
             g == Backwards(r)
             x == [tag |-> <<"grads", RuntimeInfo(groups[g][1])>>, to |-> SplitBy(UniqueGrads(r, g), ex[r][g].sent.parts)]
  <1>1. /\ pc[r] = "backward"
        /\ IF conf[groups[g][1]].trainable
             THEN /\ posts' = [posts EXCEPT ![r] = Append(posts[r], x)]
                  /\ pc' = [pc EXCEPT ![r] = "accept"] /\ UNCHANGED k
             ELSE Goto(r, "backward", "done") /\ UNCHANGED posts
        /\ UNCHANGED <<conf, groups, world, load, tables, ex>>
    BY DEF ExchangeGrads, Post
  <1>2. c \in 1 .. Len(groups) /\ Len(groups) \in Nat \ {0}
        /\ RankGood(Len(groups), Infos, TrainedGroups, "backward", c, posts[r]) /\ OwnedSent(world, posts[r])
    BY <1>1, RankFacts
  <1>3. g = Len(groups) + 1 - c /\ g \in 1 .. Len(groups)
        /\ (conf[groups[g][1]].trainable <=> g \in TrainedGroups)
    BY BackwardsIs
  <1>4. IdsOwned' /\ StoredWhereOwned'
    BY <1>1, ExStays, TablesStay
  <1>5. CASE conf[groups[g][1]].trainable
    <2>1. x.tag = <<"grads", Infos[g]>>
      <3>1. x.tag = <<"grads", RuntimeInfo(groups[g][1])>>
        OBVIOUS
      <3> HIDE DEF x, g
      <3> QED
        BY <1>3, <3>1, InfoOfGroup
    <2>2. /\ posts' = [posts EXCEPT ![r] = Append(posts[r], x)]
          /\ pc' = [pc EXCEPT ![r] = "accept"] /\ k' = k
      BY <1>1, <1>5
    <2>3. x.tag[1] # "ids"
      BY <2>1
    <2>4. Len(groups) + 1 - c \in TrainedGroups /\ x.tag = <<"grads", Infos[Len(groups) + 1 - c]>>
      BY <1>3, <1>5, <2>1
    <2> HIDE DEF x, g
    <2>5. RankGood(Len(groups), Infos, TrainedGroups, "accept", c, Append(posts[r], x))
      BY <1>2, <2>4, TrainedAreGroups, GradsArePosted
    <2>6. OwnedSent(world, Append(posts[r], x))
      <3>1. posts[r] \in Seq(ToSet(posts[r]))
        BY <1>2 DEF RankGood
      <3> QED
        BY <1>2, <2>3, <3>1, OwnedAppended
    <2>7. k' = [k EXCEPT ![r] = c]
      BY <2>2, RankUnchanged
    <2> QED
      BY <1>1, <1>4, <2>2, <2>5, <2>6, <2>7, StepOfRank
  <1>6. CASE ~conf[groups[g][1]].trainable
    <2>1. Goto(r, "backward", "done") /\ posts' = posts /\ g \notin TrainedGroups
      BY <1>1, <1>3, <1>6
    <2>2. Len(groups) + 1 - c \notin TrainedGroups
      BY <1>3, <2>1
    <2>3. RankGood(Len(groups), Infos, TrainedGroups, IF c = Len(groups) THEN "done" ELSE "backward", NextOf(Len(groups), c), posts[r])
      BY <1>2, <2>2, TrainedAreGroups, GroupIsBehind
    <2>4. /\ pc' = [pc EXCEPT ![r] = IF c = Len(groups) THEN "done" ELSE "backward"]
          /\ k' = [k EXCEPT ![r] = NextOf(Len(groups), c)]
      BY <2>1, GotoMoves
    <2>5. posts' = [posts EXCEPT ![r] = posts[r]]
      BY <2>1, RankUnchanged
    <2> QED
      BY <1>1, <1>2, <1>4, <2>3, <2>4, <2>5, StepOfRank
  <1> QED
    BY <1>5, <1>6

\* Gradients are accepted.
LEMMA AcceptGradKeeps ==
  ASSUME EngineInv, NEW r \in Ranks, AcceptGrad(r)
  PROVE  EngineInv'
  <1> DEFINE c == k[r]
  <1>1. /\ pc[r] = "accept" /\ Goto(r, "backward", "done")
        /\ UNCHANGED <<conf, groups, world, load, tables, posts, ex>>
    BY Zenon DEF AcceptGrad
  <1>2. c \in 1 .. Len(groups) /\ Len(groups) \in Nat \ {0}
        /\ RankGood(Len(groups), Infos, TrainedGroups, "accept", c, posts[r]) /\ OwnedSent(world, posts[r])
    BY <1>1, RankFacts
  <1>3. RankGood(Len(groups), Infos, TrainedGroups, IF c = Len(groups) THEN "done" ELSE "backward", NextOf(Len(groups), c), posts[r])
    BY <1>2, TrainedAreGroups, GroupIsBehind
  <1>4. IdsOwned' /\ StoredWhereOwned'
    BY <1>1, ExStays, TablesStay
  <1>5. /\ pc' = [pc EXCEPT ![r] = IF c = Len(groups) THEN "done" ELSE "backward"]
        /\ k' = [k EXCEPT ![r] = NextOf(Len(groups), c)]
    BY <1>1, GotoMoves
  <1>6. posts' = [posts EXCEPT ![r] = posts[r]]
    BY <1>1, RankUnchanged
  <1> QED
    BY <1>1, <1>2, <1>3, <1>4, <1>5, <1>6, StepOfRank, Zenon

\* Ranks that start have posted nothing.
LEMMA FreshRanks ==
  ASSUME NEW G \in Nat \ {0}, NEW inf, NEW T, NEW w,
         NEW P, P = [r \in 0 .. (w - 1) |-> "ids"],
         NEW K, K = [r \in 0 .. (w - 1) |-> 1],
         NEW S, S = [r \in 0 .. (w - 1) |-> <<>>]
  PROVE  RanksGood(G, inf, T, w, P, K, S)
  <1>1. Len(<<>>) = 0 /\ <<>> \in Seq(ToSet(<<>>)) /\ 1 .. 0 = {}
    BY EmptyIsSequence
  <1>2. HasPosted(G, T, "ids", 1, Len(<<>>))
    BY <1>1 DEF HasPosted
  <1>3. "ids" \in Phases /\ 1 \in 1 .. G
    BY DEF Phases
  <1>4. \A n \in 1 .. Len(<<>>) : FALSE
    BY <1>1
  <1>5. RankGood(G, inf, T, "ids", 1, <<>>)
    BY <1>1, <1>2, <1>3, <1>4, Zenon DEF RankGood
  <1>6. OwnedSent(w, <<>>)
    BY <1>4, Zenon DEF OwnedSent
  <1>7. \A r \in 0 .. (w - 1) : P[r] = "ids" /\ K[r] = 1 /\ S[r] = <<>>
    OBVIOUS
  <1>8. P = [r \in 0 .. (w - 1) |-> P[r]] /\ K = [r \in 0 .. (w - 1) |-> K[r]] /\ S = [r \in 0 .. (w - 1) |-> S[r]]
    OBVIOUS
  <1>9. \A r \in 0 .. (w - 1) : RankGood(G, inf, T, P[r], K[r], S[r]) /\ OwnedSent(w, S[r])
    BY <1>5, <1>6, <1>7, Zenon
  <1> QED
    BY <1>8, <1>9, Zenon DEF RanksGood

\* Nor have they received anything.
LEMMA NothingExchanged ==
  ASSUME GroupsGood, ex = [r \in Ranks |-> [g \in DOMAIN groups |-> NoExchange]]
  PROVE  IdsOwned
  <1>1. NoExchange.ids = <<>> /\ "ids" \in DOMAIN NoExchange
    BY DEF NoExchange
  <1>2. \A S : NoExchange.ids \in Seq(S)
    BY <1>1, EmptyIsSequence
  <1>3. DOMAIN groups = 1 .. Len(groups)
    BY DEF GroupsGood
  <1>4. \A r \in Ranks : ex[r] = [g \in DOMAIN groups |-> NoExchange]
    OBVIOUS
  <1>5. \A r \in Ranks : DOMAIN ex[r] = 1 .. Len(groups) /\ \A g \in 1 .. Len(groups) : ex[r][g] = NoExchange
    BY <1>3, <1>4
  <1>6. DOMAIN ex = Ranks
    OBVIOUS
  <1> HIDE DEF NoExchange
  <1> QED
    BY <1>1, <1>2, <1>5, <1>6 DEF IdsOwned

\* A job starts in the invariant.
LEMMA InitIsGood ==
  ASSUME EngineInit
  PROVE  EngineInv
  <1>1. conf \in Configs /\ world \in Worlds
    BY DEF EngineInit
  <1>2. GroupsGood
    <2>1. PICK o \in Inputs(conf) : groups = Groups(o)
      BY DEF EngineInit
    <2>2. o \in Seq(Features) /\ o # <<>>
      BY <1>1, <2>1, EngineAssumption DEF Features
    <2> QED
      BY <2>1, <2>2, GroupsAreGood DEF GroupsGood
  <1>3. LoadGood
    BY <1>1, EngineAssumption DEF EngineInit, LoadGood, Ranks, Features
  <1>4. RanksInStep
    <2>1. Len(groups) \in Nat \ {0}
      BY <1>2 DEF GroupsGood
    <2>2. /\ pc = [r \in 0 .. (world - 1) |-> "ids"] /\ k = [r \in 0 .. (world - 1) |-> 1]
          /\ posts = [r \in 0 .. (world - 1) |-> <<>>]
      BY DEF EngineInit, Ranks
    <2> QED
      BY <2>1, <2>2, FreshRanks DEF RanksInStep
  <1>5. IdsOwned
    BY <1>2, NothingExchanged DEF EngineInit
  <1>6. StoredWhereOwned
    BY DEF EngineInit, StoredWhereOwned
  <1> QED
    BY <1>1, <1>2, <1>3, <1>4, <1>5, <1>6 DEF EngineInv

\* After a restart with w ranks every row is read by its owner.
LEMMA ReshardKeeps ==
  ASSUME EngineInv, NEW w \in Worlds, Reshard(w)
  PROVE  EngineInv'
  <1>1. /\ world' = w /\ load' \in Loads(w) /\ conf' = conf /\ \E o \in Inputs(conf) : groups' = Groups(o)
        /\ tables' = [r \in 0 .. (w - 1) |->
             {row \in UNION {tables[q] : q \in Ranks} : InSlice(Bucket(row[2]), r, w, SliceSize)}]
    BY DEF Reshard
  <1>2. conf' \in Configs /\ world' \in Worlds
    BY <1>1 DEF EngineInv
  <1>3. GroupsGood'
    <2>1. PICK o \in Inputs(conf) : groups' = Groups(o)
      BY <1>1
    <2>2. o \in Seq(Features) /\ o # <<>>
      BY <2>1, EngineAssumption DEF EngineInv, Features
    <2>3. /\ Len(groups') \in Nat \ {0} /\ DOMAIN groups' = 1 .. Len(groups')
          /\ \A g \in 1 .. Len(groups') : groups'[g] \in Seq(Features)
      BY <2>1, <2>2, GroupsAreGood
    <2>4. Features' = Features
      BY <1>1 DEF Features
    <2> QED
      BY <2>3, <2>4 DEF GroupsGood
  <1>4. LoadGood'
    <2>1. conf \in Configs
      BY DEF EngineInv
    <2>2. \A r \in 0 .. (w - 1) : \A f \in DOMAIN conf : load'[r][f] \in Seq(Seq(Int))
      BY <1>1, <2>1, EngineAssumption
    <2> QED
      BY <1>1, <2>2 DEF LoadGood, Ranks, Features
  <1>5. RanksInStep'
    <2>1. Len(groups') \in Nat \ {0}
      BY <1>3 DEF GroupsGood
    <2>2. /\ pc' = [r \in 0 .. (w - 1) |-> "ids"] /\ k' = [r \in 0 .. (w - 1) |-> 1]
          /\ posts' = [r \in 0 .. (w - 1) |-> <<>>]
      BY DEF Reshard, Restarted
    <2>3. RanksGood(Len(groups'), Infos', TrainedGroups', w, pc', k', posts')
      BY <2>1, <2>2, FreshRanks
    <2> QED
      BY <1>1, <2>3 DEF RanksInStep
  <1>6. IdsOwned'
    <2>1. ex' = [r \in 0 .. (w - 1) |-> [g \in DOMAIN groups' |-> NoExchange]]
      BY DEF Reshard, Restarted
    <2>2. GroupsGood' /\ ex' = [r \in Ranks' |-> [g \in DOMAIN groups' |-> NoExchange]]
      BY <1>1, <1>3, <2>1 DEF Ranks
    <2>3. NoExchange.ids = <<>> /\ "ids" \in DOMAIN NoExchange
      BY DEF NoExchange
    <2>4. \A S : NoExchange.ids \in Seq(S)
      BY <2>3, EmptyIsSequence
    <2>5. DOMAIN groups' = 1 .. Len(groups')
      BY <1>3 DEF GroupsGood
    <2>6. DOMAIN ex' = Ranks' /\ \A r \in Ranks' : ex'[r] = [g \in DOMAIN groups' |-> NoExchange]
      BY <2>2
    <2>7. \A r \in Ranks' : DOMAIN ex'[r] = 1 .. Len(groups') /\ \A g \in 1 .. Len(groups') : ex'[r][g] = NoExchange
      BY <2>5, <2>6
    <2> QED
      BY <2>3, <2>4, <2>6, <2>7 DEF IdsOwned, NoExchange
  <1>7. StoredWhereOwned'
    <2>1. ASSUME NEW r \in 0 .. (w - 1), NEW row \in tables'[r] PROVE row[2] \in OwnedIds(w, r)
      <3>1. row \in UNION {tables[q] : q \in Ranks} /\ InSlice(Bucket(row[2]), r, w, SliceSize)
        BY <1>1, <2>1
      <3>2. PICK q \in Ranks : row \in tables[q]
        BY <3>1
      <3>3. row[2] \in Int
        BY <3>2 DEF EngineInv, StoredWhereOwned, OwnedIds
      <3>4. WorldGood
        BY WorldsAreGood DEF EngineInv
      <3>5. Bucket(row[2]) \in 0 .. (SliceSize - 1)
        BY <3>3, <3>4, OwnerIsRank
      <3>6. w \in Nat \ {0} /\ SliceSize \in Nat /\ w <= SliceSize
        <4>1. w \in 1 .. SliceSize /\ SliceSize \in Nat
          BY EngineAssumption
        <4> QED
          BY <4>1
      <3>7. Owner(Bucket(row[2]), w, SliceSize) = r
        BY <3>1, <3>5, <3>6, OwnersAgree
      <3> QED
        BY <3>3, <3>7 DEF OwnedIds
    <2>2. DOMAIN tables' = 0 .. (w - 1)
      BY <1>1
    <2> QED
      BY <1>1, <2>1, <2>2 DEF StoredWhereOwned, Ranks
  <1> QED
    BY <1>2, <1>3, <1>4, <1>5, <1>6, <1>7 DEF EngineInv

\* Each step of any rank, and each restart.
LEMMA EngineInvHolds == EngineSpec => []EngineInv
  <1>1. EngineInit => EngineInv
    BY InitIsGood
  <1>2. EngineInv /\ [EngineNext]_engineVars => EngineInv'
    <2> SUFFICES ASSUME EngineInv, [EngineNext]_engineVars PROVE EngineInv'
      OBVIOUS
    <2>1. ASSUME NEW r \in Ranks, RankSteps(r) PROVE EngineInv'
      <3>1. CASE ExchangeIds(r)
        BY <3>1, ExchangeIdsKeeps
      <3>2. CASE ExchangeSizes(r)
        BY <3>2, ExchangeSizesKeeps
      <3>3. CASE LookupExchange(r)
        BY <3>3, LookupExchangeKeeps
      <3>4. CASE Reduce(r)
        BY <3>4, ReduceKeeps
      <3>5. CASE ExchangeGrads(r)
        BY <3>5, ExchangeGradsKeeps
      <3>6. CASE AcceptGrad(r)
        BY <3>6, AcceptGradKeeps
      <3> QED
        BY <2>1, <3>1, <3>2, <3>3, <3>4, <3>5, <3>6 DEF RankSteps
    <2>2. ASSUME NEW w \in Worlds, Reshard(w) PROVE EngineInv'
      BY <2>2, ReshardKeeps
    <2>3. CASE UNCHANGED engineVars
      <3>1. UNCHANGED <<conf, groups, world, load, tables, pc, k, posts, ex>>
        BY <2>3 DEF engineVars
      <3>2. GroupsGood' /\ IdsOwned' /\ StoredWhereOwned'
        BY <3>1, OptionsStay, ExStays, TablesStay DEF EngineInv
      <3>3. LoadGood'
        BY <3>1 DEF EngineInv, LoadGood, Ranks, Features
      <3>4. RanksInStep'
        <4>1. RanksGood(Len(groups), Infos, TrainedGroups, world, pc, k, posts)
          BY DEF EngineInv, RanksInStep
        <4>2. RanksGood(Len(groups), Infos, TrainedGroups, world, pc', k', posts')
          BY <3>1, <4>1
        <4> QED
          BY <3>1, <4>2, RanksMove
      <3> QED
        BY <3>1, <3>2, <3>3, <3>4 DEF EngineInv
    <2> QED
      BY <2>1, <2>2, <2>3, Zenon DEF EngineNext
  <1> QED
    BY <1>1, <1>2, PTL DEF EngineSpec

\* Every row is on the one rank where the next lookup will look for it (the
\* slices of gen_slice(), the partition of a batch and the reader of the
\* checkpoint agree through every exchange and every restart), and the n-th
\* all-to-all of every rank is the same operation on the same group.
THEOREM RowsFoundWhereStored == EngineSpec => []RowsWhereLookedFor
  <1>1. EngineInv => RowsWhereLookedFor
    <2> SUFFICES ASSUME EngineInv PROVE RowsWhereLookedFor
      OBVIOUS
    <2>1. \A r \in Ranks : \A row \in tables[r] : Owner(Bucket(row[2]), world, SliceSize) = r
      BY DEF EngineInv, StoredWhereOwned, OwnedIds
    <2>2. ASSUME NEW q \in Ranks, NEW r \in Ranks, NEW n \in DOMAIN posts[q] \cap DOMAIN posts[r]
          PROVE  posts[q][n].tag = posts[r][n].tag
      <3>1. /\ RankGood(Len(groups), Infos, TrainedGroups, pc[q], k[q], posts[q])
            /\ RankGood(Len(groups), Infos, TrainedGroups, pc[r], k[r], posts[r])
            /\ Len(groups) \in Nat \ {0}
        BY RankFacts
      <3>2. posts[q] \in Seq(ToSet(posts[q])) /\ posts[r] \in Seq(ToSet(posts[r]))
        BY <3>1 DEF RankGood
      <3>3. n \in 1 .. Len(posts[q]) /\ n \in 1 .. Len(posts[r])
        BY <3>2
      <3>4. /\ IsNth(Len(groups), Infos, TrainedGroups, n, posts[q][n].tag)
            /\ IsNth(Len(groups), Infos, TrainedGroups, n, posts[r][n].tag)
        BY <3>1, <3>3 DEF RankGood
      <3> QED
        BY <3>1, <3>4, TrainedAreGroups, NthIsOne
    <2> QED
      BY <2>1, <2>2 DEF RowsWhereLookedFor
  <1> QED
    BY <1>1, EngineInvHolds, PTL
=============================================================================
