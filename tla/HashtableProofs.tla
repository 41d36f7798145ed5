-------------------------- MODULE HashtableProofs --------------------------
(***************************************************************************)
(* Proofs about the embedding table of Hashtable.tla, for every set of ids, *)
(* block size, filter setting and accumulation length.                      *)
(***************************************************************************)
EXTENDS Hashtable, FiniteSetTheorems, NaturalsInduction, WellFoundedInduction, TLAPS

----------------------------------------------------------------------------
(* Arithmetic of blocks.                                                    *)

\* Division by a block size: quotient and remainder.
LEMMA DivFacts ==
  ASSUME NEW n \in Nat, NEW b \in Nat \ {0}
  PROVE  /\ n \div b \in Nat
         /\ (n \div b) * b <= n
         /\ n < (n \div b + 1) * b
  OBVIOUS

\* More entries never need fewer blocks.
LEMMA DivMonotone ==
  ASSUME NEW m \in Nat, NEW n \in Nat, NEW b \in Nat \ {0}, m <= n
  PROVE  m \div b <= n \div b
<1> DEFINE p == m \div b
           q == n \div b
<1>1. /\ p \in Nat /\ p * b <= m
      /\ q \in Nat /\ n < (q + 1) * b
  BY DivFacts
<1>2. SUFFICES ASSUME p > q PROVE FALSE
  BY <1>1
<1> HIDE DEF p, q
<1>3. p * b >= (q + 1) * b
  BY <1>1, <1>2
<1>4. QED
  BY <1>1, <1>3

\* A multiple of a block size grows with the factor.
LEMMA TimesMonotone ==
  ASSUME NEW m \in Nat, NEW n \in Nat, NEW b \in Nat, m <= n
  PROVE  /\ m * b \in Nat
         /\ n * b \in Nat
         /\ m * b <= n * b
  OBVIOUS

\* The number of blocks that ReserveBlocksForIds asks for is large enough.
LEMMA RoundUp ==
  ASSUME NEW n \in Nat, NEW b \in Nat \ {0}
  PROVE  (n + b) \div b \in Nat /\ n < ((n + b) \div b) * b
<1> DEFINE q == (n + b) \div b
<1>1. q \in Nat /\ n + b < (q + 1) * b
  BY DivFacts
<1> HIDE DEF q
<1>2. (q + 1) * b = q * b + b
  BY <1>1
<1>3. n < q * b
  BY <1>1, <1>2
<1>4. QED
  BY <1>1, <1>3 DEF q

\* A value in the range of int is not changed by the cast.
LEMMA CastIsExact ==
  ASSUME NEW x \in Int, -IntMax - 1 <= x, x <= IntMax
  PROVE  ToInt(x) = x
<1> DEFINE m == 2 * (IntMax + 1)
           y == x + IntMax + 1
<1>1. m \in Nat \ {0} /\ y \in 0 .. m - 1
  BY IntMaxAssumption
<1>2. \A k \in Nat \ {0} : \A z \in 0 .. k - 1 : z % k = z
  OBVIOUS
<1>3. y % m = y
  BY <1>1, <1>2
<1>4. QED
  BY <1>3, IntMaxAssumption DEF ToInt

\* The cells for n entries hold n entries, and grow with n.
LEMMA CellsFacts ==
  ASSUME NEW m \in Nat, NEW n \in Nat, m <= n
  PROVE  /\ 0 .. m \subseteq Cells(m)
         /\ Cells(m) \subseteq Cells(n)
         /\ Cells(m) \subseteq Nat
  BY DivFacts, DivMonotone, TimesMonotone, FreeBlockSizeAssumption DEF Cells

\* Storage grows with the number of blocks.
LEMMA CapacityFacts ==
  ASSUME NEW m \in Nat, NEW n \in Nat, m <= n
  PROVE  /\ Capacity(m) \subseteq Capacity(n)
         /\ Capacity(m) \subseteq Nat
  BY TimesMonotone, TableAssumption DEF Capacity

----------------------------------------------------------------------------
(* The allocator and the id map.                                            *)

\* The part of the type invariant about the id map and the allocator.
MapTypeOK ==
  /\ cur_size \in 0 .. MaxRows
  /\ free_size \in 0 .. MaxRows
  /\ free_blocks \in [Cells(free_size) -> Rows \cup {Uninit}]
  /\ ids_map \in [Ids -> Rows \cup {NullIndex}]

\* The id map and the allocator agree.
MapInv == MapTypeOK /\ RowsPartitioned /\ ActiveSizeMatches

\* RowsPartitioned, row by row.
LEMMA PartitionFacts ==
  ASSUME MapInv
  PROVE  /\ \A id \in Live : ids_map[id] \in 0 .. cur_size - 1
         /\ \A k \in 0 .. free_size - 1 : free_blocks[k] \in 0 .. cur_size - 1
         /\ \A id \in Live, k \in 0 .. free_size - 1 : ids_map[id] # free_blocks[k]
         /\ \A r \in 0 .. cur_size - 1 :
               \/ \E id \in Live : ids_map[id] = r
               \/ \E k \in 0 .. free_size - 1 : free_blocks[k] = r
  BY DEF MapInv, RowsPartitioned, FreeRows

\* The set of live ids is finite and not larger than the table.
LEMMA LiveFinite ==
  ASSUME NEW S \in SUBSET Ids
  PROVE  IsFiniteSet(S) /\ Cardinality(S) \in Nat
  BY TableAssumption, FS_Subset, FS_CardinalityType

\* Removing a part of a finite set removes its number of elements.
LEMMA CardinalityDifference ==
  ASSUME NEW S \in SUBSET Ids, NEW T \in SUBSET S
  PROVE  Cardinality(S \ T) = Cardinality(S) - Cardinality(T)
<1>1. IsFiniteSet(S) /\ IsFiniteSet(T) /\ IsFiniteSet(S \ T)
  BY LiveFinite
<1>2. /\ Cardinality(S) \in Nat /\ Cardinality(T) \in Nat
      /\ Cardinality(S \ T) \in Nat
  BY LiveFinite
<1>3. T \cup (S \ T) = S /\ T \cap (S \ T) = {}
  OBVIOUS
<1>4. Cardinality(T \cup (S \ T))
        = Cardinality(T) + Cardinality(S \ T) - Cardinality(T \cap (S \ T))
  BY <1>1, FS_Union
<1>5. Cardinality(S) = Cardinality(T) + Cardinality(S \ T) - Cardinality({})
  BY <1>3, <1>4, Zenon
<1>6. Cardinality({}) = 0
  BY FS_EmptySet
<1>7. QED
  BY <1>2, <1>5, <1>6

\* What GenIds leaves on the free stack.
LEMMA GenIdsFacts ==
  ASSUME MapInv, MaxRows <= IntMax, NEW num \in Nat,
         cur_size + NewRows(num) <= MaxRows, GenIds(num)
  PROVE  /\ free_size' = IF free_size > num THEN free_size - num ELSE 0
         /\ cur_size' = IF free_size >= num THEN cur_size ELSE cur_size + num - free_size
         /\ free_size' \in 0 .. free_size
         /\ cur_size' \in cur_size .. MaxRows
         /\ free_blocks' = [k \in Cells(free_size') |-> free_blocks[k]]
<1>1. /\ cur_size \in 0 .. MaxRows /\ free_size \in 0 .. MaxRows
      /\ DOMAIN free_blocks = Cells(free_size)
  BY DEF MapInv, MapTypeOK
<1>2. MaxRows \in Nat /\ IntMax \in Nat
  BY TableAssumption, IntMaxAssumption
<1>3. -IntMax - 1 <= free_size - num /\ free_size - num <= IntMax
  BY <1>1, <1>2 DEF NewRows
<1>4. ToInt(free_size - num) = free_size - num
  BY <1>1, <1>3, CastIsExact
<1>5. free_size' = IF free_size > num THEN free_size - num ELSE 0
  BY <1>1, <1>4 DEF GenIds
<1>6. free_size' \in 0 .. free_size
  BY <1>1, <1>5
<1>7. free_blocks' = ReduceBlock(free_blocks, free_size')
  BY <1>1, <1>4, <1>5 DEF GenIds
<1>8. Cells(free_size') \subseteq Cells(free_size)
  BY <1>1, <1>6, CellsFacts
<1>9. free_blocks' = [k \in Cells(free_size') |-> free_blocks[k]]
  BY <1>1, <1>7, <1>8 DEF ReduceBlock
<1>10. cur_size' = IF free_size >= num THEN cur_size ELSE cur_size + num - free_size
  BY <1>1 DEF GenIds, NewRows
<1>11. cur_size' \in cur_size .. MaxRows
  BY <1>1, <1>2, <1>10 DEF NewRows
<1>12. QED
  BY <1>5, <1>6, <1>9, <1>10, <1>11

\* The generated rows are new: distinct, owned by no id, no longer on the
\* stack; and nothing is lost.
LEMMA GeneratedRows ==
  ASSUME MapInv, MaxRows <= IntMax, NEW num \in Nat,
         cur_size + NewRows(num) <= MaxRows, GenIds(num)
  PROVE  /\ \A i \in 0 .. num - 1 : GeneratedRow(num, i) \in 0 .. cur_size' - 1
         /\ \A i, j \in 0 .. num - 1 : GeneratedRow(num, i) = GeneratedRow(num, j) => i = j
         /\ \A i \in 0 .. num - 1 : \A id \in Live : GeneratedRow(num, i) # ids_map[id]
         /\ \A i \in 0 .. num - 1 : \A k \in 0 .. free_size' - 1 :
               GeneratedRow(num, i) # free_blocks[k]
         /\ \A r \in 0 .. cur_size' - 1 :
               \/ \E id \in Live : ids_map[id] = r
               \/ \E k \in 0 .. free_size' - 1 : free_blocks[k] = r
               \/ \E i \in 0 .. num - 1 : GeneratedRow(num, i) = r
<1> DEFINE G(i) == GeneratedRow(num, i)
<1>1. /\ cur_size \in Nat /\ free_size \in Nat
      /\ \A k, l \in 0 .. free_size - 1 : free_blocks[k] = free_blocks[l] => k = l
  BY TableAssumption DEF MapInv, MapTypeOK, RowsPartitioned
<1>2. /\ free_size' = IF free_size > num THEN free_size - num ELSE 0
      /\ cur_size' = IF free_size >= num THEN cur_size ELSE cur_size + num - free_size
  BY GenIdsFacts
<1>3. \A i \in 0 .. num - 1 :
         \/ /\ free_size - num + i \in free_size' .. free_size - 1
            /\ G(i) = free_blocks[free_size - num + i]
         \/ /\ i < num - free_size
            /\ G(i) = cur_size + num - free_size - 1 - i
  BY <1>1, <1>2 DEF GeneratedRow
<1>4. ASSUME NEW i \in 0 .. num - 1
      PROVE  /\ G(i) \in 0 .. cur_size' - 1
             /\ \A id \in Live : G(i) # ids_map[id]
             /\ \A k \in 0 .. free_size' - 1 : G(i) # free_blocks[k]
  <2> HIDE DEF G
  <2>1. CASE /\ free_size - num + i \in free_size' .. free_size - 1
             /\ G(i) = free_blocks[free_size - num + i]
    <3>1. free_size - num + i \in 0 .. free_size - 1 /\ cur_size <= cur_size' /\ cur_size' \in Nat
      BY <1>1, <1>2, <2>1
    <3>2. free_blocks[free_size - num + i] \in 0 .. cur_size - 1
      BY <3>1, PartitionFacts
    <3>3. \A id \in Live : G(i) # ids_map[id]
      BY <2>1, <3>1, PartitionFacts
    <3>4. \A k \in 0 .. free_size' - 1 : G(i) # free_blocks[k]
      BY <1>1, <1>2, <2>1, <3>1
    <3>5. QED
      BY <1>1, <2>1, <3>1, <3>2, <3>3, <3>4
  <2>2. CASE /\ i < num - free_size
             /\ G(i) = cur_size + num - free_size - 1 - i
    <3>1. G(i) \in cur_size .. cur_size' - 1 /\ free_size' = 0
      BY <1>1, <1>2, <2>2
    <3>2. \A id \in Live : ids_map[id] \in 0 .. cur_size - 1
      BY PartitionFacts
    <3>3. \A id \in Live : G(i) # ids_map[id]
      BY <1>1, <3>1, <3>2
    <3>4. QED
      BY <1>1, <3>1, <3>3
  <2>3. QED
    BY <1>3, <2>1, <2>2
<1>5. ASSUME NEW i \in 0 .. num - 1, NEW j \in 0 .. num - 1, G(i) = G(j)
      PROVE  i = j
  <2>1. \A k \in 0 .. free_size - 1 : free_blocks[k] \in 0 .. cur_size - 1
    BY PartitionFacts
  <2>2. \A k \in free_size' .. free_size - 1 : k \in 0 .. free_size - 1
    BY <1>1, <1>2
  <2> HIDE DEF G
  <2>3. QED
    BY <1>1, <1>3, <1>5, <2>1, <2>2
<1>6. ASSUME NEW r \in 0 .. cur_size' - 1
      PROVE  \/ \E id \in Live : ids_map[id] = r
             \/ \E k \in 0 .. free_size' - 1 : free_blocks[k] = r
             \/ \E i \in 0 .. num - 1 : G(i) = r
  <2>1. CASE r < cur_size
    <3>1. \/ \E id \in Live : ids_map[id] = r
          \/ \E k \in 0 .. free_size - 1 : free_blocks[k] = r
      BY <1>1, <2>1, PartitionFacts
    <3>2. ASSUME NEW k \in 0 .. free_size - 1, k >= free_size'
          PROVE  G(k + num - free_size) = free_blocks[k] /\ k + num - free_size \in 0 .. num - 1
      BY <1>1, <1>2, <3>2 DEF GeneratedRow
    <3> HIDE DEF G
    <3>3. \A k \in 0 .. free_size - 1 : k >= free_size' \/ k \in 0 .. free_size' - 1
      BY <1>1, <1>2
    <3>4. QED
      BY <3>1, <3>2, <3>3
  <2>2. CASE r >= cur_size
    <3> DEFINE i == cur_size + num - free_size - 1 - r
    <3>1. i \in 0 .. num - 1 /\ G(i) = r
      BY <1>1, <1>2, <2>2 DEF GeneratedRow
    <3>2. QED
      BY <3>1
  <2>3. QED
    BY <1>1, <2>1, <2>2
<1>7. QED
  BY <1>4, <1>5, <1>6

\* ReserveBlocksForIds makes room for every row handed out.
LEMMA ReserveFacts ==
  ASSUME block_num \in Nat, cur_size' \in Nat, ReserveBlocksForIds(cur_size')
  PROVE  block_num' \in Nat /\ block_num <= block_num' /\ StorageCoversRows'
<1>1. PICK need \in Nat : /\ need = (cur_size' + BlockSize) \div BlockSize
                          /\ cur_size' < need * BlockSize
  BY RoundUp, TableAssumption
<1>2. block_num' \in Nat /\ block_num <= block_num' /\ need <= block_num'
  BY <1>1 DEF ReserveBlocksForIds
<1>3. BlockSize \in Nat
  BY TableAssumption
<1>4. /\ need * BlockSize <= block_num' * BlockSize
      /\ need * BlockSize \in Nat /\ block_num' * BlockSize \in Nat
  BY <1>1, <1>2, <1>3, TimesMonotone
<1>5. \A c, x, y \in Nat : c < x /\ x <= y => c = 0 \/ c - 1 \in 0 .. y - 1
  OBVIOUS
<1>6. cur_size' = 0 \/ cur_size' - 1 \in 0 .. block_num' * BlockSize - 1
  BY <1>1, <1>4, <1>5
<1>7. QED
  BY <1>2, <1>6 DEF StorageCoversRows, Capacity

\* CpuIdMap::Lookup keeps the map and the allocator in agreement, keeps every
\* row that was assigned and gives every id of the batch a row.
LEMMA LookupFacts ==
  ASSUME MapInv, MaxRows <= IntMax, block_num \in Nat,
         NEW batch \in SUBSET Ids, Lookup(batch)
  PROVE  /\ MapInv'
         /\ \A id \in Ids : ids_map[id] # NullIndex => ids_map'[id] = ids_map[id]
         /\ \A id \in batch : ids_map'[id] # NullIndex
         /\ \A id \in Ids \ batch : ids_map'[id] = ids_map[id]
         /\ block_num' \in Nat /\ block_num <= block_num'
         /\ StorageCoversRows'
<1> DEFINE missing == Missing(batch)
           num == Cardinality(missing)
           G(i) == GeneratedRow(num, i)
<1>1. /\ cur_size \in 0 .. MaxRows /\ free_size \in 0 .. MaxRows /\ MaxRows \in Nat
      /\ free_blocks \in [Cells(free_size) -> Rows \cup {Uninit}]
      /\ ids_map \in [Ids -> Rows \cup {NullIndex}]
  BY TableAssumption DEF MapInv, MapTypeOK
<1>2. missing \in SUBSET Ids /\ missing \cap Live = {} /\ num \in Nat
  BY LiveFinite DEF Missing, Live
<1>3. cur_size + NewRows(num) <= MaxRows /\ GenIds(num) /\ ReserveBlocksForIds(cur_size')
  BY DEF Lookup
<1>4. PICK order \in Bijection(0 .. num - 1, missing) :
         ids_map' = [id \in Ids |->
                        IF id \in missing
                        THEN GeneratedRow(num, CHOOSE i \in 0 .. num - 1 : order[i] = id)
                        ELSE ids_map[id]]
  BY DEF Lookup
<1> DEFINE pos(id) == CHOOSE i \in 0 .. num - 1 : order[i] = id
<1>5. /\ \A i \in 0 .. num - 1 : order[i] \in missing
      /\ \A i, j \in 0 .. num - 1 : order[i] = order[j] => i = j
      /\ \A id \in missing : \E i \in 0 .. num - 1 : order[i] = id
  BY <1>4 DEF Bijection, Injection, Surjection, IsInjective
<1>6. \A id \in missing : pos(id) \in 0 .. num - 1 /\ order[pos(id)] = id
  BY <1>5
<1>7. \A i \in 0 .. num - 1 : order[i] \in missing /\ pos(order[i]) = i
  BY <1>5, <1>6
<1>8. /\ \A id \in missing : ids_map'[id] = G(pos(id))
      /\ \A id \in Ids \ missing : ids_map'[id] = ids_map[id]
      /\ DOMAIN ids_map' = Ids
      /\ ids_map' = [id \in Ids |-> ids_map'[id]]
  BY <1>2, <1>4
<1>9. /\ free_size' \in 0 .. free_size
      /\ cur_size' \in cur_size .. MaxRows
      /\ free_size' = IF free_size > num THEN free_size - num ELSE 0
      /\ cur_size' = IF free_size >= num THEN cur_size ELSE cur_size + num - free_size
      /\ free_blocks' = [k \in Cells(free_size') |-> free_blocks[k]]
  BY <1>2, <1>3, GenIdsFacts
<1>10. /\ \A i \in 0 .. num - 1 : G(i) \in 0 .. cur_size' - 1
       /\ \A i, j \in 0 .. num - 1 : G(i) = G(j) => i = j
       /\ \A i \in 0 .. num - 1 : \A id \in Live : G(i) # ids_map[id]
       /\ \A i \in 0 .. num - 1 : \A k \in 0 .. free_size' - 1 : G(i) # free_blocks[k]
       /\ \A r \in 0 .. cur_size' - 1 :
             \/ \E id \in Live : ids_map[id] = r
             \/ \E k \in 0 .. free_size' - 1 : free_blocks[k] = r
             \/ \E i \in 0 .. num - 1 : G(i) = r
  BY <1>2, <1>3, GeneratedRows
<1> HIDE DEF pos, G
<1>11. \A id \in missing : ids_map'[id] \in 0 .. cur_size' - 1 /\ ids_map'[id] \in Rows
                           /\ ids_map'[id] # NullIndex
  BY <1>1, <1>6, <1>8, <1>9, <1>10 DEF Rows, NullIndex
<1>12. Live' = Live \cup missing
  BY <1>2, <1>8, <1>11 DEF Live
<1>13. \A k \in 0 .. free_size' - 1 : k \in Cells(free_size') /\ k \in 0 .. free_size - 1
                                       /\ free_blocks'[k] = free_blocks[k]
  BY <1>1, <1>9, CellsFacts
<1>14. MapTypeOK'
  <2>1. Cells(free_size') \subseteq Cells(free_size)
    BY <1>1, <1>9, CellsFacts
  <2>2. free_blocks' \in [Cells(free_size') -> Rows \cup {Uninit}]
    BY <1>1, <1>9, <2>1
  <2>3. \A id \in Ids : ids_map'[id] \in Rows \cup {NullIndex}
    BY <1>1, <1>8, <1>11
  <2>4. ids_map' \in [Ids -> Rows \cup {NullIndex}]
    BY <1>8, <2>3
  <2>5. cur_size' \in 0 .. MaxRows /\ free_size' \in 0 .. MaxRows
    BY <1>1, <1>9
  <2>6. QED
    BY <2>2, <2>4, <2>5 DEF MapTypeOK, Cells, Rows
<1>15. RowsPartitioned'
  <2>1. ASSUME NEW i \in Live', NEW j \in Live', ids_map'[i] = ids_map'[j]
        PROVE  i = j
    <3>1. \A u, v \in Live : ids_map[u] = ids_map[v] => u = v
      BY DEF MapInv, RowsPartitioned
    <3>2. CASE i \in Live /\ j \in Live
      BY <1>2, <1>8, <2>1, <3>1, <3>2 DEF Live
    <3>3. CASE i \in Live /\ j \in missing
      BY <1>2, <1>6, <1>8, <1>10, <2>1, <3>3 DEF Live
    <3>4. CASE i \in missing /\ j \in Live
      BY <1>2, <1>6, <1>8, <1>10, <2>1, <3>4 DEF Live
    <3>5. CASE i \in missing /\ j \in missing
      BY <1>6, <1>8, <1>10, <2>1, <3>5
    <3>6. QED
      BY <1>12, <3>2, <3>3, <3>4, <3>5
  <2>2. \A k, l \in 0 .. free_size' - 1 : free_blocks'[k] = free_blocks'[l] => k = l
    BY <1>13 DEF MapInv, RowsPartitioned
  <2>3. ASSUME NEW id \in Live', NEW k \in 0 .. free_size' - 1
        PROVE  ids_map'[id] # free_blocks'[k]
    <3>1. CASE id \in Live
      BY <1>2, <1>8, <1>13, <3>1, PartitionFacts DEF Live
    <3>2. CASE id \in missing
      BY <1>6, <1>8, <1>10, <1>13, <3>2
    <3>3. QED
      BY <1>12, <3>1, <3>2
  <2>4. \A id \in Live' : ids_map'[id] \in 0 .. cur_size' - 1
    <3>1. \A id \in Live : ids_map'[id] \in 0 .. cur_size - 1
      BY <1>2, <1>8, PartitionFacts DEF Live
    <3>2. QED
      BY <1>1, <1>9, <1>11, <1>12, <3>1
  <2>5. \A k \in 0 .. free_size' - 1 : free_blocks'[k] \in 0 .. cur_size' - 1
    <3>1. \A k \in 0 .. free_size' - 1 : free_blocks'[k] \in 0 .. cur_size - 1
      BY <1>13, PartitionFacts
    <3>2. QED
      BY SMTT(45), <1>1, <1>9, <3>1
  <2>6. ASSUME NEW r \in 0 .. cur_size' - 1
        PROVE  \/ \E id \in Live' : ids_map'[id] = r
               \/ \E k \in 0 .. free_size' - 1 : free_blocks'[k] = r
    <3>1. CASE \E id \in Live : ids_map[id] = r
      BY <1>2, <1>8, <1>12, <3>1 DEF Live
    <3>2. CASE \E k \in 0 .. free_size' - 1 : free_blocks[k] = r
      BY <1>13, <3>2
    <3>3. CASE \E i \in 0 .. num - 1 : G(i) = r
      BY <1>7, <1>8, <1>12, <3>3
    <3>4. QED
      BY <1>10, <3>1, <3>2, <3>3
  <2> DEFINE FR == {free_blocks'[k] : k \in 0 .. free_size' - 1}
             LR == {ids_map'[id] : id \in Live'}
  <2>7. 0 .. cur_size' - 1 = LR \cup FR
    BY <2>4, <2>5, <2>6
  <2>8. \A id \in Live' : ids_map'[id] \notin FR
    BY <2>3
  <2>9. QED
    BY <2>1, <2>2, <2>7, <2>8 DEF RowsPartitioned, FreeRows
<1>16. ActiveSizeMatches'
  <2>1. Live \in SUBSET Ids /\ Live \cup missing \in SUBSET Ids
    BY <1>2 DEF Live
  <2>2. Live = (Live \cup missing) \ missing
    BY <1>2
  <2>3. Cardinality(Live) = Cardinality(Live \cup missing) - num
    BY <2>1, <2>2, CardinalityDifference
  <2>4. Cardinality(Live \cup missing) \in Nat
    BY <2>1, LiveFinite
  <2>5. Cardinality(Live) = cur_size - free_size
    BY DEF MapInv, ActiveSizeMatches, ActiveSize
  <2>6. Cardinality(Live') = cur_size' - free_size'
    BY <1>1, <1>2, <1>9, <1>12, <2>3, <2>4, <2>5
  <2>7. QED
    BY <2>6 DEF ActiveSizeMatches, ActiveSize
<1>17. \A id \in batch : ids_map'[id] # NullIndex
  BY <1>8, <1>11 DEF Missing
<1>18. /\ \A id \in Ids : ids_map[id] # NullIndex => ids_map'[id] = ids_map[id]
       /\ \A id \in Ids \ batch : ids_map'[id] = ids_map[id]
  BY <1>8 DEF Missing
<1>19. block_num' \in Nat /\ block_num <= block_num' /\ StorageCoversRows'
  BY <1>1, <1>3, <1>9, ReserveFacts
<1>20. QED
  BY <1>14, <1>15, <1>16, <1>17, <1>18, <1>19 DEF MapInv

\* Hashtable::Delete of live ids keeps the map and the allocator in agreement:
\* exactly the rows of the deleted ids go to the free stack.
LEMMA DeleteFacts ==
  ASSUME MapInv, NEW dead \in SUBSET Live, Delete(dead)
  PROVE  /\ MapInv'
         /\ cur_size' = cur_size
         /\ \A id \in Ids : ids_map'[id] = IF id \in dead THEN NullIndex ELSE ids_map[id]
<1> DEFINE num == Cardinality(dead)
<1>1. /\ cur_size \in 0 .. MaxRows /\ free_size \in 0 .. MaxRows /\ MaxRows \in Nat
      /\ free_blocks \in [Cells(free_size) -> Rows \cup {Uninit}]
      /\ ids_map \in [Ids -> Rows \cup {NullIndex}]
  BY TableAssumption DEF MapInv, MapTypeOK
<1>2. dead \in SUBSET Ids /\ Live \in SUBSET Ids /\ num \in Nat
  BY LiveFinite DEF Live
<1>3. PICK order \in Bijection(0 .. num - 1, dead) :
         FreeIds(num, [i \in 0 .. num - 1 |-> ids_map[order[i]]])
  BY DEF Delete
<1>4. /\ \A i \in 0 .. num - 1 : order[i] \in dead
      /\ \A i, j \in 0 .. num - 1 : order[i] = order[j] => i = j
      /\ \A id \in dead : \E i \in 0 .. num - 1 : order[i] = id
  BY <1>3 DEF Bijection, Injection, Surjection, IsInjective
<1>5. /\ \A id \in Ids : ids_map'[id] = IF id \in dead THEN NullIndex ELSE ids_map[id]
      /\ ids_map' \in [Ids -> Rows \cup {NullIndex}]
  BY <1>1 DEF Delete
<1>6. Live' = Live \ dead /\ \A id \in Live' : ids_map'[id] = ids_map[id]
  BY <1>2, <1>5 DEF Live
<1>7. Cardinality(Live \ dead) = Cardinality(Live) - num /\ Cardinality(Live \ dead) \in Nat
  BY <1>2, LiveFinite, CardinalityDifference
<1>8. Cardinality(Live) = cur_size - free_size
  BY DEF MapInv, ActiveSizeMatches, ActiveSize
<1>9. cur_size' = cur_size /\ free_size' = free_size + num /\ free_size' \in free_size .. MaxRows
  BY <1>1, <1>2, <1>3, <1>7, <1>8 DEF FreeIds
<1>10. Cells(free_size) \cup Cells(free_size') = Cells(free_size')
  BY <1>1, <1>9, CellsFacts
<1>11. free_blocks' = [k \in Cells(free_size') |->
                          IF k \in free_size .. free_size + num - 1
                          THEN ids_map[order[k - free_size]]
                          ELSE IF k \in Cells(free_size) THEN free_blocks[k] ELSE Uninit]
  <2>1. DOMAIN free_blocks = Cells(free_size)
    BY <1>1
  <2>2. IncreaseBlock(free_blocks, free_size + num)
          = [k \in Cells(free_size') |->
                IF k \in Cells(free_size) THEN free_blocks[k] ELSE Uninit]
    BY <1>9, <1>10, <2>1 DEF IncreaseBlock
  <2>3. \A k \in free_size .. free_size + num - 1 :
           [i \in 0 .. num - 1 |-> ids_map[order[i]]][k - free_size]
              = ids_map[order[k - free_size]]
    BY <1>1, <1>2
  <2>4. QED
    BY <1>3, <2>2, <2>3 DEF FreeIds
<1>12. /\ \A k \in 0 .. free_size - 1 : free_blocks'[k] = free_blocks[k]
       /\ \A i \in 0 .. num - 1 : free_blocks'[free_size + i] = ids_map[order[i]]
  <2>1. 0 .. free_size' \subseteq Cells(free_size') /\ 0 .. free_size \subseteq Cells(free_size)
    BY <1>1, <1>9, CellsFacts
  <2>2. ASSUME NEW k \in 0 .. free_size - 1
        PROVE  free_blocks'[k] = free_blocks[k]
    <3>1. k \in Cells(free_size') /\ k \in Cells(free_size) /\ k \notin free_size .. free_size + num - 1
      BY <1>1, <1>2, <1>9, <2>1
    <3>2. QED
      BY <1>11, <3>1
  <2>3. ASSUME NEW i \in 0 .. num - 1
        PROVE  free_blocks'[free_size + i] = ids_map[order[i]]
    <3>1. /\ free_size + i \in Cells(free_size')
          /\ free_size + i \in free_size .. free_size + num - 1
          /\ (free_size + i) - free_size = i
      BY <1>1, <1>2, <1>9, <2>1
    <3>2. QED
      BY <1>11, <3>1
  <2>4. QED
    BY <2>2, <2>3
<1>13. \A k \in 0 .. free_size' - 1 :
          \/ k \in 0 .. free_size - 1 /\ free_blocks'[k] = free_blocks[k]
          \/ \E i \in 0 .. num - 1 : k = free_size + i /\ free_blocks'[k] = ids_map[order[i]]
  <2>1. ASSUME NEW k \in 0 .. free_size' - 1, ~(k \in 0 .. free_size - 1)
        PROVE  \E i \in 0 .. num - 1 : k = free_size + i
    <3>1. k - free_size \in 0 .. num - 1 /\ k = free_size + (k - free_size)
      BY <1>1, <1>2, <1>9, <2>1
    <3>2. QED
      BY <3>1
  <2>2. QED
    BY <1>12, <2>1
<1>14. MapTypeOK'
  <2>1. \A i \in 0 .. num - 1 : ids_map[order[i]] \in Rows \cup {NullIndex}
    BY <1>1, <1>2, <1>4
  <2>2. \A i \in 0 .. num - 1 : ids_map[order[i]] \in Rows
    BY <1>4, <2>1 DEF Live
  <2>3. \A k \in free_size .. free_size + num - 1 : k - free_size \in 0 .. num - 1
    BY <1>1, <1>2
  <2>4. free_blocks' \in [Cells(free_size') -> Rows \cup {Uninit}]
    BY <1>1, <1>11, <2>2, <2>3
  <2>5. cur_size' \in 0 .. MaxRows /\ free_size' \in 0 .. MaxRows
    BY <1>1, <1>9
  <2>6. QED
    BY <1>5, <2>4, <2>5 DEF MapTypeOK, Cells, Rows
<1>15. RowsPartitioned'
  <2>1. \A u, v \in Live : ids_map[u] = ids_map[v] => u = v
    BY DEF MapInv, RowsPartitioned
  <2>2. \A k, l \in 0 .. free_size - 1 : free_blocks[k] = free_blocks[l] => k = l
    BY DEF MapInv, RowsPartitioned
  <2>3. \A i, j \in Live' : ids_map'[i] = ids_map'[j] => i = j
    BY <1>6, <2>1
  <2>4. ASSUME NEW k \in 0 .. free_size' - 1, NEW l \in 0 .. free_size' - 1,
               free_blocks'[k] = free_blocks'[l]
        PROVE  k = l
    <3>1. \A i \in 0 .. num - 1 : \A m \in 0 .. free_size - 1 :
             ids_map[order[i]] # free_blocks[m]
      BY <1>4, PartitionFacts
    <3>2. \A i, j \in 0 .. num - 1 : ids_map[order[i]] = ids_map[order[j]] => i = j
      BY <1>4, <2>1
    <3>3. QED
      BY <1>13, <2>2, <2>4, <3>1, <3>2
  <2>5. ASSUME NEW id \in Live', NEW k \in 0 .. free_size' - 1
        PROVE  ids_map'[id] # free_blocks'[k]
    BY <1>4, <1>6, <1>13, <2>1, PartitionFacts
  <2>6. \A id \in Live' : ids_map'[id] \in 0 .. cur_size' - 1
    BY <1>6, <1>9, PartitionFacts
  <2>7. \A k \in 0 .. free_size' - 1 : free_blocks'[k] \in 0 .. cur_size' - 1
    BY <1>4, <1>9, <1>13, PartitionFacts
  <2>8. ASSUME NEW r \in 0 .. cur_size' - 1
        PROVE  \/ \E id \in Live' : ids_map'[id] = r
               \/ \E k \in 0 .. free_size' - 1 : free_blocks'[k] = r
    <3>1. \/ \E id \in Live : ids_map[id] = r
          \/ \E k \in 0 .. free_size - 1 : free_blocks[k] = r
      BY <1>9, PartitionFacts
    <3>2. CASE \E id \in Live \ dead : ids_map[id] = r
      BY <1>6, <3>2
    <3>3. CASE \E id \in dead : ids_map[id] = r
      <4>1. PICK i \in 0 .. num - 1 : ids_map[order[i]] = r
        BY <1>4, <3>3
      <4>2. free_size + i \in 0 .. free_size' - 1
        BY <1>1, <1>2, <1>9
      <4>3. QED
        BY <1>12, <4>1, <4>2
    <3>4. CASE \E k \in 0 .. free_size - 1 : free_blocks[k] = r
      <4>1. 0 .. free_size - 1 \subseteq 0 .. free_size' - 1
        BY <1>1, <1>9
      <4>2. QED
        BY <1>12, <3>4, <4>1
    <3>5. QED
      BY <3>1, <3>2, <3>3, <3>4
  <2> DEFINE FR == {free_blocks'[k] : k \in 0 .. free_size' - 1}
             LR == {ids_map'[id] : id \in Live'}
  <2>9. 0 .. cur_size' - 1 = LR \cup FR
    BY <2>6, <2>7, <2>8
  <2>10. \A id \in Live' : ids_map'[id] \notin FR
    BY <2>5
  <2>11. QED
    BY <2>3, <2>4, <2>9, <2>10 DEF RowsPartitioned, FreeRows
<1>16. ActiveSizeMatches'
  <2>1. Cardinality(Live') = cur_size' - free_size'
    BY <1>1, <1>2, <1>6, <1>7, <1>8, <1>9
  <2>2. QED
    BY <2>1 DEF ActiveSizeMatches, ActiveSize
<1>17. QED
  BY <1>5, <1>9, <1>14, <1>15, <1>16 DEF MapInv

----------------------------------------------------------------------------
(* The inductive invariant.                                                 *)

\* The settings under which gradients never outlive the row they are for: no
\* accumulation, or no evaluation and no clear between the accumulated steps
\* and a filter that keeps an id for as long as it is accumulated.
SafeSettings ==
  /\ MaxRows <= IntMax
  /\ \/ GradAccumSteps = 1
     \/ ~Interleaved /\ GradAccumSteps - 1 <= FilterStep

\* Gradients that wait are for rows that their ids still own.
GradsOwned ==
  \A g \in grads \cup saved : g.row = NullIndex \/ ids_map[g.id] = g.row

\* Where in the step gradients can wait.
GradsPhase ==
  /\ phase # "forward" => saved = {}
  /\ local_step = 0 /\ phase # "backward" => grads = {}
  /\ phase = "evaluated" => Interleaved

\* A waiting gradient is for a row looked up since the accumulation began.
Age == IF phase = "stepped" THEN local_step - 1 ELSE local_step
GradsRecent ==
  ~Interleaved => \A g \in grads \cup saved :
                     g.row # NullIndex => filter_now <= step_slot[g.row] + Age

\* The clocks of the trainer and the filter, and the filter slot against them.
Clocks ==
  /\ global_step <= filter_now
  /\ last_filter <= global_step
  /\ \A id \in Ids \ Live : used[id] = 0
  /\ ~Interleaved => filter_now = global_step
  /\ \A id \in Live : used[id] <= step_slot[ids_map[id]]

IndInv ==
  /\ TypeOK /\ RowsPartitioned /\ ActiveSizeMatches /\ StorageCoversRows
  /\ RowsHoldOwnValues /\ GradsOwned /\ GradsPhase /\ GradsRecent /\ Clocks

\* The parts of the invariant that the facts about the map and the storage need.
LEMMA IndInvMap ==
  ASSUME IndInv
  PROVE  /\ MapInv
         /\ block_num \in Nat
         /\ emb \in [Capacity(block_num) -> SUBSET Ids]
         /\ step_slot \in [Capacity(block_num) -> 0 .. MaxSteps]
         /\ MaxSteps \in Nat
  BY TableAssumption DEF IndInv, TypeOK, MapInv, MapTypeOK

\* The map and the allocator left alone.
LEMMA MapUnchanged ==
  ASSUME MapInv, UNCHANGED <<cur_size, free_size, free_blocks, ids_map>>
  PROVE  MapInv' /\ Live' = Live
  BY DEF MapInv, MapTypeOK, RowsPartitioned, ActiveSizeMatches, ActiveSize, Live,
         FreeRows, Cells, Rows

\* Live rows lie in the storage.
LEMMA RowsStored ==
  ASSUME MapInv, StorageCoversRows, block_num \in Nat
  PROVE  \A id \in Live : ids_map[id] \in Capacity(block_num) /\ ids_map[id] \in Nat
<1>1. \A id \in Live : ids_map[id] \in 0 .. cur_size - 1
  BY PartitionFacts
<1>2. cur_size \in Nat /\ block_num * BlockSize \in Nat
  BY TableAssumption, TimesMonotone DEF MapInv, MapTypeOK
<1>3. QED
  BY <1>1, <1>2 DEF StorageCoversRows, Capacity

\* The same after a step.
LEMMA RowsStoredNext ==
  ASSUME MapInv', StorageCoversRows', block_num' \in Nat
  PROVE  \A id \in Live' : ids_map'[id] \in Capacity(block_num') /\ ids_map'[id] \in Nat
<1>1. \A id \in Live' : ids_map'[id] \in 0 .. cur_size' - 1
  BY DEF MapInv, RowsPartitioned
<1>2. cur_size' \in Nat
  BY TableAssumption DEF MapInv, MapTypeOK
<1>3. \A n \in Nat : n * BlockSize \in Nat
  BY TableAssumption
<1>4. \A c, m \in Nat : \A r \in 0 .. c - 1 :
         (c = 0 \/ c - 1 \in 0 .. m - 1) => r \in 0 .. m - 1
  OBVIOUS
<1>5. cur_size' = 0 \/ cur_size' - 1 \in 0 .. block_num' * BlockSize - 1
  BY DEF StorageCoversRows, Capacity
<1>6. block_num' * BlockSize \in Nat
  BY <1>3
<1>7. \A id \in Live' : ids_map'[id] \in 0 .. block_num' * BlockSize - 1
  BY <1>1, <1>2, <1>4, <1>5, <1>6
<1>8. QED
  BY <1>1, <1>2, <1>7 DEF Capacity

\* IncrementBlock extends a slot by the generator's value.
LEMMA GrowFacts ==
  ASSUME NEW m \in Nat, NEW n \in Nat, m <= n, NEW slot, DOMAIN slot = Capacity(m), NEW value
  PROVE  /\ IncrementBlock(slot, n, value)
              = [r \in Capacity(n) |-> IF r \in Capacity(m) THEN slot[r] ELSE value]
         /\ Capacity(m) \subseteq Capacity(n)
<1>1. Capacity(m) \cup Capacity(n) = Capacity(n) /\ Capacity(m) \subseteq Capacity(n)
  BY CapacityFacts
<1>2. QED
  BY <1>1 DEF IncrementBlock

----------------------------------------------------------------------------
(* One lemma per action.                                                    *)

\* An empty table satisfies the invariant.
LEMMA InitInv ==
  ASSUME Init
  PROVE  IndInv
<1>1. /\ 0 \in Nat /\ 0 .. -1 = {} /\ 0 * BlockSize = 0
      /\ MaxRows \in Nat /\ MaxSteps \in Nat /\ GradAccumSteps \in Nat \ {0}
  BY TableAssumption
<1>2. Capacity(0) = {}
  BY <1>1 DEF Capacity
<1>3. 0 \div FreeBlockSize = 0
  BY FreeBlockSizeAssumption
<1>4. Cells(0) = 0 .. FreeBlockSize - 1
  BY <1>3, FreeBlockSizeAssumption DEF Cells
<1>5. Live = {}
  BY DEF Init, Live, NullIndex
<1>6. TypeOK
  BY <1>1, <1>2, <1>4 DEF TypeOK, Init, AllocInit
<1>7. FreeRows = {}
  BY <1>1 DEF FreeRows, Init, AllocInit
<1>8. RowsPartitioned /\ ActiveSizeMatches
  BY <1>1, <1>5, <1>7, FS_EmptySet
  DEF Init, AllocInit, RowsPartitioned, ActiveSizeMatches, ActiveSize
<1>9. StorageCoversRows /\ RowsHoldOwnValues /\ GradsOwned /\ GradsPhase /\ GradsRecent
  BY <1>2 DEF Init, AllocInit, StorageCoversRows, RowsHoldOwnValues, GradsOwned, GradsPhase, GradsRecent
<1>10. Clocks
  BY <1>5 DEF Init, Clocks
<1>11. QED
  BY <1>6, <1>8, <1>9, <1>10 DEF IndInv

\* The effect of Forward's search, with or without admission, on the map.
LEMMA ForwardMap ==
  ASSUME IndInv, SafeSettings, NEW batch \in SUBSET Ids, NEW readonly \in BOOLEAN,
         Forward(batch, readonly)
  PROVE  /\ MapInv' /\ StorageCoversRows'
         /\ block_num' \in Nat /\ block_num <= block_num'
         /\ \A id \in Ids : ids_map[id] # NullIndex => ids_map'[id] = ids_map[id]
         /\ \A id \in Ids \ batch : ids_map'[id] = ids_map[id]
<1>1. MapInv /\ block_num \in Nat /\ MaxRows <= IntMax
  BY IndInvMap DEF SafeSettings
<1>2. CASE readonly
  <2>1. /\ UNCHANGED <<cur_size, free_size, free_blocks, ids_map>>
        /\ ReserveBlocksForIds(cur_size')
    BY <1>2 DEF Forward
  <2>2. cur_size' \in Nat
    BY <1>1, <2>1, TableAssumption DEF MapInv, MapTypeOK
  <2>3. QED
    BY <1>1, <2>1, <2>2, MapUnchanged, ReserveFacts
<1>3. CASE ~readonly
  <2>1. Lookup(batch)
    BY <1>3 DEF Forward
  <2>2. QED
    BY <1>1, <2>1, LookupFacts
<1>4. QED
  BY <1>2, <1>3

\* Forward: new ids get fresh rows, the looked-up rows carry the current step.
LEMMA ForwardInv ==
  ASSUME IndInv, SafeSettings, NEW batch \in SUBSET Ids, NEW readonly \in BOOLEAN,
         Forward(batch, readonly)
  PROVE  IndInv'
<1>1. /\ MapInv /\ block_num \in Nat
      /\ emb \in [Capacity(block_num) -> SUBSET Ids]
      /\ step_slot \in [Capacity(block_num) -> 0 .. MaxSteps]
      /\ MaxSteps \in Nat
  BY IndInvMap
<1>2. /\ MapInv' /\ StorageCoversRows'
      /\ block_num' \in Nat /\ block_num <= block_num'
      /\ \A id \in Ids : ids_map[id] # NullIndex => ids_map'[id] = ids_map[id]
      /\ \A id \in Ids \ batch : ids_map'[id] = ids_map[id]
  BY ForwardMap
<1>3. /\ ids_map \in [Ids -> Rows \cup {NullIndex}]
      /\ ids_map' \in [Ids -> Rows \cup {NullIndex}]
      /\ filter_now \in 0 .. MaxSteps /\ global_step \in 0 .. MaxSteps
      /\ local_step \in 0 .. GradAccumSteps - 1 /\ GradAccumSteps \in Nat
      /\ used \in [Ids -> 0 .. MaxSteps]
  BY <1>2, TableAssumption DEF MapInv, MapTypeOK, IndInv, TypeOK, Rows
<1>4. /\ emb' \in [Capacity(block_num') -> SUBSET Ids]
      /\ \A r \in Capacity(block_num) : emb'[r] = emb[r]
      /\ \A r \in Capacity(block_num') \ Capacity(block_num) : emb'[r] = {}
  <2>1. emb' = IncrementBlock(emb, block_num', {}) /\ DOMAIN emb = Capacity(block_num)
    BY <1>1 DEF Forward
  <2>2. /\ emb' = [r \in Capacity(block_num') |->
                      IF r \in Capacity(block_num) THEN emb[r] ELSE {}]
        /\ Capacity(block_num) \subseteq Capacity(block_num')
    BY <1>1, <1>2, <2>1, GrowFacts
  <2>3. QED
    BY <1>1, <2>2
<1> DEFINE grown == IncrementBlock(step_slot, block_num', 0)
           rows == {ids_map'[id] : id \in batch}
<1>5. /\ grown \in [Capacity(block_num') -> 0 .. MaxSteps]
      /\ \A r \in Capacity(block_num) : grown[r] = step_slot[r]
  <2>1. 0 \in 0 .. MaxSteps /\ DOMAIN step_slot = Capacity(block_num)
    BY <1>1
  <2>2. /\ grown = [r \in Capacity(block_num') |->
                       IF r \in Capacity(block_num) THEN step_slot[r] ELSE 0]
        /\ Capacity(block_num) \subseteq Capacity(block_num')
    BY <1>1, <1>2, <2>1, GrowFacts
  <2>3. QED
    BY <1>1, <2>1, <2>2
<1>6. /\ step_slot' \in [Capacity(block_num') -> 0 .. MaxSteps]
      /\ \A r \in Capacity(block_num') : step_slot'[r] = IF r \in rows THEN filter_now ELSE grown[r]
  <2>1. step_slot' = [r \in Capacity(block_num') |-> IF r \in rows THEN filter_now ELSE grown[r]]
    BY <1>4 DEF Forward
  <2> HIDE DEF grown, rows
  <2>2. QED
    BY <1>3, <1>5, <2>1
<1> HIDE DEF grown
<1>7. /\ phase' = "forward" /\ UNCHANGED <<grads, local_step, global_step, filter_now, last_filter>>
      /\ phase \in {"idle", "forward"}
      /\ saved' = saved \cup {[id |-> id, row |-> ids_map'[id]] : id \in batch}
      /\ used' = [id \in Ids |-> IF id \in batch /\ ids_map'[id] # NullIndex
                                 THEN filter_now ELSE used[id]]
  BY DEF Forward, filterVars
<1>8. TypeOK'
  <2>1. saved' \subseteq [id : Ids, row : Rows \cup {NullIndex}]
    BY <1>3, <1>7 DEF IndInv, TypeOK
  <2>2. used' \in [Ids -> 0 .. MaxSteps]
    BY <1>3, <1>7
  <2>3. /\ grads' \subseteq [id : Ids, row : Rows \cup {NullIndex}]
        /\ local_step' \in 0 .. GradAccumSteps - 1
        /\ global_step' \in 0 .. MaxSteps
        /\ filter_now' \in 0 .. MaxSteps
        /\ last_filter' \in 0 .. MaxSteps
    BY <1>7 DEF IndInv, TypeOK
  <2>4. MapTypeOK'
    BY <1>2 DEF MapInv
  <2>5. QED
    BY <1>2, <1>4, <1>6, <1>7, <2>1, <2>2, <2>3, <2>4 DEF TypeOK, MapTypeOK, Capacity, Cells, Rows
<1>9. RowsHoldOwnValues'
  <2>1. SUFFICES ASSUME NEW r \in Capacity(block_num'), NEW id \in emb'[r]
                 PROVE  id \in Ids /\ ids_map'[id] = r
    BY <1>4 DEF RowsHoldOwnValues
  <2>2. r \in Capacity(block_num) /\ id \in emb[r]
    BY <1>4
  <2>3. id \in Ids /\ ids_map[id] = r
    BY <1>1, <2>2 DEF IndInv, RowsHoldOwnValues
  <2>4. r # NullIndex
    BY <1>1, <2>2, CapacityFacts DEF NullIndex
  <2>5. QED
    BY <1>2, <2>3, <2>4
<1>10. GradsOwned'
  <2>1. \A g \in grads \cup saved : g.row = NullIndex \/ ids_map'[g.id] = g.row
    BY <1>2 DEF IndInv, GradsOwned, TypeOK
  <2>2. QED
    BY <1>7, <2>1 DEF GradsOwned
<1>11. GradsPhase'
  BY <1>7 DEF IndInv, GradsPhase
<1>12. ASSUME ~Interleaved PROVE \A g \in grads' \cup saved' :
          g.row # NullIndex => filter_now <= step_slot'[g.row] + local_step
  <2>1. ASSUME NEW g \in grads \cup saved, g.row # NullIndex
        PROVE  filter_now <= step_slot'[g.row] + local_step
    <3>1. g.id \in Ids /\ ids_map[g.id] = g.row /\ g.id \in Live
      BY <2>1 DEF IndInv, GradsOwned, TypeOK, Live
    <3>2. g.row \in Capacity(block_num) /\ g.row \in Capacity(block_num')
      BY <1>1, <1>2, <3>1, RowsStored, CapacityFacts DEF IndInv
    <3>3. filter_now <= step_slot[g.row] + local_step
      BY <1>7, <1>12, <2>1 DEF IndInv, GradsRecent, Age
    <3>4. step_slot[g.row] \in Nat
      BY <1>1, <3>2
    <3>5. QED
      BY <1>3, <1>5, <1>6, <3>2, <3>3, <3>4
  <2>2. ASSUME NEW id \in batch, ids_map'[id] # NullIndex
        PROVE  filter_now <= step_slot'[ids_map'[id]] + local_step
    <3>1. ids_map'[id] \in Capacity(block_num')
      <4>1. id \in Live'
        BY <2>2 DEF Live
      <4>2. QED
        BY <1>2, <4>1, RowsStoredNext
    <3>2. QED
      BY <1>3, <1>6, <3>1
  <2>3. QED
    BY <1>7, <2>1, <2>2
<1>13. GradsRecent'
  BY <1>7, <1>12 DEF GradsRecent, Age
<1>14. Clocks'
  <2>1. /\ global_step' <= filter_now' /\ last_filter' <= global_step'
        /\ (~Interleaved => filter_now' = global_step')
    BY <1>7 DEF IndInv, Clocks
  <2>2. \A id \in Ids \ Live' : used'[id] = 0
    BY <1>2, <1>7 DEF IndInv, Clocks, Live
  <2>3. ASSUME NEW id \in Live'
        PROVE  used'[id] <= step_slot'[ids_map'[id]]
    <3>1. id \in Ids /\ ids_map'[id] # NullIndex /\ ids_map'[id] \in Capacity(block_num')
      BY <1>2, RowsStoredNext DEF Live
    <3>2. CASE id \in batch
      BY <1>3, <1>6, <1>7, <2>3, <3>1, <3>2 DEF IndInv, Clocks
    <3>3. CASE id \notin batch
      <4>1. id \in Live /\ ids_map'[id] = ids_map[id] /\ used'[id] = used[id]
        BY <1>2, <1>7, <3>1, <3>3 DEF Live
      <4>2. used[id] <= step_slot[ids_map[id]] /\ ids_map[id] \in Capacity(block_num)
        BY <1>1, <2>3, <4>1, RowsStored DEF IndInv, Clocks
      <4>3. ids_map'[id] \notin rows
        <5>1. \A j \in batch : j \in Ids /\ (ids_map'[j] = ids_map'[id] => j \in Live')
          BY <3>1 DEF Live
        <5>2. \A j \in batch : ids_map'[j] = ids_map'[id] => j = id
          BY <1>2, <2>3, <5>1 DEF MapInv, RowsPartitioned
        <5>3. QED
          BY <3>3, <5>2
      <4>4. QED
        BY <1>5, <1>6, <3>1, <4>1, <4>2, <4>3
    <3>4. QED
      BY <3>2, <3>3
  <2>4. QED
    BY <2>1, <2>2, <2>3 DEF Clocks
<1>15. QED
  BY <1>2, <1>8, <1>9, <1>10, <1>11, <1>13, <1>14 DEF IndInv, MapInv

\* Backward moves the saved rows to the gradients.
LEMMA BackwardInv ==
  ASSUME IndInv, Backward
  PROVE  IndInv'
<1>1. /\ phase = "forward" /\ phase' = "backward" /\ grads' = grads \cup saved /\ saved' = {}
      /\ UNCHANGED <<cur_size, free_size, free_blocks, ids_map, block_num, emb, step_slot,
                     local_step, global_step, filter_now, last_filter, used>>
  BY DEF Backward, allocVars, tableVars, filterVars
<1>2. MapInv' /\ Live' = Live
  BY <1>1, IndInvMap, MapUnchanged
<1>3. TypeOK'
  BY <1>1 DEF IndInv, TypeOK, Capacity, Cells, Rows
<1>4. StorageCoversRows' /\ RowsHoldOwnValues'
  BY <1>1 DEF IndInv, StorageCoversRows, RowsHoldOwnValues, Capacity
<1>5. GradsOwned' /\ GradsPhase' /\ GradsRecent'
  BY <1>1 DEF IndInv, GradsOwned, GradsPhase, GradsRecent, Age
<1>6. Clocks'
  BY <1>1, <1>2 DEF IndInv, Clocks
<1>7. QED
  BY <1>2, <1>3, <1>4, <1>5, <1>6 DEF IndInv, MapInv

\* The optimizer applies waiting gradients to rows that their ids still own.
LEMMA OptimizerStepInv ==
  ASSUME IndInv, OptimizerStep
  PROVE  IndInv'
<1>1. /\ phase = "backward" /\ phase' = "stepped" /\ saved = {} /\ saved' = {}
      /\ local_step' = (local_step + 1) % GradAccumSteps
      /\ UNCHANGED <<cur_size, free_size, free_blocks, ids_map, block_num, step_slot,
                     global_step, filter_now, last_filter, used>>
  BY DEF OptimizerStep, allocVars, filterVars, IndInv, GradsPhase
<1>2. /\ local_step \in 0 .. GradAccumSteps - 1 /\ GradAccumSteps \in Nat \ {0}
      /\ emb \in [Capacity(block_num) -> SUBSET Ids]
      /\ grads \subseteq [id : Ids, row : Rows \cup {NullIndex}]
      /\ block_num \in Nat /\ filter_now \in Nat
      /\ step_slot \in [Capacity(block_num) -> 0 .. MaxSteps]
  BY TableAssumption, IndInvMap DEF IndInv, TypeOK
<1>3. \A l, n \in Nat : n # 0 /\ l <= n - 1 =>
         /\ (l + 1) % n \in 0 .. n - 1
         /\ (l + 1) % n = IF l + 1 = n THEN 0 ELSE l + 1
  <2>1. \A k \in Nat \ {0} : \A z \in 0 .. k - 1 : z % k = z
    OBVIOUS
  <2>2. \A k \in Nat \ {0} : k % k = 0
    OBVIOUS
  <2>3. QED
    BY <2>1, <2>2
<1>4. /\ local_step' \in 0 .. GradAccumSteps - 1
      /\ local_step' # 0 => local_step' = local_step + 1
  <2>1. local_step \in Nat /\ GradAccumSteps \in Nat /\ GradAccumSteps # 0
        /\ local_step <= GradAccumSteps - 1
    BY <1>2
  <2>2. /\ (local_step + 1) % GradAccumSteps \in 0 .. GradAccumSteps - 1
        /\ (local_step + 1) % GradAccumSteps
             = IF local_step + 1 = GradAccumSteps THEN 0 ELSE local_step + 1
    BY <1>3, <2>1
  <2>3. QED
    BY <1>1, <2>2
<1>5. MapInv' /\ Live' = Live
  BY <1>1, IndInvMap, MapUnchanged
<1>6. /\ emb' \in [Capacity(block_num) -> SUBSET Ids]
      /\ grads' \subseteq grads
      /\ local_step' = 0 => grads' = {}
      /\ \A r \in Capacity(block_num) : \A id \in emb'[r] :
            id \in emb[r] \/ \E g \in grads : g.id = id /\ g.row = r
  <2>1. CASE local_step' = 0
    <3>1. /\ emb' = [r \in Capacity(block_num) |->
                        emb[r] \cup {g.id : g \in {h \in grads : h.row = r}}]
          /\ grads' = {}
      BY <1>2, <2>1 DEF OptimizerStep
    <3>2. \A r \in Capacity(block_num) : {g.id : g \in {h \in grads : h.row = r}} \subseteq Ids
      BY <1>2
    <3>3. emb' \in [Capacity(block_num) -> SUBSET Ids]
      BY <1>2, <3>1, <3>2
    <3>4. QED
      BY <3>1, <3>3
  <2>2. CASE local_step' # 0
    BY <1>2, <2>2 DEF OptimizerStep
  <2>3. QED
    BY <2>1, <2>2
<1>7. TypeOK'
  BY <1>1, <1>2, <1>4, <1>6 DEF IndInv, TypeOK, Capacity, Cells, Rows
<1>8. RowsHoldOwnValues'
  <2>1. SUFFICES ASSUME NEW r \in Capacity(block_num), NEW id \in emb'[r]
                 PROVE  id \in Ids /\ ids_map[id] = r
    BY <1>1, <1>6 DEF RowsHoldOwnValues
  <2>2. CASE id \in emb[r]
    BY <1>2, <2>2 DEF IndInv, RowsHoldOwnValues
  <2>3. CASE \E g \in grads : g.id = id /\ g.row = r
    <3>1. r # NullIndex
      BY <1>2, CapacityFacts DEF NullIndex
    <3>2. QED
      BY <1>2, <2>3, <3>1 DEF IndInv, GradsOwned
  <2>4. QED
    BY <1>6, <2>2, <2>3
<1>9. StorageCoversRows' /\ GradsOwned' /\ GradsPhase'
  BY <1>1, <1>6 DEF IndInv, StorageCoversRows, GradsOwned, GradsPhase, Capacity
<1>10. GradsRecent'
  <2>1. CASE local_step' = 0
    BY <1>1, <1>6, <2>1 DEF GradsRecent
  <2>2. CASE local_step' # 0
    <3>1. local_step' - 1 = local_step
      BY <1>2, <1>4, <2>2
    <3>2. QED
      BY <1>1, <1>6, <3>1 DEF IndInv, GradsRecent, Age
  <2>3. QED
    BY <2>1, <2>2
<1>11. Clocks'
  BY <1>1, <1>5 DEF IndInv, Clocks
<1>12. QED
  BY <1>5, <1>7, <1>8, <1>9, <1>10, <1>11 DEF IndInv, MapInv

\* A deletion of ids for which no gradient waits.
LEMMA DeletionInv ==
  ASSUME IndInv, NEW dead \in SUBSET Live, Delete(dead), saved = {},
         \A g \in grads : g.row # NullIndex => g.id \notin dead,
         UNCHANGED <<block_num, saved, grads>>
  PROVE  /\ MapInv' /\ StorageCoversRows' /\ RowsHoldOwnValues' /\ GradsOwned'
         /\ emb' \in [Capacity(block_num) -> SUBSET Ids]
         /\ used' \in [Ids -> 0 .. MaxSteps]
         /\ \A id \in Ids \ Live' : used'[id] = 0
         /\ \A id \in Live' : id \in Live /\ used'[id] = used[id] /\ ids_map'[id] = ids_map[id]
<1>1. /\ MapInv /\ block_num \in Nat
      /\ emb \in [Capacity(block_num) -> SUBSET Ids]
      /\ MaxSteps \in Nat
      /\ used \in [Ids -> 0 .. MaxSteps]
      /\ grads \subseteq [id : Ids, row : Rows \cup {NullIndex}]
  BY IndInvMap DEF IndInv, TypeOK
<1>2. /\ MapInv' /\ cur_size' = cur_size
      /\ \A id \in Ids : ids_map'[id] = IF id \in dead THEN NullIndex ELSE ids_map[id]
  BY <1>1, DeleteFacts
<1>3. Live \subseteq Ids /\ Live' = Live \ dead
  BY <1>2 DEF Live
<1>4. StorageCoversRows'
  BY <1>2 DEF IndInv, StorageCoversRows, Capacity
<1>5. /\ emb' \in [Capacity(block_num) -> SUBSET Ids]
      /\ \A r \in Capacity(block_num) :
            emb'[r] = IF \E id \in dead : ids_map[id] = r THEN {} ELSE emb[r]
  BY <1>1 DEF Delete, ResetRows
<1>6. RowsHoldOwnValues'
  <2>1. SUFFICES ASSUME NEW r \in Capacity(block_num), NEW id \in emb'[r]
                 PROVE  id \in Ids /\ ids_map'[id] = r
    BY <1>5 DEF RowsHoldOwnValues
  <2>2. id \in emb[r] /\ ~ \E j \in dead : ids_map[j] = r
    BY <1>5
  <2>3. id \in Ids /\ ids_map[id] = r
    BY <1>1, <2>2 DEF IndInv, RowsHoldOwnValues
  <2>4. QED
    BY <1>2, <2>2, <2>3
<1>7. GradsOwned'
  BY <1>1, <1>2 DEF IndInv, GradsOwned
<1>8. /\ used' \in [Ids -> 0 .. MaxSteps]
      /\ \A id \in Ids : used'[id] = IF id \in dead THEN 0 ELSE used[id]
  BY <1>1 DEF Delete
<1>9. \A id \in Ids \ Live' : used'[id] = 0
  BY <1>3, <1>8 DEF IndInv, Clocks
<1>10. QED
  BY <1>2, <1>3, <1>4, <1>5, <1>6, <1>7, <1>8, <1>9

\* HashTableFilterHook.after_step, given that no gradient waits for a stale id.
LEMMA FilterInv ==
  ASSUME IndInv, NEW gstep \in Nat, last_filter <= gstep, FilterAfterStep(gstep), saved = {},
         \A g \in grads : g.row # NullIndex => g.id \notin Stale(filter_now + 1),
         UNCHANGED <<saved, grads>>
  PROVE  /\ MapInv' /\ StorageCoversRows' /\ RowsHoldOwnValues' /\ GradsOwned'
         /\ UNCHANGED <<block_num, step_slot>> /\ filter_now' = filter_now + 1
         /\ emb' \in [Capacity(block_num) -> SUBSET Ids]
         /\ used' \in [Ids -> 0 .. MaxSteps]
         /\ last_filter' \in Nat /\ last_filter' <= gstep
         /\ \A id \in Ids \ Live' : used'[id] = 0
         /\ \A id \in Live' : id \in Live /\ used'[id] = used[id] /\ ids_map'[id] = ids_map[id]
<1> DEFINE last == IF last_filter = 0 THEN gstep ELSE last_filter
<1>1. /\ UNCHANGED <<block_num, step_slot>> /\ filter_now' = filter_now + 1
      /\ last_filter \in Nat
  BY TableAssumption DEF FilterAfterStep, IndInv, TypeOK
<1>2. CASE gstep - last >= FilterInterval
  <2>1. Delete(Stale(filter_now + 1)) /\ last_filter' = gstep
    BY <1>2 DEF FilterAfterStep
  <2>2. Stale(filter_now + 1) \in SUBSET Live
    BY DEF Stale
  <2>3. QED
    BY <1>1, <2>1, <2>2, DeletionInv
<1>3. CASE ~(gstep - last >= FilterInterval)
  <2>1. last_filter' = last /\ UNCHANGED <<cur_size, free_size, free_blocks, ids_map, emb, used>>
    BY <1>3 DEF FilterAfterStep, allocVars
  <2>2. MapInv' /\ Live' = Live
    BY <2>1, IndInvMap, MapUnchanged
  <2>3. StorageCoversRows' /\ RowsHoldOwnValues' /\ GradsOwned'
    BY <1>1, <2>1 DEF IndInv, StorageCoversRows, RowsHoldOwnValues, GradsOwned, Capacity
  <2>4. /\ emb' \in [Capacity(block_num) -> SUBSET Ids]
        /\ used' \in [Ids -> 0 .. MaxSteps]
    BY <2>1 DEF IndInv, TypeOK
  <2>5. last_filter' \in Nat /\ last_filter' <= gstep
    BY <1>1, <2>1
  <2>6. /\ \A id \in Ids \ Live' : used'[id] = 0
        /\ \A id \in Live' : id \in Live /\ used'[id] = used[id] /\ ids_map'[id] = ids_map[id]
    BY <2>1, <2>2 DEF IndInv, Clocks
  <2>7. QED
    BY <1>1, <2>2, <2>3, <2>4, <2>5, <2>6
<1>4. QED
  BY <1>2, <1>3

\* The hooks after a training step: a waiting gradient is for an id looked up
\* at most GradAccumSteps - 1 steps ago, which the filter does not call stale.
LEMMA AfterTrainStepInv ==
  ASSUME IndInv, SafeSettings, AfterTrainStep
  PROVE  IndInv'
<1>1. /\ phase = "stepped" /\ phase' = "idle" /\ filter_now < MaxSteps
      /\ global_step' = global_step + 1 /\ FilterAfterStep(global_step + 1)
      /\ UNCHANGED <<saved, grads, local_step>> /\ saved = {}
  BY DEF AfterTrainStep, IndInv, GradsPhase
<1>2. /\ MapInv /\ block_num \in Nat
      /\ step_slot \in [Capacity(block_num) -> 0 .. MaxSteps]
      /\ MaxSteps \in Nat /\ FilterStep \in Nat /\ GradAccumSteps \in Nat
      /\ global_step \in Nat /\ filter_now \in Nat /\ last_filter \in Nat
      /\ local_step \in 0 .. GradAccumSteps - 1
      /\ global_step <= filter_now /\ last_filter <= global_step
  BY IndInvMap, TableAssumption DEF IndInv, TypeOK, Clocks
<1>3. ASSUME NEW g \in grads, g.row # NullIndex
      PROVE  /\ g.id \in Live /\ ids_map[g.id] = g.row /\ step_slot[g.row] \in Nat
             /\ ~Interleaved => filter_now + 1 <= step_slot[g.row] + local_step
  <2>1. g.id \in Live /\ ids_map[g.id] = g.row
    BY <1>3 DEF IndInv, TypeOK, GradsOwned, Live
  <2>2. step_slot[g.row] \in Nat
    BY <1>2, <2>1, RowsStored DEF IndInv
  <2>3. ~Interleaved => filter_now <= step_slot[g.row] + (local_step - 1)
    BY <1>1, <1>3 DEF IndInv, GradsRecent, Age
  <2>4. QED
    BY <1>2, <2>1, <2>2, <2>3
<1>4. \A g \in grads : g.row # NullIndex => g.id \notin Stale(filter_now + 1)
  <2>1. CASE GradAccumSteps = 1
    <3>1. local_step = 0
      BY <1>2, <2>1
    <3>2. QED
      BY <1>1, <3>1 DEF IndInv, GradsPhase
  <2>2. CASE ~Interleaved /\ GradAccumSteps - 1 <= FilterStep
    <3>1. SUFFICES ASSUME NEW g \in grads, g.row # NullIndex, g.id \in Stale(filter_now + 1)
                   PROVE  FALSE
      OBVIOUS
    <3>2. step_slot[g.row] < filter_now + 1 - FilterStep
      <4>1. step_slot[ids_map[g.id]] < filter_now + 1 - FilterStep
        BY <1>2, <3>1 DEF Stale
      <4>2. ids_map[g.id] = g.row
        BY <1>3, <3>1
      <4>3. QED
        BY <4>1, <4>2
    <3>3. filter_now + 1 <= step_slot[g.row] + local_step /\ step_slot[g.row] \in Nat
      BY <1>3, <2>2, <3>1
    <3>4. QED
      BY <1>2, <2>2, <3>2, <3>3
  <2>3. QED
    BY <2>1, <2>2 DEF SafeSettings
<1>5. global_step + 1 \in Nat /\ last_filter <= global_step + 1
  BY <1>2
<1>6. /\ MapInv' /\ StorageCoversRows' /\ RowsHoldOwnValues' /\ GradsOwned'
      /\ UNCHANGED <<block_num, step_slot>> /\ filter_now' = filter_now + 1
      /\ emb' \in [Capacity(block_num) -> SUBSET Ids]
      /\ used' \in [Ids -> 0 .. MaxSteps]
      /\ last_filter' \in Nat /\ last_filter' <= global_step + 1
      /\ \A id \in Ids \ Live' : used'[id] = 0
      /\ \A id \in Live' : id \in Live /\ used'[id] = used[id] /\ ids_map'[id] = ids_map[id]
  BY <1>1, <1>4, <1>5, FilterInv
<1>7. TypeOK'
  <2>1. /\ global_step' \in 0 .. MaxSteps /\ filter_now' \in 0 .. MaxSteps
        /\ last_filter' \in 0 .. MaxSteps
    BY <1>1, <1>2, <1>6
  <2>2. MapTypeOK'
    BY <1>6 DEF MapInv
  <2>3. QED
    BY <1>1, <1>2, <1>6, <2>1, <2>2 DEF IndInv, TypeOK, MapTypeOK, Capacity, Cells, Rows
<1>8. GradsPhase'
  BY <1>1 DEF IndInv, GradsPhase
<1>9. GradsRecent'
  BY <1>1, <1>3, <1>6 DEF GradsRecent, Age
<1>10. Clocks'
  BY <1>1, <1>2, <1>6 DEF IndInv, Clocks
<1>11. QED
  BY <1>6, <1>7, <1>8, <1>9, <1>10 DEF IndInv, MapInv

\* With evaluations between the training steps there is no accumulation, so
\* outside a training step no gradient waits.
LEMMA NothingWaits ==
  ASSUME IndInv, SafeSettings, Interleaved, phase \in {"idle", "evaluated"}
  PROVE  grads = {} /\ saved = {}
<1>1. GradAccumSteps = 1
  BY DEF SafeSettings
<1>2. local_step = 0
  BY <1>1 DEF IndInv, TypeOK
<1>3. QED
  BY <1>2 DEF IndInv, GradsPhase

\* The hooks after an evaluation step.
LEMMA AfterEvalStepInv ==
  ASSUME IndInv, SafeSettings, AfterEvalStep
  PROVE  IndInv'
<1>1. /\ phase = "evaluated" /\ phase' = "idle" /\ filter_now < MaxSteps
      /\ FilterAfterStep(global_step) /\ Interleaved
      /\ UNCHANGED <<global_step, saved, grads, local_step>>
  BY DEF AfterEvalStep, IndInv, GradsPhase
<1>2. grads = {} /\ saved = {}
  BY <1>1, NothingWaits
<1>3. /\ MaxSteps \in Nat /\ global_step \in 0 .. MaxSteps /\ filter_now \in Nat
      /\ global_step <= filter_now /\ last_filter <= global_step
  BY TableAssumption DEF IndInv, TypeOK, Clocks
<1>4. /\ MapInv' /\ StorageCoversRows' /\ RowsHoldOwnValues' /\ GradsOwned'
      /\ UNCHANGED <<block_num, step_slot>> /\ filter_now' = filter_now + 1
      /\ emb' \in [Capacity(block_num) -> SUBSET Ids]
      /\ used' \in [Ids -> 0 .. MaxSteps]
      /\ last_filter' \in Nat /\ last_filter' <= global_step
      /\ \A id \in Ids \ Live' : used'[id] = 0
      /\ \A id \in Live' : id \in Live /\ used'[id] = used[id] /\ ids_map'[id] = ids_map[id]
  BY <1>1, <1>2, <1>3, FilterInv
<1>5. TypeOK'
  <2>1. filter_now' \in 0 .. MaxSteps /\ last_filter' \in 0 .. MaxSteps
    BY <1>1, <1>3, <1>4
  <2>2. MapTypeOK'
    BY <1>4 DEF MapInv
  <2>3. QED
    BY <1>1, <1>4, <2>1, <2>2 DEF IndInv, TypeOK, MapTypeOK, Capacity, Cells, Rows
<1>6. GradsPhase' /\ GradsRecent'
  BY <1>1, <1>2 DEF GradsPhase, GradsRecent
<1>7. Clocks'
  BY <1>1, <1>3, <1>4 DEF IndInv, Clocks
<1>8. QED
  BY <1>4, <1>5, <1>6, <1>7 DEF IndInv, MapInv

\* An evaluation step's read-only lookup at most allocates a block.
LEMMA EvalForwardInv ==
  ASSUME IndInv, EvalForward
  PROVE  IndInv'
<1>1. /\ Interleaved /\ phase = "idle" /\ phase' = "evaluated"
      /\ ReserveBlocksForIds(cur_size')
      /\ emb' = IncrementBlock(emb, block_num', {})
      /\ step_slot' = IncrementBlock(step_slot, block_num', 0)
      /\ UNCHANGED <<cur_size, free_size, free_blocks, ids_map, saved, grads, local_step,
                     global_step, filter_now, last_filter, used>>
  BY DEF EvalForward, allocVars, filterVars
<1>2. /\ MapInv /\ block_num \in Nat
      /\ emb \in [Capacity(block_num) -> SUBSET Ids]
      /\ step_slot \in [Capacity(block_num) -> 0 .. MaxSteps]
      /\ MaxSteps \in Nat
  BY IndInvMap
<1>3. MapInv' /\ Live' = Live
  BY <1>1, <1>2, MapUnchanged
<1>4. cur_size' \in Nat
  BY <1>3, TableAssumption DEF MapInv, MapTypeOK
<1>5. block_num' \in Nat /\ block_num <= block_num' /\ StorageCoversRows'
  BY <1>1, <1>2, <1>4, ReserveFacts
<1>6. /\ emb' = [r \in Capacity(block_num') |-> IF r \in Capacity(block_num) THEN emb[r] ELSE {}]
      /\ step_slot' = [r \in Capacity(block_num') |->
                          IF r \in Capacity(block_num) THEN step_slot[r] ELSE 0]
  <2>1. DOMAIN emb = Capacity(block_num) /\ DOMAIN step_slot = Capacity(block_num)
    BY <1>2
  <2>2. QED
    BY <1>1, <1>2, <1>5, <2>1, GrowFacts
<1>7. /\ emb' \in [Capacity(block_num') -> SUBSET Ids]
      /\ step_slot' \in [Capacity(block_num') -> 0 .. MaxSteps]
  BY <1>2, <1>6
<1>8. TypeOK'
  BY <1>1, <1>5, <1>7 DEF IndInv, TypeOK, Capacity, Cells, Rows
<1>9. RowsHoldOwnValues'
  BY <1>1, <1>2, <1>6 DEF IndInv, RowsHoldOwnValues
<1>10. GradsOwned' /\ GradsPhase' /\ GradsRecent'
  BY <1>1 DEF IndInv, GradsOwned, GradsPhase, GradsRecent
<1>11. Clocks'
  <2>1. ASSUME NEW id \in Live
        PROVE  used'[id] <= step_slot'[ids_map'[id]]
    <3>1. ids_map[id] \in Capacity(block_num)
      BY <1>2, RowsStored DEF IndInv
    <3>2. ids_map[id] \in Capacity(block_num')
      BY <1>1, <1>2, <1>5, <3>1, CapacityFacts
    <3>3. QED
      BY <1>1, <1>6, <3>1, <3>2 DEF IndInv, Clocks
  <2>2. QED
    BY <1>1, <1>3, <2>1 DEF IndInv, Clocks
<1>12. QED
  BY <1>3, <1>5, <1>8, <1>9, <1>10, <1>11 DEF IndInv, MapInv

\* Insertion of given embeddings; an id it adds has no recorded access.
LEMMA InsertInv ==
  ASSUME IndInv, SafeSettings, NEW batch \in SUBSET Ids, Insert(batch)
  PROVE  IndInv'
<1>1. /\ phase = "idle" /\ Lookup(batch)
      /\ step_slot' = IncrementBlock(step_slot, block_num', 0)
      /\ UNCHANGED <<saved, grads, local_step, phase, global_step, filter_now, last_filter, used>>
  BY DEF Insert, trainVars, filterVars
<1>2. /\ MapInv /\ block_num \in Nat
      /\ emb \in [Capacity(block_num) -> SUBSET Ids]
      /\ step_slot \in [Capacity(block_num) -> 0 .. MaxSteps]
      /\ MaxSteps \in Nat /\ MaxRows <= IntMax
  BY IndInvMap DEF SafeSettings
<1>3. /\ MapInv' /\ StorageCoversRows'
      /\ block_num' \in Nat /\ block_num <= block_num'
      /\ \A id \in Ids : ids_map[id] # NullIndex => ids_map'[id] = ids_map[id]
      /\ \A id \in Ids \ batch : ids_map'[id] = ids_map[id]
  BY <1>1, <1>2, LookupFacts
<1>4. DOMAIN emb = Capacity(block_num) /\ DOMAIN step_slot = Capacity(block_num)
  BY <1>2
<1> DEFINE grown == IncrementBlock(emb, block_num', {})
<1>5. /\ grown = [r \in Capacity(block_num') |-> IF r \in Capacity(block_num) THEN emb[r] ELSE {}]
      /\ step_slot' = [r \in Capacity(block_num') |->
                          IF r \in Capacity(block_num) THEN step_slot[r] ELSE 0]
      /\ Capacity(block_num) \subseteq Capacity(block_num')
  BY <1>1, <1>2, <1>3, <1>4, GrowFacts
<1>6. emb' = [r \in DOMAIN grown |-> IF \E id \in batch : ids_map'[id] = r
                                      THEN {id \in batch : ids_map'[id] = r} ELSE grown[r]]
  BY DEF Insert
<1> HIDE DEF grown
<1>7. /\ emb' \in [Capacity(block_num') -> SUBSET Ids]
      /\ step_slot' \in [Capacity(block_num') -> 0 .. MaxSteps]
  BY <1>2, <1>5, <1>6
<1>8. TypeOK'
  <2>1. MapTypeOK'
    BY <1>3 DEF MapInv
  <2>2. QED
    BY <1>1, <1>3, <1>7, <2>1 DEF IndInv, TypeOK, MapTypeOK, Capacity, Cells, Rows
<1>9. RowsHoldOwnValues'
  <2>1. SUFFICES ASSUME NEW r \in Capacity(block_num'), NEW id \in emb'[r]
                 PROVE  id \in Ids /\ ids_map'[id] = r
    BY <1>7 DEF RowsHoldOwnValues
  <2>2. CASE id \in batch /\ ids_map'[id] = r
    BY <2>2
  <2>3. CASE id \in grown[r]
    <3>1. r \in Capacity(block_num) /\ id \in emb[r]
      BY <1>5, <2>3
    <3>2. id \in Ids /\ ids_map[id] = r /\ r # NullIndex
      BY <1>2, <3>1, CapacityFacts DEF IndInv, RowsHoldOwnValues, NullIndex
    <3>3. QED
      BY <1>3, <3>2
  <2>4. QED
    BY <1>5, <1>6, <2>2, <2>3
<1>10. GradsOwned'
  BY <1>1, <1>3 DEF IndInv, TypeOK, GradsOwned
<1>11. GradsPhase'
  BY <1>1 DEF IndInv, GradsPhase
<1>12. \A id \in Live : ids_map[id] \in Capacity(block_num)
  BY <1>2, RowsStored DEF IndInv
<1>13. GradsRecent'
  <2>1. \A g \in grads \cup saved : g.row # NullIndex => g.row \in Capacity(block_num)
    BY <1>12 DEF IndInv, TypeOK, GradsOwned, Live
  <2>2. QED
    BY <1>1, <1>5, <2>1 DEF IndInv, GradsRecent, Age
<1>14. Clocks'
  <2>1. \A id \in Ids \ Live' : used'[id] = 0
    BY <1>1, <1>3 DEF IndInv, Clocks, Live
  <2>2. ASSUME NEW id \in Live'
        PROVE  used'[id] <= step_slot'[ids_map'[id]]
    <3>1. CASE id \in Live
      BY <1>1, <1>3, <1>5, <1>12, <2>2, <3>1 DEF IndInv, Clocks, Live
    <3>2. CASE id \notin Live
      <4>1. used[id] = 0
        BY <3>2 DEF IndInv, Clocks, Live
      <4>2. ids_map'[id] \in Capacity(block_num')
        BY <1>3, RowsStoredNext
      <4>3. step_slot'[ids_map'[id]] \in 0 .. MaxSteps
        BY <1>7, <4>2
      <4>4. QED
        BY <1>1, <4>1, <4>3
    <3>3. QED
      BY <3>1, <3>2
  <2>3. QED
    BY <1>1, <2>1, <2>2 DEF IndInv, Clocks
<1>15. QED
  BY <1>3, <1>8, <1>9, <1>10, <1>11, <1>13, <1>14 DEF IndInv, MapInv

\* A clear deletes every id and resets the filter slot.
LEMMA ClearInv ==
  ASSUME IndInv, SafeSettings, Clear
  PROVE  IndInv'
<1>1. /\ Interleaved /\ phase = "idle" /\ Delete(Live)
      /\ step_slot' = [r \in DOMAIN step_slot |->
                          IF r \in {ids_map[id] : id \in Live} THEN 0 ELSE step_slot[r]]
      /\ UNCHANGED <<block_num, saved, grads, local_step, phase,
                     global_step, filter_now, last_filter>>
  BY DEF Clear, trainVars, filterVars
<1>2. grads = {} /\ saved = {}
  BY <1>1, NothingWaits
<1>3. /\ MapInv' /\ StorageCoversRows' /\ RowsHoldOwnValues' /\ GradsOwned'
      /\ emb' \in [Capacity(block_num) -> SUBSET Ids]
      /\ used' \in [Ids -> 0 .. MaxSteps]
      /\ \A id \in Ids \ Live' : used'[id] = 0
  <2>1. Live \in SUBSET Live
    OBVIOUS
  <2>2. QED
    BY <1>1, <1>2, <2>1, DeletionInv
<1>4. step_slot' \in [Capacity(block_num) -> 0 .. MaxSteps]
  BY <1>1, IndInvMap
<1>5. TypeOK'
  <2>1. MapTypeOK'
    BY <1>3 DEF MapInv
  <2>2. QED
    BY <1>1, <1>3, <1>4, <2>1 DEF IndInv, TypeOK, MapTypeOK, Capacity, Cells, Rows
<1>6. GradsPhase' /\ GradsRecent'
  BY <1>1, <1>2 DEF IndInv, GradsPhase, GradsRecent
<1>7. Clocks'
  <2>1. Live' = {}
    BY <1>1 DEF Delete, Live
  <2>2. QED
    BY <1>1, <1>3, <2>1 DEF IndInv, Clocks
<1>8. QED
  BY <1>3, <1>5, <1>6, <1>7 DEF IndInv, MapInv

\* A step that changes nothing.
LEMMA StutterInv ==
  ASSUME IndInv, UNCHANGED vars
  PROVE  IndInv'
<1>1. UNCHANGED <<cur_size, free_size, free_blocks, ids_map, block_num, emb, step_slot,
                  saved, grads, local_step, phase, global_step, filter_now, last_filter, used>>
  BY DEF vars, allocVars, tableVars, trainVars, filterVars
<1>2. MapInv' /\ Live' = Live
  BY <1>1, IndInvMap, MapUnchanged
<1>3. TypeOK'
  BY <1>1 DEF IndInv, TypeOK, Capacity, Cells, Rows
<1>4. StorageCoversRows' /\ RowsHoldOwnValues'
  BY <1>1 DEF IndInv, StorageCoversRows, RowsHoldOwnValues, Capacity
<1>5. GradsOwned' /\ GradsPhase' /\ GradsRecent'
  BY <1>1 DEF IndInv, GradsOwned, GradsPhase, GradsRecent, Age
<1>6. Clocks'
  BY <1>1, <1>2 DEF IndInv, Clocks
<1>7. QED
  BY <1>2, <1>3, <1>4, <1>5, <1>6 DEF IndInv, MapInv

\* Every step of the table preserves the inductive invariant.
LEMMA NextInv ==
  ASSUME IndInv, SafeSettings, [Next]_vars
  PROVE  IndInv'
<1>1. Batches \subseteq SUBSET Ids
  BY DEF Batches
<1>2. QED
  BY <1>1, ForwardInv, BackwardInv, OptimizerStepInv, AfterTrainStepInv, EvalForwardInv,
     AfterEvalStepInv, InsertInv, ClearInv, StutterInv
  DEF Next

----------------------------------------------------------------------------
(* The theorems.                                                            *)

\* Under safe settings the inductive invariant holds throughout.
LEMMA Invariance ==
  ASSUME SafeSettings
  PROVE  Spec => []IndInv
<1>1. Init => IndInv
  BY InitInv
<1>2. IndInv /\ [Next]_vars => IndInv'
  BY NextInv
<1>3. QED
  BY <1>1, <1>2, PTL DEF Spec

\* For any number of ids, rows and steps: lookups, evictions and clears hand
\* out, free and reuse rows so that each belongs to one id or is free once.
THEOREM RowsPartitionedTheorem ==
  ASSUME SafeSettings
  PROVE  Spec => [](TypeOK /\ RowsPartitioned)
<1>1. IndInv => TypeOK /\ RowsPartitioned
  BY DEF IndInv
<1>2. QED
  BY <1>1, Invariance, PTL

\* The size checks of Ids, Index and SnapShot never fail, as long as the rows
\* are fewer than an int can count.
THEOREM ActiveSizeTheorem ==
  ASSUME SafeSettings
  PROVE  Spec => []ActiveSizeMatches
<1>1. IndInv => ActiveSizeMatches
  BY DEF IndInv
<1>2. QED
  BY <1>1, Invariance, PTL

\* Every row handed out lies in an allocated block.
THEOREM StorageTheorem ==
  ASSUME SafeSettings
  PROVE  Spec => []StorageCoversRows
<1>1. IndInv => StorageCoversRows
  BY DEF IndInv
<1>2. QED
  BY <1>1, Invariance, PTL

\* Under safe settings no value or late gradient of an evicted id reaches the
\* row's next owner.
THEOREM RowsHoldOwnValuesTheorem ==
  ASSUME SafeSettings
  PROVE  Spec => []RowsHoldOwnValues
<1>1. IndInv => RowsHoldOwnValues
  BY DEF IndInv
<1>2. QED
  BY <1>1, Invariance, PTL

\* The three facts about rows together.
THEOREM RowsAccountedTheorem ==
  ASSUME SafeSettings
  PROVE  Spec => []RowsAccounted
<1>1. IndInv => RowsAccounted
  BY DEF IndInv, RowsAccounted
<1>2. QED
  BY <1>1, Invariance, PTL

\* The filter evicts an id only when more than FilterStep steps of its own
\* clock have passed since the id's last training lookup; evaluation steps
\* advance that clock.
THEOREM EvictsOnlyStaleTheorem ==
  ASSUME SafeSettings
  PROVE  Spec => EvictsOnlyStale
<1> DEFINE Kept == \A id \in Live : phase # "idle" /\ ids_map'[id] = NullIndex
                       => filter_now' - used[id] > FilterStep
<1>1. IndInv /\ [Next]_vars => [Kept]_vars
  <2>1. SUFFICES ASSUME IndInv, Next PROVE Kept
    OBVIOUS
  <2>2. SUFFICES ASSUME NEW id \in Live, phase # "idle", ids_map'[id] = NullIndex
                 PROVE  filter_now' - used[id] > FilterStep
    OBVIOUS
  <2>3. id \in Ids /\ ids_map[id] # NullIndex
    BY DEF Live
  <2>4. \E gstep : FilterAfterStep(gstep)
    <3>1. ASSUME NEW batch \in Batches, NEW readonly \in BOOLEAN, Forward(batch, readonly)
          PROVE  FALSE
      <4>1. batch \in SUBSET Ids
        BY DEF Batches
      <4>2. ids_map'[id] = ids_map[id]
        BY <2>1, <2>3, <3>1, <4>1, ForwardMap
      <4>3. QED
        BY <2>2, <2>3, <4>2
    <3>2. \A batch \in Batches : ~Insert(batch)
      BY <2>2 DEF Insert
    <3>3. ~EvalForward /\ ~Clear /\ ~Backward /\ ~OptimizerStep
      BY <2>2, <2>3 DEF EvalForward, Clear, Backward, OptimizerStep, tableVars
    <3>4. AfterTrainStep \/ AfterEvalStep
      BY <2>1, <3>1, <3>2, <3>3 DEF Next
    <3>5. QED
      BY <3>4 DEF AfterTrainStep, AfterEvalStep
  <2>5. PICK gstep : FilterAfterStep(gstep)
    BY <2>4
  <2>6. /\ filter_now' = filter_now + 1 /\ filter_now \in Nat /\ FilterStep \in Nat
        /\ used[id] \in Nat /\ used[id] <= step_slot[ids_map[id]]
    BY <2>1, <2>3, <2>5, TableAssumption DEF FilterAfterStep, IndInv, TypeOK, Clocks
  <2>7. Delete(Stale(filter_now + 1))
    BY <2>2, <2>3, <2>5 DEF FilterAfterStep
  <2>8. id \in Stale(filter_now + 1)
    BY <2>2, <2>3, <2>7 DEF Delete
  <2>9. step_slot[ids_map[id]] \in Nat
    BY <2>1, IndInvMap, RowsStored DEF IndInv
  <2>10. QED
    BY <2>6, <2>8, <2>9 DEF Stale
<1>2. QED
  BY <1>1, Invariance, PTL DEF Spec, EvictsOnlyStale

\* Where no evaluation comes between the training steps, the filter's clock is
\* the trainer's global step: there the steps of EvictsOnlyStale are the
\* training steps that the filter's documentation speaks of.
THEOREM FilterClockIsGlobalStep ==
  ASSUME SafeSettings, ~Interleaved
  PROVE  Spec => [](filter_now = global_step)
<1>1. IndInv => filter_now = global_step
  BY DEF IndInv, Clocks
<1>2. QED
  BY <1>1, Invariance, PTL
============================================================================
