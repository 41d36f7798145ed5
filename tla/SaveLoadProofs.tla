---------------------------- MODULE SaveLoadProofs ----------------------------
(* Proofs about writing a checkpoint and loading from one: about SaveBundle *)
(* for any number of shards, writers, blocks and attempts, and about        *)
(* ModelBank for any bank, model and checkpoints.                           *)
EXTENDS SaveBundle, ModelBank, FiniteSetTheorems, WellFoundedInduction, TLAPS

\* The writers that got a block are writers.
LEMMA UsedWriters ==
  ASSUME NEW s \in Shards
  PROVE  Used(s) \subseteq Writers
<1>1. BlockNum[s] \in Nat /\ Parallel \in Nat \ {0}
  BY BundleAssumption
<1>2. \A b \in 0 .. BlockNum[s] - 1 : WriterOf(b) \in Writers
  BY <1>1 DEF WriterOf, Writers
<1>3. QED
  BY <1>2 DEF Used

\* A rank past the renames has stored its tables in this attempt, and one that
\* renames has stored those before the next writer.
TablesWritten ==
  \A s \in Shards :
    /\ pc[s] \in Kinds \cup {"barrier", "done"} =>
         \A w \in Used(s) : data[s][w] = attempt
    /\ pc[s] = "save_tables" =>
         \A w \in Used(s) : w < table[s] => data[s][w] = attempt

\* Only rank 0 merges, it ends with the index, and the ranks return together.
RanksInOrder ==
  /\ \A s \in Shards : pc[s] \in Kinds => s = 0
  /\ pc[0] \in {"barrier", "done"} => index = attempt
  /\ \A r, s \in Shards : pc[r] = "done" => pc[s] = "done"

\* What rank 0 has seen of the shards' meta, on disk or merged, is stored.
SeenIsStored ==
  /\ \A s \in Shards : shared["rank_json"][s] # 0 => Stored(s)
  /\ pc[0] = "rank_json" => \A s \in Shards : collected[s] # 0 => Stored(s)
  /\ pc[0] \in {"tensor_key", "meta"} => \A s \in Shards : Stored(s)

IndInv ==
  /\ BundleTypeOK /\ attempt # 0
  /\ TablesWritten /\ RanksInOrder /\ SeenIsStored /\ IndexMeansStored

\* Rank 0 exists.
LEMMA ZeroShard == 0 \in Shards
  BY BundleAssumption DEF Shards

\* The empty directory satisfies the invariant.
LEMMA InitInv == BundleInit => IndInv
<1> SUFFICES ASSUME BundleInit PROVE IndInv
  OBVIOUS
<1>1. BundleTypeOK /\ attempt # 0
  BY BundleAssumption DEF BundleInit, BundleTypeOK, None, Kinds
<1>2. TablesWritten /\ RanksInOrder /\ SeenIsStored /\ IndexMeansStored
  BY ZeroShard DEF BundleInit, TablesWritten, RanksInOrder, SeenIsStored, IndexMeansStored, Kinds, None
<1>3. QED
  BY <1>1, <1>2 DEF IndInv

\* The steps that publish a shard's index and tensor keys.
LEMMA SaveMetaInv ==
  ASSUME IndInv, NEW s \in Shards, SaveMeta(s) \/ SaveTensorKey(s)
  PROVE  IndInv'
<1>1. /\ pc[s] \in {"save_meta", "save_tensor_key"}
      /\ pc' \in {[pc EXCEPT ![s] = "save_tensor_key"], [pc EXCEPT ![s] = "save_tables"]}
      /\ pc'[s] = "save_tables" => table'[s] = 0
      /\ \A r \in Shards \ {s} : table'[r] = table[r]
      /\ \A r \in Shards : shared'["rank_json"][r] = shared["rank_json"][r]
      /\ UNCHANGED <<attempt, data, json, collected, index>>
  BY DEF IndInv, BundleTypeOK, SaveMeta, SaveTensorKey, Kinds
<1>2. BundleTypeOK'
  <2>1. CASE SaveMeta(s)
    BY <1>1, <2>1 DEF IndInv, BundleTypeOK, SaveMeta, Kinds
  <2>2. CASE SaveTensorKey(s)
    <3>1. table' \in [Shards -> 0 .. Parallel]
      BY <2>2, BundleAssumption DEF IndInv, BundleTypeOK, SaveTensorKey
    <3>2. shared' \in [Kinds -> [Shards -> Nat]]
      BY <2>2 DEF IndInv, BundleTypeOK, SaveTensorKey, Kinds
    <3>3. QED
      BY <1>1, <3>1, <3>2 DEF IndInv, BundleTypeOK, Kinds
  <2>3. QED
    BY <2>1, <2>2
<1>3. TablesWritten'
  <2>1. \A w \in Used(s) : w \in Nat
    BY UsedWriters, BundleAssumption DEF Writers
  <2>2. \A w \in Used(s) : ~(w < 0)
    BY <2>1
  <2>3. pc'[s] \in {"save_tensor_key", "save_tables"} /\ \A r \in Shards \ {s} : pc'[r] = pc[r]
    BY <1>1 DEF IndInv, BundleTypeOK
  <2>4. \A r \in Shards \ {s} : table'[r] = table[r] /\ data'[r] = data[r]
    BY <1>1
  <2>5. pc'[s] = "save_tables" => \A w \in Used(s) : w < table'[s] => data'[s][w] = attempt'
    BY <1>1, <2>2
  <2>6. QED
    BY <1>1, <2>3, <2>4, <2>5 DEF IndInv, TablesWritten, Used, WriterOf, Kinds
<1>4. RanksInOrder'
  BY <1>1, ZeroShard DEF IndInv, BundleTypeOK, RanksInOrder, Kinds
<1>5. SeenIsStored' /\ IndexMeansStored'
  BY <1>1, ZeroShard DEF IndInv, BundleTypeOK, SeenIsStored, IndexMeansStored, Stored, Used, WriterOf, Kinds
<1>6. QED
  BY <1>1, <1>2, <1>3, <1>4, <1>5 DEF IndInv

\* A rename stores the next writer's table, and never takes one away.
LEMMA RenameTableInv ==
  ASSUME IndInv, NEW s \in Shards, RenameTable(s)
  PROVE  IndInv'
<1>1. /\ pc[s] = "save_tables" /\ table[s] \in Nat /\ table[s] < Parallel
      /\ table' = [table EXCEPT ![s] = table[s] + 1]
      /\ UNCHANGED <<pc, attempt, shared, collected, index>>
  BY BundleAssumption DEF IndInv, BundleTypeOK, RenameTable
<1>2. table[s] \in Writers /\ Parallel \in Nat
  BY <1>1, BundleAssumption DEF Writers
<1>3. BundleTypeOK'
  <2>1. table' \in [Shards -> 0 .. Parallel]
    BY <1>1, <1>2 DEF IndInv, BundleTypeOK
  <2>2. data' \in [Shards -> [Writers -> Nat]] /\ json' \in [Shards -> [Writers -> Nat]]
    <3>1. CASE table[s] \in Used(s)
      <4>1. /\ data' = [data EXCEPT ![s] = [data[s] EXCEPT ![table[s]] = attempt]]
            /\ json' = [json EXCEPT ![s] = [json[s] EXCEPT ![table[s]] = attempt]]
        BY <3>1 DEF RenameTable
      <4>2. /\ [data[s] EXCEPT ![table[s]] = attempt] \in [Writers -> Nat]
            /\ [json[s] EXCEPT ![table[s]] = attempt] \in [Writers -> Nat]
        BY <1>2 DEF IndInv, BundleTypeOK
      <4>3. QED
        BY <4>1, <4>2 DEF IndInv, BundleTypeOK
    <3>2. CASE table[s] \notin Used(s)
      BY <3>2 DEF IndInv, BundleTypeOK, RenameTable
    <3>3. QED
      BY <3>1, <3>2
  <2>3. QED
    BY <1>1, <2>1, <2>2 DEF IndInv, BundleTypeOK, Kinds
<1>4. /\ \A r \in Shards : \A w \in Writers :
           data'[r][w] = IF r = s /\ w = table[s] /\ w \in Used(s) THEN attempt ELSE data[r][w]
  BY <1>1, <1>2 DEF IndInv, BundleTypeOK, RenameTable
<1>5. \A r \in Shards : Used(r) \subseteq Writers /\ \A w \in Used(r) : w \in Nat
  BY UsedWriters, BundleAssumption DEF Writers
<1>6. TablesWritten'
  <2>1. \A r \in Shards \ {s} : table'[r] = table[r] /\ \A w \in Used(r) : data'[r][w] = data[r][w]
    BY <1>1, <1>4, <1>5 DEF IndInv, BundleTypeOK
  <2>2. \A w \in Used(s) : w < table'[s] => data'[s][w] = attempt
    <3>1. SUFFICES ASSUME NEW w \in Used(s), w < table'[s] PROVE data'[s][w] = attempt
      OBVIOUS
    <3>2. table'[s] = table[s] + 1
      BY <1>1 DEF IndInv, BundleTypeOK
    <3>3. w = table[s] \/ w < table[s]
      BY <1>1, <1>5, <3>1, <3>2
    <3>4. QED
      BY <1>1, <1>4, <1>5, <3>3 DEF IndInv, TablesWritten
  <2>3. QED
    BY <1>1, <2>1, <2>2 DEF IndInv, TablesWritten, Used, WriterOf, Kinds
<1>7. RanksInOrder'
  BY <1>1 DEF IndInv, RanksInOrder, Kinds
<1>8. \A r \in Shards : Stored(r) => Stored(r)'
  BY <1>4, <1>5 DEF IndInv, Stored, Used, WriterOf
<1>9. SeenIsStored' /\ IndexMeansStored'
  BY <1>1, <1>8 DEF IndInv, SeenIsStored, IndexMeansStored
<1>10. QED
  BY <1>1, <1>3, <1>6, <1>7, <1>9 DEF IndInv

\* A shard announces its meta when its tables are stored.
LEMMA MergeParallelInv ==
  ASSUME IndInv, NEW s \in Shards, MergeParallelTorchRankJson(s)
  PROVE  IndInv'
<1>1. /\ pc[s] = "save_tables" /\ table[s] = Parallel
      /\ pc' = [pc EXCEPT ![s] = IF s = 0 THEN "rank_json" ELSE "barrier"]
      /\ collected' = IF s = 0 THEN None ELSE collected
      /\ shared' = [shared EXCEPT !["rank_json"][s] = attempt]
      /\ UNCHANGED <<attempt, data, table, index>>
  BY DEF MergeParallelTorchRankJson
<1>2. BundleTypeOK'
  BY <1>1 DEF IndInv, BundleTypeOK, MergeParallelTorchRankJson, Kinds, None
<1>3. \A w \in Used(s) : data[s][w] = attempt
  <2>1. \A w \in Used(s) : w < Parallel
    BY UsedWriters, BundleAssumption DEF Writers
  <2>2. QED
    BY <1>1, <2>1 DEF IndInv, TablesWritten
<1>4. TablesWritten'
  BY <1>1, <1>3 DEF IndInv, BundleTypeOK, TablesWritten, Used, WriterOf, Kinds
<1>5. RanksInOrder'
  BY <1>1, ZeroShard DEF IndInv, BundleTypeOK, RanksInOrder, Kinds
<1>6. Stored(s) /\ \A r \in Shards : Stored(r)' <=> Stored(r)
  BY <1>1, <1>3 DEF IndInv, Stored, Used, WriterOf
<1>7. SeenIsStored' /\ IndexMeansStored'
  BY <1>1, <1>6, ZeroShard DEF IndInv, BundleTypeOK, SeenIsStored, IndexMeansStored, Kinds, None
<1>8. QED
  BY <1>1, <1>2, <1>4, <1>5, <1>7 DEF IndInv

\* Rank 0 reads and deletes one file.
LEMMA CollectInv ==
  ASSUME IndInv, NEW s \in Shards, Collect(s)
  PROVE  IndInv'
<1>1. /\ pc[0] \in Kinds
      /\ collected' = [collected EXCEPT ![s] = shared[pc[0]][s]]
      /\ shared' = [shared EXCEPT ![pc[0]][s] = 0]
      /\ UNCHANGED <<pc, attempt, data, json, table, index>>
  BY DEF Collect
<1>2. BundleTypeOK'
  BY <1>1 DEF IndInv, BundleTypeOK
<1>3. TablesWritten' /\ RanksInOrder' /\ IndexMeansStored'
  BY <1>1 DEF IndInv, TablesWritten, RanksInOrder, IndexMeansStored, Stored, Used, WriterOf, Kinds
<1>4. \A r \in Shards : Stored(r)' <=> Stored(r)
  BY <1>1 DEF Stored, Used, WriterOf
<1>5. SeenIsStored'
  BY <1>1, <1>4 DEF IndInv, BundleTypeOK, SeenIsStored, Kinds
<1>6. QED
  BY <1>1, <1>2, <1>3, <1>5 DEF IndInv

\* Rank 0 has every file of a kind, and writes the merged one.
LEMMA FinishMergeInv ==
  ASSUME IndInv, FinishMerge
  PROVE  IndInv'
<1>1. /\ pc[0] \in Kinds /\ \A s \in Shards : collected[s] # 0
      /\ pc' = [pc EXCEPT ![0] = AfterMerge[pc[0]]]
      /\ collected' = None
      /\ index' = IF pc[0] = "meta" THEN attempt ELSE index
      /\ UNCHANGED <<attempt, data, json, shared, table>>
  BY DEF FinishMerge
<1>2. AfterMerge[pc[0]] = IF pc[0] = "rank_json" THEN "tensor_key"
                          ELSE IF pc[0] = "tensor_key" THEN "meta" ELSE "barrier"
  BY <1>1 DEF AfterMerge, Kinds
<1>3. BundleTypeOK'
  BY <1>1, <1>2 DEF IndInv, BundleTypeOK, None, Kinds
<1>4. \A s \in Shards : Stored(s) /\ (Stored(s)' <=> Stored(s))
  BY <1>1 DEF IndInv, SeenIsStored, Stored, Used, WriterOf, Kinds
<1>5. TablesWritten'
  BY <1>1, <1>2, ZeroShard DEF IndInv, BundleTypeOK, TablesWritten, Used, WriterOf, Kinds
<1>6. RanksInOrder'
  BY <1>1, <1>2, ZeroShard DEF IndInv, BundleTypeOK, RanksInOrder, Kinds
<1>7. SeenIsStored' /\ IndexMeansStored'
  BY <1>4 DEF SeenIsStored, IndexMeansStored
<1>8. QED
  BY <1>1, <1>3, <1>5, <1>6, <1>7 DEF IndInv

\* The barrier, and the start of another attempt.
LEMMA SyncInv ==
  ASSUME IndInv, Sync \/ NextAttempt
  PROVE  IndInv'
<1>1. UNCHANGED <<data, json, shared, table, collected, index>>
  BY DEF Sync, NextAttempt
<1>2. \A s \in Shards : Stored(s)' <=> Stored(s)
  BY <1>1 DEF Stored, Used, WriterOf
<1>3. CASE Sync
  BY <1>1, <1>2, <1>3, ZeroShard
  DEF IndInv, Sync, BundleTypeOK, TablesWritten, RanksInOrder, SeenIsStored, IndexMeansStored,
      Used, WriterOf, Kinds
<1>4. CASE NextAttempt
  BY <1>1, <1>2, <1>4, ZeroShard
  DEF IndInv, NextAttempt, BundleTypeOK, TablesWritten, RanksInOrder, SeenIsStored, IndexMeansStored,
      Used, WriterOf, Kinds
<1>5. QED
  BY <1>3, <1>4

\* A step that changes nothing.
LEMMA StutterInv ==
  ASSUME IndInv, UNCHANGED bundleVars
  PROVE  IndInv'
<1>1. UNCHANGED <<pc, attempt, data, json, shared, table, collected, index>>
  BY DEF bundleVars
<1>2. QED
  BY <1>1 DEF IndInv, BundleTypeOK, TablesWritten, RanksInOrder, SeenIsStored,
              IndexMeansStored, Stored, Used, WriterOf, Kinds

\* The inductive invariant holds throughout.
LEMMA Invariance == BundleSpec => []IndInv
<1>1. IndInv /\ [BundleNext]_bundleVars => IndInv'
  BY SaveMetaInv, RenameTableInv, MergeParallelInv, CollectInv, FinishMergeInv, SyncInv, StutterInv
  DEF BundleNext, RankStep
<1>2. QED
  BY <1>1, InitInv, PTL DEF BundleSpec

\* Type correctness of the directory and the ranks.
THEOREM TypeCorrect == BundleSpec => []BundleTypeOK
<1>1. IndInv => BundleTypeOK
  BY DEF IndInv
<1>2. QED
  BY <1>1, Invariance, PTL

\* For any number of ranks, writers, blocks and crashes: an index is never
\* without the tables it names.
THEOREM IndexIsSafe == BundleSpec => []IndexMeansStored
<1>1. IndInv => IndexMeansStored
  BY DEF IndInv
<1>2. QED
  BY <1>1, Invariance, PTL

\* A rank returns from save_sparse_params only when all ranks have stored this
\* attempt's tables and rank 0 this attempt's index.
THEOREM ReturnIsSafe == BundleSpec => []ReturnMeansSaved
<1>1. IndInv => ReturnMeansSaved
  BY ZeroShard DEF IndInv, TablesWritten, RanksInOrder, ReturnMeansSaved
<1>2. QED
  BY <1>1, Invariance, PTL

\* Both promises of the save, for any number of shards, writers, blocks and
\* attempts.
THEOREM SafetyOfSave == BundleSpec => []SaveIsSafe
<1>1. IndexMeansStored /\ ReturnMeansSaved => SaveIsSafe
  BY DEF SaveIsSafe
<1>2. QED
  BY <1>1, IndexIsSafe, ReturnIsSafe, PTL

-----------------------------------------------------------------------------

\* Any nonempty set of natural numbers has a least element.
LEMMA LeastNatural ==
  ASSUME NEW T, T \subseteq Nat, T # {}
  PROVE  \E m \in T : \A n \in T : m <= n
  <1> DEFINE R == OpToRel(<, Nat)
  <1>1. IsWellFoundedOn(R, Nat)
    BY NatLessThanWellFounded
  <1>2. \A x, y \in Nat : x < y => <<x, y>> \in R
    BY DEF OpToRel
  <1> HIDE DEF R
  <1>3. PICK m \in T : \A n \in T : ~(<<n, m>> \in R)
    BY <1>1, WFMin
  <1>4. \A n \in T : m <= n
    <2> TAKE n \in T
    <2>1. m \in Nat /\ n \in Nat /\ ~(n < m)
      BY <1>2, <1>3
    <2> QED
      BY <2>1
  <1> QED
    BY <1>3, <1>4

\* A nonempty set of positions of a list has a greatest element.
LEMMA GreatestPosition ==
  ASSUME NEW N \in Nat, NEW T, T \subseteq 1 .. N, T # {}
  PROVE  \E m \in T : \A n \in T : n <= m
  <1> DEFINE up == {N - i : i \in T}
  <1>1. up \subseteq Nat /\ up # {}
    <2>1. \A i \in T : N - i \in Nat
      OBVIOUS
    <2> QED
      BY <2>1
  <1>2. PICK u \in up : \A v \in up : u <= v
    <2> HIDE DEF up
    <2> QED
      BY <1>1, LeastNatural
  <1>3. PICK m \in T : u = N - m
    BY <1>2
  <1>4. \A n \in T : n <= m
    <2> TAKE n \in T
    <2>1. N - m <= N - n
      BY <1>2, <1>3
    <2>2. m \in Int /\ n \in Int /\ N \in Int
      OBVIOUS
    <2> HIDE DEF up
    <2> QED
      BY <2>1, <2>2
  <1> QED
    BY <1>4

-----------------------------------------------------------------------------
(* Lists, and what one entry of a bank adds to a plan.                     *)

IsList(s) == s \in Seq(Range(s))

\* Any sequence is one, over its own members.
LEMMA SeqIsList ==
  ASSUME NEW U, NEW s \in Seq(U)
  PROVE  IsList(s)
  <1>1. Len(s) \in Nat /\ DOMAIN s = 1 .. Len(s) /\ s = [i \in 1 .. Len(s) |-> s[i]]
    OBVIOUS
  <1>2. \A i \in 1 .. Len(s) : s[i] \in Range(s)
    BY <1>1 DEF Range
  <1> QED
    BY <1>1, <1>2 DEF IsList

LEMMA EmptyList == IsList(<<>>) /\ DOMAIN <<>> = {}
  <1>1. <<>> \in Seq(Range(<<>>)) /\ DOMAIN <<>> = {}
    OBVIOUS
  <1> QED
    BY <1>1 DEF IsList

\* Appending to a list, and changing its members.
LEMMA ListAppend ==
  ASSUME NEW s, IsList(s), NEW x
  PROVE  IsList(Append(s, x)) /\ DOMAIN Append(s, x) = DOMAIN s \cup {Len(s) + 1} /\ Len(s) + 1 \notin DOMAIN s
         /\ Append(s, x)[Len(s) + 1] = x /\ \A i \in DOMAIN s : Append(s, x)[i] = s[i]
  <1>1. s \in Seq(Range(s) \cup {x})
    BY DEF IsList
  <1>2. Len(s) \in Nat /\ DOMAIN s = 1 .. Len(s)
    BY <1>1
  <1>3. Append(s, x) \in Seq(Range(s) \cup {x}) /\ Len(Append(s, x)) = Len(s) + 1
    BY <1>1
  <1>4. DOMAIN Append(s, x) = 1 .. Len(s) + 1 /\ \A i \in 1 .. Len(s) + 1 : Append(s, x)[i] = IF i <= Len(s) THEN s[i] ELSE x
    BY <1>1, <1>3
  <1>5. IsList(Append(s, x))
    BY <1>3, SeqIsList
  <1> QED
    BY <1>2, <1>4, <1>5

LEMMA ListChange ==
  ASSUME NEW s, IsList(s), NEW t, t = [i \in DOMAIN s |-> t[i]]
  PROVE  IsList(t)
  <1>1. Len(s) \in Nat /\ DOMAIN s = 1 .. Len(s)
    BY DEF IsList
  <1>2. \A i \in 1 .. Len(s) : t[i] \in Range(t)
    BY <1>1 DEF Range
  <1> QED
    BY <1>1, <1>2 DEF IsList

\* The tail of a list is the list without its first member.
LEMMA ListTail ==
  ASSUME NEW s, IsList(s), s # <<>>
  PROVE  /\ IsList(Tail(s)) /\ 1 \in DOMAIN s /\ Head(s) = s[1]
         /\ \A i \in DOMAIN Tail(s) : i \in Nat /\ i + 1 # 1 /\ i + 1 \in DOMAIN s /\ Tail(s)[i] = s[i + 1]
         /\ \A i \in DOMAIN s : i \in Nat /\ (i # 1 => i - 1 \in DOMAIN Tail(s) /\ Tail(s)[i - 1] = s[i])
  <1>1. s \in Seq(Range(s)) /\ Len(s) \in Nat /\ Len(s) >= 1 /\ DOMAIN s = 1 .. Len(s)
    BY DEF IsList
  <1>2. Tail(s) \in Seq(Range(s)) /\ Len(Tail(s)) = Len(s) - 1
    BY <1>1
  <1>3. DOMAIN Tail(s) = 1 .. Len(s) - 1 /\ \A i \in 1 .. Len(s) - 1 : Tail(s)[i] = s[i + 1]
    BY <1>1, <1>2
  <1>4. IsList(Tail(s))
    BY <1>2, SeqIsList
  <1> QED
    BY <1>1, <1>3, <1>4

\* What an entry needs, finds and resolves, as in ResolveEntry.
Need(e, st) ==
  LET load == Matched(e.load, st.left)
      auto == IF load \cap ParamNames # {} THEN {Optim} ELSE {}
  IN  ((load \cup auto) \ Matched(e.exclude, ModelNames)) \cap st.left

Found(e, st) == {n \in Need(e, st) : n \in Available(e.path) \/ RuleOf(e, n, Need(e, st)) # 0}

Resolved(e, st, n) ==
  LET i == RuleOf(e, n, Need(e, st))
  IN  [oname |-> i # 0, source |-> IF i = 0 THEN n ELSE e.oname[i].map[n],
       clear |-> n \in SparseNames /\ e.clear, ignore |-> e.ignore]

\* The rules that lead from n to a name in the checkpoint.
Rules(e, n) == {j \in DOMAIN e.oname : n \in DOMAIN e.oname[j].map /\ e.oname[j].map[n] \in Holds(e.path)}

\* A rule is applied only if it leads to what the checkpoint has.
LEMMA NothingHeld ==
  ASSUME NEW e, NEW n, NEW need, RuleOf(e, n, need) # 0
  PROVE  Rules(e, n) # {} /\ Holds(e.path) # {}
  <1>1. CASE n \in SparseNames
    <2>1. SparseRule(e, n, need) # 0
      BY <1>1 DEF RuleOf
    <2> QED
      <3> DEFINE good == {i \in DOMAIN e.oname : /\ SparseApplies(e, i, need) /\ n \in SparseMatches(e, i, need)
                                                /\ e.oname[i].map[n] \in Holds(e.path)}
      <3>1. good # {}
        BY <2>1 DEF SparseRule
      <3>2. PICK i \in good : TRUE
        BY <3>1
      <3> QED
        BY <3>2 DEF SparseMatches, Rules
  <1>2. CASE n \notin SparseNames
    <2>1. DenseRule(e, n) # 0
      BY <1>2 DEF RuleOf
    <2> QED
      BY <2>1 DEF DenseRule, Rules
  <1> QED
    BY <1>1, <1>2

\* Everything in the new plan is from the old one or was found by this entry,
\* nothing else is lost, and what was found is no longer left.
LEMMA ResolveEntryAnatomy ==
  ASSUME NEW e, NEW st, IsList(st.loads)
  PROVE  LET r == ResolveEntry(e, st) IN
         /\ IsList(r.loads)
         /\ r.left = st.left \ UNION {Shares(n) : n \in Found(e, st)}
         /\ DOMAIN st.loads \subseteq DOMAIN r.loads
         /\ \A l \in DOMAIN st.loads : r.loads[l][1] = st.loads[l][1] /\ DOMAIN st.loads[l][2] \subseteq DOMAIN r.loads[l][2]
         /\ \A l \in DOMAIN r.loads, n \in Found(e, st) : n \in DOMAIN r.loads[l][2] /\ r.loads[l][1] = e.path => r.loads[l][2][n] = Resolved(e, st, n)
         /\ \A l \in DOMAIN r.loads : \A n \in DOMAIN r.loads[l][2] :
              \/ n \in Found(e, st) /\ r.loads[l][1] = e.path
              \/ l \in DOMAIN st.loads /\ n \in DOMAIN st.loads[l][2] /\ r.loads[l][2][n] = st.loads[l][2][n]
         /\ \A n \in Found(e, st) : \E l \in DOMAIN r.loads : n \in DOMAIN r.loads[l][2]
         /\ \A l \in DOMAIN r.loads : l \in DOMAIN st.loads
              \/ (r.loads[l][1] = e.path /\ (\A k \in DOMAIN st.loads : st.loads[k][1] # e.path)
                  /\ \A k \in DOMAIN r.loads : k \in DOMAIN st.loads \/ k = l)
  <1> DEFINE load == Matched(e.load, st.left)
             auto == IF load \cap ParamNames # {} THEN {Optim} ELSE {}
             need == ((load \cup auto) \ Matched(e.exclude, ModelNames)) \cap st.left
             found == {n \in need : n \in Available(e.path) \/ RuleOf(e, n, need) # 0}
             missing == {n \in need \ found : Literal(n, e.load)}
             conf == [n \in found |->
                        [oname |-> RuleOf(e, n, need) # 0,
                         source |-> IF RuleOf(e, n, need) = 0 THEN n ELSE e.oname[RuleOf(e, n, need)].map[n],
                         clear |-> n \in SparseNames /\ e.clear, ignore |-> e.ignore]]
             left == st.left \ UNION {Shares(n) : n \in found}
             joined(c) == [n \in found \cup DOMAIN c |-> IF n \in found THEN conf[n] ELSE c[n]]
             merged == [k \in DOMAIN st.loads |->
                          IF st.loads[k][1] # e.path THEN st.loads[k] ELSE <<e.path, joined(st.loads[k][2])>>]
             loads == IF found = {} THEN st.loads
                      ELSE IF \E k \in DOMAIN st.loads : st.loads[k][1] = e.path THEN merged
                      ELSE Append(st.loads, <<e.path, conf>>)
             failed == st.failed \/ OnameFails(e, need) \/ (missing # {} /\ ~e.ignore)
             idle == st.left = {} \/ Holds(e.path) = {} \/ need = {}
             r == ResolveEntry(e, st)
  <1>1. r = IF idle THEN st ELSE [left |-> left, loads |-> loads, failed |-> failed]
    BY DEF ResolveEntry
  <1>2. need = Need(e, st) /\ found = Found(e, st)
    BY DEF Need, Found
  <1>3. DOMAIN conf = found /\ \A n \in found : conf[n] = Resolved(e, st, n)
    BY <1>2 DEF Resolved
  <1>4. idle => found = {}
    <2>1. \A n \in found : Holds(e.path) # {}
      <3> TAKE n \in found
      <3>1. CASE n \in Available(e.path)
        BY <3>1 DEF Available, HasAlias
      <3>2. CASE RuleOf(e, n, need) # 0
        BY <3>2, NothingHeld
      <3> QED
        BY <3>1, <3>2
    <2>2. found \subseteq need /\ need \subseteq st.left
      OBVIOUS
    <2> HIDE DEF found, need
    <2> QED
      BY <2>1, <2>2
  <1>5. r.left = left /\ r.loads = loads
    <2>1. CASE idle
      <3>1. found = {}
        BY <1>4, <2>1
      <3> HIDE DEF found, idle
      <3>2. left = st.left /\ loads = st.loads
        BY <3>1
      <3> HIDE DEF left, loads, failed, r
      <3>3. r = st
        BY <1>1, <2>1
      <3> QED
        BY <3>2, <3>3
    <2>2. CASE ~idle
      <3> HIDE DEF left, loads, failed, idle, r
      <3>1. r = [left |-> left, loads |-> loads, failed |-> failed]
        BY <1>1, <2>2
      <3> QED
        BY <3>1
    <2> HIDE DEF left, loads, idle, r
    <2> QED
      BY <2>1, <2>2
  <1> HIDE DEF conf, found, need, left, r
  <1> DEFINE Fits(q) ==
        /\ IsList(q)
        /\ DOMAIN st.loads \subseteq DOMAIN q
        /\ \A l \in DOMAIN st.loads : q[l][1] = st.loads[l][1] /\ DOMAIN st.loads[l][2] \subseteq DOMAIN q[l][2]
        /\ \A l \in DOMAIN q, n \in found : n \in DOMAIN q[l][2] /\ q[l][1] = e.path => q[l][2][n] = Resolved(e, st, n)
        /\ \A l \in DOMAIN q : \A n \in DOMAIN q[l][2] :
             \/ n \in found /\ q[l][1] = e.path
             \/ l \in DOMAIN st.loads /\ n \in DOMAIN st.loads[l][2] /\ q[l][2][n] = st.loads[l][2][n]
        /\ \A n \in found : \E l \in DOMAIN q : n \in DOMAIN q[l][2]
        /\ \A l \in DOMAIN q : l \in DOMAIN st.loads
             \/ (q[l][1] = e.path /\ (\A k \in DOMAIN st.loads : st.loads[k][1] # e.path)
                 /\ \A k \in DOMAIN q : k \in DOMAIN st.loads \/ k = l)
  <1>6. ASSUME found = {} PROVE Fits(r.loads)
    <2>1. loads = st.loads
      BY <1>6
    <2>2. Fits(st.loads)
      BY <1>6
    <2> HIDE DEF loads, Fits
    <2> QED
      BY <1>5, <2>1, <2>2
  <1>7. ASSUME found # {}, \E k \in DOMAIN st.loads : st.loads[k][1] = e.path PROVE Fits(r.loads)
    <2>1. loads = merged
      BY <1>7
    <2>2. \A c : DOMAIN joined(c) = found \cup DOMAIN c /\ \A n \in found \cup DOMAIN c : joined(c)[n] = IF n \in found THEN conf[n] ELSE c[n]
      OBVIOUS
    <2>3. IsList(merged)
      BY ListChange
    <2> HIDE DEF joined
    <2>4. DOMAIN merged = DOMAIN st.loads
          /\ \A l \in DOMAIN st.loads : /\ merged[l][1] = st.loads[l][1]
                                        /\ st.loads[l][1] # e.path => merged[l][2] = st.loads[l][2]
                                        /\ st.loads[l][1] = e.path => merged[l][2] = joined(st.loads[l][2])
      OBVIOUS
    <2> HIDE DEF merged
    <2>5. \A l \in DOMAIN st.loads : DOMAIN st.loads[l][2] \subseteq DOMAIN merged[l][2]
      <3> TAKE l \in DOMAIN st.loads
      <3>1. DOMAIN joined(st.loads[l][2]) = found \cup DOMAIN st.loads[l][2]
        BY <2>2
      <3> QED
        BY <2>4, <3>1
    <2>6. \A l \in DOMAIN merged, n \in found : n \in DOMAIN merged[l][2] /\ merged[l][1] = e.path => merged[l][2][n] = Resolved(e, st, n)
      BY <1>3, <2>2, <2>4
    <2>7. \A l \in DOMAIN merged : \A n \in DOMAIN merged[l][2] :
            \/ n \in found /\ merged[l][1] = e.path
            \/ l \in DOMAIN st.loads /\ n \in DOMAIN st.loads[l][2] /\ merged[l][2][n] = st.loads[l][2][n]
      <3> TAKE l \in DOMAIN merged
      <3> TAKE n \in DOMAIN merged[l][2]
      <3>1. l \in DOMAIN st.loads
        BY <2>4
      <3>2. CASE st.loads[l][1] # e.path
        BY <2>4, <3>1, <3>2
      <3>3. CASE st.loads[l][1] = e.path
        <4> DEFINE c == st.loads[l][2]
        <4>1. merged[l][2] = joined(c) /\ merged[l][1] = e.path
          BY <2>4, <3>1, <3>3
        <4>2. n \in DOMAIN joined(c)
          BY <4>1
        <4> HIDE DEF c
        <4>3. n \in found \cup DOMAIN c /\ joined(c)[n] = IF n \in found THEN conf[n] ELSE c[n]
          BY <2>2, <4>2
        <4> QED
          BY <3>1, <4>1, <4>3 DEF c
      <3> QED
        BY <3>2, <3>3
    <2>8. \A n \in found : \E l \in DOMAIN merged : n \in DOMAIN merged[l][2]
      <3> TAKE n \in found
      <3>1. PICK l \in DOMAIN st.loads : st.loads[l][1] = e.path
        BY <1>7
      <3>2. DOMAIN joined(st.loads[l][2]) = found \cup DOMAIN st.loads[l][2] /\ merged[l][2] = joined(st.loads[l][2])
        BY <2>2, <2>4, <3>1
      <3>3. n \in DOMAIN merged[l][2]
        BY <3>2
      <3> QED
        BY <2>4, <3>1, <3>3
    <2>9. Fits(merged)
      BY <2>3, <2>4, <2>5, <2>6, <2>7, <2>8
    <2> HIDE DEF loads, Fits
    <2> QED
      BY <1>5, <2>1, <2>9
  <1>8. ASSUME found # {}, ~\E k \in DOMAIN st.loads : st.loads[k][1] = e.path PROVE Fits(r.loads)
    <2> DEFINE more == Append(st.loads, <<e.path, conf>>)
               last == Len(st.loads) + 1
    <2>1. loads = more
      BY <1>8
    <2>2. IsList(more) /\ DOMAIN more = DOMAIN st.loads \cup {last} /\ last \notin DOMAIN st.loads /\ more[last] = <<e.path, conf>>
          /\ \A k \in DOMAIN st.loads : more[k] = st.loads[k]
      BY ListAppend
    <2>3. more[last][1] = e.path /\ more[last][2] = conf
      BY <2>2
    <2> HIDE DEF more, last
    <2>4. \A l \in DOMAIN more, n \in found : n \in DOMAIN more[l][2] /\ more[l][1] = e.path => more[l][2][n] = Resolved(e, st, n)
      BY <1>3, <1>8, <2>2, <2>3
    <2>5. \A l \in DOMAIN more : \A n \in DOMAIN more[l][2] :
            \/ n \in found /\ more[l][1] = e.path
            \/ l \in DOMAIN st.loads /\ n \in DOMAIN st.loads[l][2] /\ more[l][2][n] = st.loads[l][2][n]
      BY <1>3, <2>2, <2>3
    <2>6. \A n \in found : \E l \in DOMAIN more : n \in DOMAIN more[l][2]
      BY <1>3, <2>2, <2>3
    <2>7. \A l \in DOMAIN more : l \in DOMAIN st.loads
            \/ (more[l][1] = e.path /\ (\A k \in DOMAIN st.loads : st.loads[k][1] # e.path)
                /\ \A k \in DOMAIN more : k \in DOMAIN st.loads \/ k = l)
      BY <1>8, <2>2, <2>3
    <2>8. Fits(more)
      BY <2>2, <2>4, <2>5, <2>6, <2>7
    <2> HIDE DEF loads, Fits
    <2> QED
      BY <1>5, <2>1, <2>8
  <1>9. Fits(r.loads)
    BY <1>6, <1>7, <1>8
  <1>10. r.left = st.left \ UNION {Shares(n) : n \in Found(e, st)}
    BY <1>2, <1>5 DEF left
  <1> HIDE DEF loads
  <1> QED
    BY <1>2, <1>9, <1>10 DEF r

-----------------------------------------------------------------------------
(* What the parser has resolved of the last k entries.                     *)

\* Every path comes once, every name once, and only names that are no longer left.
Shaped(st) ==
  /\ IsList(st.loads) /\ st.left \subseteq ModelNames
  /\ \A k, l \in DOMAIN st.loads : k # l => st.loads[k][1] # st.loads[l][1] /\ DOMAIN st.loads[k][2] \cap DOMAIN st.loads[l][2] = {}
  /\ \A k \in DOMAIN st.loads : DOMAIN st.loads[k][2] \cap st.left = {}

\* Sources are for names that one of the entries wants, or the optimizer, which comes with any
\* parameter; tables are cleared for sparse names only.
Asked(chosen, loads) ==
  \A k \in DOMAIN loads : \A n \in DOMAIN loads[k][2] :
    /\ n = Optim \/ (n \in ModelNames /\ \E i \in chosen : Wants(i, n))
    /\ loads[k][2][n].clear => n \in SparseNames

\* A rule leads to what the checkpoint has, a parameter without one is there itself.
FromCheckpoint(path, c) ==
  \A n \in DenseNames \cap DOMAIN c :
    IF c[n].oname THEN c[n].source \in Holds(path) /\ (c[n].source \in DenseNames => c[n].source = n)
    ELSE n \in ParamNames => n \in Holds(path)

\* The rules of an entry, as RenamesLeadOut has them.
EntryFine(e) ==
  /\ e.path # "initial" /\ e.oname \in Seq(Range(e.oname))
  /\ \A j \in DOMAIN e.oname : \A n \in DenseNames \cap DOMAIN e.oname[j].map :
       e.oname[j].map[n] \in DenseNames => e.oname[j].map[n] = n

\* The rules of an entry, as RulesMoveTables has them.
EntryMovesTables(e) ==
  /\ e.oname \in Seq(Range(e.oname))
  /\ \A j \in DOMAIN e.oname :
       /\ DOMAIN e.oname[j].map \cap ExtraNames = {}
       /\ \A n \in SparseNames \cap DOMAIN e.oname[j].map :
            /\ e.oname[j].map[n] = <<e.oname[j].map[n][1], n[2]>> /\ e.oname[j].map[n] \in e.oname[j].dst
            /\ e.oname[j].map[n] \in Holds(e.path) => \A s \in Slots \cup {"id"} : <<n[1], s>> \notin Holds(e.path)

\* The entries that want a name, or one it shares its state with, and have it.
Offering(chosen, n) == {i \in chosen : \E m \in Shares(n) : Wants(i, m) /\ Offers(i, m) # {}}

\* The same of an entry rather than of its index.
WantedBy(e, n) == n \in Matched(e.load, ModelNames) /\ n \notin Matched(e.exclude, ModelNames)

OfferedBy(e, n) ==
  IF Rules(e, n) # {} THEN {e.oname[j].map[n] : j \in Rules(e, n)}
  ELSE IF n \in Holds(e.path) THEN {n} ELSE IF HasAlias(e.path, n) THEN {Legacy(n)} ELSE {}

\* c is how the entry serves n.
ServedBy(e, n, path, c) ==
  /\ e.path = path /\ WantedBy(e, n)
  /\ IF c.oname THEN \E j \in Rules(e, n) : c.source = e.oname[j].map[n]
     ELSE Rules(e, n) = {} /\ n \in Available(path)

\* When the entries from top on are through: what one of them offers is resolved,
\* from the last one that does.
Tracked(chosen, top, st) ==
  /\ \A n \in ModelNames \ {Optim} : n \in st.left <=> \A i \in Offering(chosen, n) : i < top
  /\ \A l \in DOMAIN st.loads : \A n \in DOMAIN st.loads[l][2] \ {Optim} :
       \E i \in Offering(chosen, n) : (\A j \in Offering(chosen, n) : j <= i) /\ ServedBy(bank[i], n, st.loads[l][1], st.loads[l][2][n])
  /\ \A n \in ModelNames \ {Optim} : n \notin st.left => \E l \in DOMAIN st.loads : Shares(n) \cap DOMAIN st.loads[l][2] # {}

\* All this of the entries from top on.
Parsed(chosen, top, st) ==
  /\ Shaped(st) /\ Asked(chosen, st.loads)
  /\ (\A i \in chosen : EntryFine(bank[i])) =>
       \A l \in DOMAIN st.loads : st.loads[l][1] # "initial" /\ FromCheckpoint(st.loads[l][1], st.loads[l][2])
  /\ (\A i \in chosen : EntryMovesTables(bank[i])) => Tracked(chosen, top, st)

\* Dense state has no name of sparse state, a parameter none of a filter step, and the
\* optimizer's name is none of them.
LEMMA DenseApart ==
  /\ \A n \in DenseNames : n \notin SparseNames /\ n # Optim
  /\ \A n \in ParamNames : n \notin StepNames /\ n[2] = "param"
  /\ \A n \in StepNames : n \notin SparseNames /\ n \notin ExtraNames
  /\ \A t \in Tables, s \in Slots \cup {"id"} : <<t, s>> \notin ExtraNames
  <1>1. \A m \in ParamNames : m[2] = "param"
    BY DEF ParamNames
  <1>2. \A m \in StepNames : m[2] = "step"
    <2> TAKE m \in StepNames
    <2>1. PICK t \in Tables : m = <<t, "step">>
      BY Zenon DEF StepNames
    <2> QED
      BY <2>1
  <1>3. \A m \in SparseNames : m[2] \in Slots \cup {"id", ""}
    <2> TAKE m \in SparseNames
    <2>1. CASE m \in Tables \X (Slots \cup {"id"})
      BY <2>1
    <2>2. CASE m \in Tensors \X {""}
      BY <2>2
    <2> QED
      BY <2>1, <2>2 DEF SparseNames
  <1>4. "param" \notin Slots \cup {"id", ""} /\ "step" \notin Slots \cup {"id", ""} /\ "" \notin Slots \cup {"id"}
    BY BankAssumption
  <1>5. \A m \in ExtraNames : m[2] = ""
    <2> TAKE m \in ExtraNames
    <2>1. m = <<"recis.dense.optim", "">> \/ m = <<"global_step", "">> \/ m = <<"io_state", "">>
      BY DEF ExtraNames, Optim
    <2>2. CASE m = <<"recis.dense.optim", "">>
      BY <2>2
    <2>3. CASE m = <<"global_step", "">>
      BY <2>3
    <2>4. CASE m = <<"io_state", "">>
      BY <2>4
    <2> QED
      BY <2>1, <2>2, <2>3, <2>4
  <1>6. \A m \in DenseNames : m[2] = "param" \/ m[2] = "step"
    BY <1>1, <1>2 DEF DenseNames
  <1>7. Optim[2] = ""
    BY DEF Optim
  <1>8. \A t \in Tables, s \in Slots \cup {"id"} : <<t, s>> \notin ExtraNames
    BY <1>4, <1>5
  <1> QED
    BY <1>1, <1>2, <1>3, <1>4, <1>5, <1>6, <1>7, <1>8

\* Names that share a state.
LEMMA SharedNames ==
  /\ \A n \in ParamNames : n \in DenseNames /\ n \in ModelNames /\ Shares(n) = {n}
  /\ \A n \in SparseNames : n \in ModelNames /\ n \notin DenseNames /\ Shares(n) = {n}
  /\ \A n \in ModelNames : n \in Shares(n) /\ Shares(n) \subseteq ModelNames
  /\ \A n \in ModelNames : \A m \in Shares(n) : Shares(m) = Shares(n) /\ (m = Optim <=> n = Optim)
  /\ \A n \in DenseNames : n \in ModelNames /\ Shares(n) \subseteq DenseNames
  <1>1. \A n \in ParamNames : n \in DenseNames /\ n \in ModelNames /\ Shares(n) = {n}
    BY DenseApart DEF DenseNames, ModelNames, Shares
  <1>2. \A n \in SparseNames : n \in ModelNames /\ n \notin DenseNames /\ Shares(n) = {n}
    BY DenseApart DEF DenseNames, ModelNames, Shares
  <1>3. \A n \in StepNames : n # Optim /\ n \in Shares(n) /\ Shares(n) \subseteq StepNames /\ \A m \in Shares(n) : Shares(m) = Shares(n)
    BY DenseApart DEF Shares, DenseNames
  <1>4. \A n : n \notin StepNames => Shares(n) = {n}
    BY DEF Shares
  <1>5. StepNames \subseteq ModelNames /\ StepNames \subseteq DenseNames /\ DenseNames \subseteq ModelNames
    BY DEF ModelNames, DenseNames
  <1> QED
    BY <1>1, <1>2, <1>3, <1>4, <1>5

\* The rule that is applied leads from the name to what the checkpoint has.
LEMMA RuleLeads ==
  ASSUME NEW e, e.oname \in Seq(Range(e.oname)), NEW n, NEW need, RuleOf(e, n, need) # 0
  PROVE  RuleOf(e, n, need) \in Rules(e, n)
  <1>1. CASE n \in SparseNames
    <2> DEFINE good == {i \in DOMAIN e.oname : /\ SparseApplies(e, i, need) /\ n \in SparseMatches(e, i, need)
                                              /\ e.oname[i].map[n] \in Holds(e.path)}
    <2>1. RuleOf(e, n, need) = SparseRule(e, n, need) /\ good # {} /\ SparseRule(e, n, need) = CHOOSE i \in good : \A j \in good : i >= j
      BY <1>1 DEF RuleOf, SparseRule
    <2>2. good \subseteq 1 .. Len(e.oname) /\ Len(e.oname) \in Nat
      OBVIOUS
    <2>3. good \subseteq Rules(e, n)
      BY DEF Rules, SparseMatches
    <2> HIDE DEF good
    <2>4. PICK i \in good : \A j \in good : j <= i
      BY <2>1, <2>2, GreatestPosition
    <2>5. i >= i /\ \A j \in good : i >= j
      BY <2>4
    <2>6. SparseRule(e, n, need) \in good
      BY <2>1, <2>5
    <2> QED
      BY <2>1, <2>3, <2>6
  <1>2. CASE n \notin SparseNames
    <2> DEFINE good == {i \in DOMAIN e.oname : n \in DOMAIN e.oname[i].map /\ e.oname[i].map[n] \in Holds(e.path)}
    <2>1. RuleOf(e, n, need) = DenseRule(e, n) /\ good # {} /\ DenseRule(e, n) = CHOOSE i \in good : \A j \in good : i <= j
      BY <1>2 DEF RuleOf, DenseRule
    <2>2. good \subseteq Nat /\ good = Rules(e, n)
      BY DEF Rules
    <2>3. \E i \in good : \A j \in good : i <= j
      <3> HIDE DEF good
      <3> QED
        BY <2>1, <2>2, LeastNatural
    <2> HIDE DEF good
    <2>4. DenseRule(e, n) \in good
      BY <2>1, <2>3
    <2> QED
      BY <2>1, <2>2, <2>4
  <1> QED
    BY <1>1, <1>2

\* Within the scope, a rule that leads somewhere is found.
LEMMA RuleFound ==
  ASSUME NEW e, EntryMovesTables(e), NEW need, NEW n \in need \cap ModelNames, Rules(e, n) # {}
  PROVE  RuleOf(e, n, need) # 0
  <1>1. PICK j \in DOMAIN e.oname : n \in DOMAIN e.oname[j].map /\ e.oname[j].map[n] \in Holds(e.path)
    BY DEF Rules
  <1>2. \A i \in DOMAIN e.oname : i # 0 /\ i \in Nat
    BY DEF EntryMovesTables
  <1>3. n \notin ExtraNames
    BY <1>1 DEF EntryMovesTables
  <1>4. CASE n \in SparseNames
    <2>1. n \in SparseMatches(e, j, need)
      BY <1>1, <1>4 DEF SparseMatches
    <2>2. e.oname[j].map[n] \in e.oname[j].dst
      BY <1>1, <1>4 DEF EntryMovesTables
    <2>3. SparseApplies(e, j, need)
      BY <1>1, <2>1, <2>2 DEF SparseApplies
    <2> DEFINE good == {i \in DOMAIN e.oname : /\ SparseApplies(e, i, need) /\ n \in SparseMatches(e, i, need)
                                              /\ e.oname[i].map[n] \in Holds(e.path)}
    <2>4. good # {}
      BY <1>1, <2>1, <2>3
    <2>5. good \subseteq 1 .. Len(e.oname) /\ Len(e.oname) \in Nat
      BY DEF EntryMovesTables
    <2>6. RuleOf(e, n, need) = CHOOSE i \in good : \A k \in good : i >= k
      BY <1>4, <2>4 DEF RuleOf, SparseRule
    <2> HIDE DEF good
    <2>7. PICK i \in good : \A k \in good : k <= i
      BY <2>4, <2>5, GreatestPosition
    <2>8. \A k \in good : i >= k
      BY <2>7
    <2>9. 0 \notin good
      BY <2>5
    <2> QED
      BY <2>6, <2>8, <2>9
  <1>5. CASE n \in DenseNames
    <2> DEFINE good == {i \in DOMAIN e.oname : n \in DOMAIN e.oname[i].map /\ e.oname[i].map[n] \in Holds(e.path)}
    <2>1. good # {} /\ good \subseteq Nat /\ 0 \notin good
      BY <1>1, <1>2
    <2>2. RuleOf(e, n, need) = CHOOSE i \in good : \A k \in good : i <= k
      BY <1>5, <2>1, DenseApart DEF RuleOf, DenseRule
    <2> HIDE DEF good
    <2>3. \E i \in good : \A k \in good : i <= k
      BY <2>1, LeastNatural
    <2> QED
      BY <2>1, <2>2, <2>3
  <1> QED
    BY <1>3, <1>4, <1>5 DEF ModelNames

\* An entry finds what it has of what it wants.
LEMMA FoundIsOffered ==
  ASSUME NEW i, EntryMovesTables(bank[i]), NEW st, st.left \subseteq ModelNames
  PROVE  /\ \A n \in ModelNames \ {Optim} : n \in Found(bank[i], st) <=> n \in st.left /\ Wants(i, n) /\ Offers(i, n) # {}
         /\ \A n \in Found(bank[i], st) \ {Optim} : ServedBy(bank[i], n, bank[i].path, Resolved(bank[i], st, n))
  <1> DEFINE e == bank[i]
             need == Need(e, st)
  <1>1. \A n \in ModelNames \ {Optim} : n \in need <=> n \in st.left /\ Wants(i, n)
    BY DEF Need, Wants, Matched
  <1>2. need \subseteq ModelNames
    BY DEF Need
  <1> HIDE DEF need
  <1>3. \A n \in need : RuleOf(e, n, need) # 0 <=> Rules(e, n) # {}
    <2> TAKE n \in need
    <2>1. Rules(e, n) # {} => RuleOf(e, n, need) # 0
      BY <1>2, RuleFound
    <2> QED
      BY <2>1, NothingHeld
  <1>4. ASSUME NEW n \in ModelNames PROVE Offers(i, n) # {} <=> n \in Available(e.path) \/ Rules(e, n) # {}
    <2> DEFINE renamed == {e.oname[j].map[n] : j \in {j \in DOMAIN e.oname : n \in DOMAIN e.oname[j].map}} \cap Holds(e.path)
               own == {n} \cap Holds(e.path)
               alias == IF HasAlias(e.path, n) THEN {Legacy(n)} ELSE {}
    <2>1. Offers(i, n) = IF renamed # {} THEN renamed ELSE IF own # {} THEN own ELSE alias
      BY Zenon DEF Offers
    <2>2. renamed # {} <=> Rules(e, n) # {}
      BY DEF Rules
    <2>3. n \in Available(e.path) <=> own # {} \/ alias # {}
      BY DEF Available, HasAlias
    <2> HIDE DEF renamed, own, alias, e
    <2> QED
      BY <2>1, <2>2, <2>3
  <1>5. Found(e, st) = {n \in need : n \in Available(e.path) \/ RuleOf(e, n, need) # 0}
    BY DEF Found, need
  <1>6. \A n \in ModelNames \ {Optim} : n \in Found(e, st) <=> n \in st.left /\ Wants(i, n) /\ Offers(i, n) # {}
    BY <1>1, <1>3, <1>4, <1>5
  <1>7. ASSUME NEW n \in Found(e, st) \ {Optim} PROVE ServedBy(e, n, e.path, Resolved(e, st, n))
    <2> DEFINE c == Resolved(e, st, n)
               x == RuleOf(e, n, need)
    <2>1. c.oname = (x # 0) /\ c.source = IF x = 0 THEN n ELSE e.oname[x].map[n]
      BY DEF Resolved, need
    <2>2. n \in need /\ n \in ModelNames /\ (n \in Available(e.path) \/ x # 0)
      BY <1>2, <1>5
    <2>3. Wants(i, n)
      BY <1>1, <2>2
    <2>4. x # 0 => x \in Rules(e, n)
      BY RuleLeads DEF EntryMovesTables
    <2>5. x = 0 => Rules(e, n) = {}
      BY <1>3, <2>2
    <2> HIDE DEF c, x
    <2> QED
      BY <2>1, <2>2, <2>3, <2>4, <2>5 DEF ServedBy, WantedBy, Wants, c
  <1> QED
    BY <1>6, <1>7


\* Names that share a state are offered together.
LEMMA OfferedTogether ==
  ASSUME NEW chosen, NEW n \in ModelNames, NEW m \in Shares(n)
  PROVE  Offering(chosen, m) = Offering(chosen, n)
  BY SharedNames DEF Offering

\* One entry keeps the plan in shape.
LEMMA EntryShapes ==
  ASSUME NEW e, NEW st, Shaped(st)
  PROVE  Shaped(ResolveEntry(e, st))
  <1> DEFINE r == ResolveEntry(e, st)
             found == Found(e, st)
  <1>1. /\ IsList(r.loads)
        /\ r.left = st.left \ UNION {Shares(n) : n \in found}
        /\ \A l \in DOMAIN st.loads : r.loads[l][1] = st.loads[l][1]
        /\ \A l \in DOMAIN r.loads : \A n \in DOMAIN r.loads[l][2] :
             \/ n \in found /\ r.loads[l][1] = e.path
             \/ l \in DOMAIN st.loads /\ n \in DOMAIN st.loads[l][2]
        /\ \A l \in DOMAIN r.loads : l \in DOMAIN st.loads
             \/ (r.loads[l][1] = e.path /\ (\A k \in DOMAIN st.loads : st.loads[k][1] # e.path)
                 /\ \A k \in DOMAIN r.loads : k \in DOMAIN st.loads \/ k = l)
    BY ResolveEntryAnatomy DEF Shaped
  <1>2. found \subseteq st.left
    BY DEF Found, Need
  <1>3. \A n \in found : n \in Shares(n)
    BY <1>2, SharedNames DEF Shaped
  <1>4. r.left \subseteq st.left /\ r.left \cap found = {}
    BY <1>1, <1>3
  <1> HIDE DEF r, found
  <1>5. \A k, l \in DOMAIN r.loads : k # l => r.loads[k][1] # r.loads[l][1]
    BY <1>1 DEF Shaped
  <1>6. \A k, l \in DOMAIN r.loads : k # l => DOMAIN r.loads[k][2] \cap DOMAIN r.loads[l][2] = {}
    <2> SUFFICES ASSUME NEW k \in DOMAIN r.loads, NEW l \in DOMAIN r.loads, k # l,
                        NEW n \in DOMAIN r.loads[k][2], n \in DOMAIN r.loads[l][2]
                 PROVE  FALSE
      OBVIOUS
    <2>1. r.loads[k][1] # r.loads[l][1]
      BY <1>5
    <2>2. \A x \in DOMAIN st.loads : DOMAIN st.loads[x][2] \cap st.left = {}
      BY DEF Shaped
    <2>3. k \in DOMAIN st.loads /\ l \in DOMAIN st.loads => DOMAIN st.loads[k][2] \cap DOMAIN st.loads[l][2] = {}
      BY DEF Shaped
    <2> QED
      BY <1>1, <1>2, <2>1, <2>2, <2>3
  <1>7. \A k \in DOMAIN r.loads : DOMAIN r.loads[k][2] \cap r.left = {}
    <2>1. \A x \in DOMAIN st.loads : DOMAIN st.loads[x][2] \cap st.left = {}
      BY DEF Shaped
    <2> QED
      BY <1>1, <1>4, <2>1
  <1> QED
    BY <1>1, <1>4, <1>5, <1>6, <1>7 DEF Shaped, r

\* One entry adds sources only for what it wants.
LEMMA EntryAsks ==
  ASSUME NEW chosen, NEW i \in chosen, NEW st, Shaped(st), Asked(chosen, st.loads)
  PROVE  Asked(chosen, ResolveEntry(bank[i], st).loads)
  <1> DEFINE e == bank[i]
             r == ResolveEntry(e, st)
             found == Found(e, st)
  <1>1. /\ \A l \in DOMAIN r.loads, n \in found : n \in DOMAIN r.loads[l][2] /\ r.loads[l][1] = e.path => r.loads[l][2][n] = Resolved(e, st, n)
        /\ \A l \in DOMAIN r.loads : \A n \in DOMAIN r.loads[l][2] :
             \/ n \in found /\ r.loads[l][1] = e.path
             \/ l \in DOMAIN st.loads /\ n \in DOMAIN st.loads[l][2] /\ r.loads[l][2][n] = st.loads[l][2][n]
    BY ResolveEntryAnatomy DEF Shaped
  <1>2. \A n \in found : n = Optim \/ (n \in ModelNames /\ Wants(i, n))
    BY DEF Found, Need, Wants, Matched, Shaped
  <1>3. \A n : Resolved(e, st, n).clear => n \in SparseNames
    BY DEF Resolved
  <1> HIDE DEF r, found, e
  <1> SUFFICES ASSUME NEW l \in DOMAIN r.loads, NEW n \in DOMAIN r.loads[l][2]
               PROVE  /\ n = Optim \/ (n \in ModelNames /\ \E j \in chosen : Wants(j, n))
                      /\ r.loads[l][2][n].clear => n \in SparseNames
    BY DEF Asked, r, e
  <1>4. CASE n \in found /\ r.loads[l][1] = e.path
    BY <1>1, <1>2, <1>3, <1>4
  <1>5. CASE l \in DOMAIN st.loads /\ n \in DOMAIN st.loads[l][2] /\ r.loads[l][2][n] = st.loads[l][2][n]
    BY <1>5 DEF Asked
  <1> QED
    BY <1>1, <1>4, <1>5

\* What one entry resolves is in its checkpoint.
LEMMA EntryFromCheckpoint ==
  ASSUME NEW e, EntryFine(e), NEW st, Shaped(st),
         \A l \in DOMAIN st.loads : st.loads[l][1] # "initial" /\ FromCheckpoint(st.loads[l][1], st.loads[l][2]),
         NEW l \in DOMAIN ResolveEntry(e, st).loads
  PROVE  ResolveEntry(e, st).loads[l][1] # "initial" /\ FromCheckpoint(ResolveEntry(e, st).loads[l][1], ResolveEntry(e, st).loads[l][2])
  <1> DEFINE r == ResolveEntry(e, st)
             found == Found(e, st)
  <1>1. /\ \A k \in DOMAIN st.loads : r.loads[k][1] = st.loads[k][1]
        /\ \A n \in found : n \in DOMAIN r.loads[l][2] /\ r.loads[l][1] = e.path => r.loads[l][2][n] = Resolved(e, st, n)
        /\ \A n \in DOMAIN r.loads[l][2] :
             \/ n \in found /\ r.loads[l][1] = e.path
             \/ l \in DOMAIN st.loads /\ n \in DOMAIN st.loads[l][2] /\ r.loads[l][2][n] = st.loads[l][2][n]
        /\ l \in DOMAIN st.loads \/ r.loads[l][1] = e.path
    BY ResolveEntryAnatomy DEF Shaped
  <1>2. ASSUME NEW n \in DenseNames \cap found
        PROVE  IF Resolved(e, st, n).oname
               THEN Resolved(e, st, n).source \in Holds(e.path) /\ (Resolved(e, st, n).source \in DenseNames => Resolved(e, st, n).source = n)
               ELSE n \in ParamNames => n \in Holds(e.path)
    <2> DEFINE x == RuleOf(e, n, Need(e, st))
               c == Resolved(e, st, n)
    <2>1. c.oname = (x # 0) /\ c.source = IF x = 0 THEN n ELSE e.oname[x].map[n]
      BY DEF Resolved
    <2>2. CASE x # 0
      <3>1. x \in Rules(e, n)
        BY <2>2, RuleLeads DEF EntryFine
      <3>2. x \in DOMAIN e.oname /\ n \in DOMAIN e.oname[x].map /\ e.oname[x].map[n] \in Holds(e.path)
        BY <3>1 DEF Rules
      <3> HIDE DEF x, c
      <3> QED
        BY <2>1, <2>2, <3>2 DEF EntryFine, c
    <2>3. CASE x = 0
      <3>1. n \in Available(e.path)
        BY <2>3 DEF Found
      <3>2. n \in ParamNames => n \in Holds(e.path)
        BY <3>1, DenseApart DEF Available
      <3> QED
        BY <2>1, <2>3, <3>2
    <2> QED
      BY <2>2, <2>3
  <1> HIDE DEF r, found
  <1>3. r.loads[l][1] # "initial"
    BY <1>1 DEF EntryFine
  <1>4. FromCheckpoint(r.loads[l][1], r.loads[l][2])
    <2> SUFFICES ASSUME NEW n \in DenseNames \cap DOMAIN r.loads[l][2]
                 PROVE  IF r.loads[l][2][n].oname
                        THEN r.loads[l][2][n].source \in Holds(r.loads[l][1])
                             /\ (r.loads[l][2][n].source \in DenseNames => r.loads[l][2][n].source = n)
                        ELSE n \in ParamNames => n \in Holds(r.loads[l][1])
      BY DEF FromCheckpoint
    <2>1. CASE n \in found /\ r.loads[l][1] = e.path
      <3>1. r.loads[l][2][n] = Resolved(e, st, n)
        BY <1>1, <2>1
      <3> QED
        BY <1>2, <2>1, <3>1
    <2>2. CASE l \in DOMAIN st.loads /\ n \in DOMAIN st.loads[l][2] /\ r.loads[l][2][n] = st.loads[l][2][n]
      <3>1. r.loads[l][1] = st.loads[l][1] /\ FromCheckpoint(st.loads[l][1], st.loads[l][2])
        BY <1>1, <2>2
      <3> QED
        BY <2>2, <3>1 DEF FromCheckpoint
    <2> QED
      BY <1>1, <2>1, <2>2
  <1> QED
    BY <1>3, <1>4 DEF r

\* One entry resolves what it has of what is left.
LEMMA EntryTracks ==
  ASSUME NEW chosen, chosen \subseteq Nat, NEW i \in chosen, EntryMovesTables(bank[i]),
         NEW st, Shaped(st), Asked(chosen, st.loads), Tracked(chosen, i + 1, st)
  PROVE  Tracked(chosen, i, ResolveEntry(bank[i], st))
  <1> DEFINE e == bank[i]
             r == ResolveEntry(e, st)
             found == Found(e, st)
             O(n) == Offering(chosen, n)
  <1>1. /\ r.left = st.left \ UNION {Shares(n) : n \in found}
        /\ DOMAIN st.loads \subseteq DOMAIN r.loads
        /\ \A l \in DOMAIN st.loads : r.loads[l][1] = st.loads[l][1] /\ DOMAIN st.loads[l][2] \subseteq DOMAIN r.loads[l][2]
        /\ \A l \in DOMAIN r.loads, n \in found : n \in DOMAIN r.loads[l][2] /\ r.loads[l][1] = e.path => r.loads[l][2][n] = Resolved(e, st, n)
        /\ \A l \in DOMAIN r.loads : \A n \in DOMAIN r.loads[l][2] :
             \/ n \in found /\ r.loads[l][1] = e.path
             \/ l \in DOMAIN st.loads /\ n \in DOMAIN st.loads[l][2] /\ r.loads[l][2][n] = st.loads[l][2][n]
        /\ \A n \in found : \E l \in DOMAIN r.loads : n \in DOMAIN r.loads[l][2]
    BY ResolveEntryAnatomy DEF Shaped
  <1>2. /\ \A n \in ModelNames \ {Optim} : n \in found <=> n \in st.left /\ Wants(i, n) /\ Offers(i, n) # {}
        /\ \A n \in found \ {Optim} : ServedBy(e, n, e.path, Resolved(e, st, n))
    BY FoundIsOffered DEF Shaped
  <1>3. found \subseteq st.left /\ st.left \subseteq ModelNames
    BY DEF Found, Need, Shaped
  <1>4. \A n \in ModelNames : O(n) \subseteq Nat
    BY DEF Offering
  <1>5. \A n \in ModelNames \ {Optim} : n \in st.left <=> \A j \in O(n) : j < i + 1
    BY DEF Tracked
  <1>6. \A n \in ModelNames \ {Optim} : i \in O(n) <=> \E m \in Shares(n) : Wants(i, m) /\ Offers(i, m) # {}
    BY DEF Offering
  <1>7. \A n \in ModelNames \ {Optim} : \A m \in Shares(n) : m \in ModelNames \ {Optim} /\ O(m) = O(n) /\ n \in Shares(m)
    BY SharedNames, OfferedTogether
  <1>8. \A n \in ModelNames \ {Optim}, m \in ModelNames : n \in Shares(m) => m \in Shares(n)
    BY SharedNames
  <1> HIDE DEF r, found, e, O
  <1>9. \A n \in ModelNames \ {Optim} : n \in r.left <=> n \in st.left /\ i \notin O(n)
    <2> TAKE n \in ModelNames \ {Optim}
    <2>1. \A m \in Shares(n) : m \in st.left <=> n \in st.left
      BY <1>5, <1>7
    <2>2. (\E m \in found : n \in Shares(m)) <=> (\E m \in Shares(n) : m \in found)
      BY <1>3, <1>7, <1>8
    <2>3. (\E m \in Shares(n) : m \in found) <=> n \in st.left /\ i \in O(n)
      BY <1>2, <1>6, <1>7, <2>1
    <2>4. n \in r.left <=> n \in st.left /\ ~\E m \in found : n \in Shares(m)
      BY <1>1
    <2> QED
      BY <2>2, <2>3, <2>4
  <1>10. \A n \in ModelNames \ {Optim} : n \in r.left <=> \A j \in O(n) : j < i
    <2> TAKE n \in ModelNames \ {Optim}
    <2>1. \A j \in O(n) : j \in Nat /\ (j < i <=> j < i + 1 /\ j # i)
      <3> TAKE j \in O(n)
      <3>1. j \in Nat /\ i \in Nat
        BY <1>4
      <3> QED
        BY <3>1
    <2> QED
      BY <1>5, <1>9, <2>1
  <1>11. ASSUME NEW l \in DOMAIN r.loads, NEW n \in DOMAIN r.loads[l][2] \ {Optim}
         PROVE  \E j \in O(n) : (\A k \in O(n) : k <= j) /\ ServedBy(bank[j], n, r.loads[l][1], r.loads[l][2][n])
    <2>1. CASE n \in found /\ r.loads[l][1] = e.path
      <3>1. n \in ModelNames \ {Optim} /\ n \in st.left
        BY <1>3, <2>1
      <3>2. Wants(i, n) /\ Offers(i, n) # {} /\ n \in Shares(n)
        BY <1>2, <2>1, <3>1, SharedNames
      <3>3. i \in O(n)
        BY <1>6, <3>1, <3>2
      <3>4. \A k \in O(n) : k <= i
        <4> TAKE k \in O(n)
        <4>1. k \in Nat /\ i \in Nat /\ k < i + 1
          BY <1>4, <1>5, <3>1
        <4> QED
          BY <4>1
      <3>5. ServedBy(bank[i], n, r.loads[l][1], r.loads[l][2][n])
        BY <1>1, <1>2, <2>1 DEF e
      <3> QED
        BY <3>3, <3>4, <3>5
    <2>2. CASE l \in DOMAIN st.loads /\ n \in DOMAIN st.loads[l][2] /\ r.loads[l][2][n] = st.loads[l][2][n]
      <3>1. r.loads[l][1] = st.loads[l][1]
        BY <1>1, <2>2
      <3> QED
        BY <2>2, <3>1 DEF Tracked, O
    <2> QED
      BY <1>1, <2>1, <2>2
  <1>12. ASSUME NEW n \in ModelNames \ {Optim}, n \notin r.left
         PROVE  \E l \in DOMAIN r.loads : Shares(n) \cap DOMAIN r.loads[l][2] # {}
    <2>1. CASE n \notin st.left
      <3>1. PICK l \in DOMAIN st.loads : Shares(n) \cap DOMAIN st.loads[l][2] # {}
        BY <2>1 DEF Tracked
      <3> QED
        BY <1>1, <3>1
    <2>2. CASE n \in st.left
      <3>1. PICK m \in found : n \in Shares(m)
        BY <1>1, <1>12, <2>2
      <3>2. m \in Shares(n)
        BY <1>3, <1>8, <3>1
      <3> QED
        BY <1>1, <3>1, <3>2
    <2> QED
      BY <2>1, <2>2
  <1> QED
    BY <1>10, <1>11, <1>12 DEF Tracked, r, O, e

\* The recursion of Resolve has a solution.
Traveled(b, chosen, m, f) ==
  f = [k \in 0 .. m |->
         IF k = 0 THEN Unresolved
         ELSE LET i == Len(b) + 1 - k
              IN  IF i \in chosen THEN ResolveEntry(b[i], f[k - 1]) ELSE f[k - 1]]

LEMMA TravelExists ==
  ASSUME NEW b, NEW chosen, NEW m \in Nat
  PROVE  \E f : Traveled(b, chosen, m, f)
  <1> DEFINE next(k, st) == LET i == Len(b) + 1 - k IN IF i \in chosen THEN ResolveEntry(b[i], st) ELSE st
             wrong == {j \in Nat : ~\E f : Traveled(b, chosen, j, f)}
  <1> SUFFICES ASSUME wrong # {} PROVE FALSE
    OBVIOUS
  <1>1. PICK j \in wrong : \A n \in wrong : j <= n
    <2>1. wrong \subseteq Nat
      OBVIOUS
    <2> HIDE DEF wrong
    <2> QED
      BY <2>1, LeastNatural
  <1>2. \A f, n : Traveled(b, chosen, n, f) <=> f = [k \in 0 .. n |-> IF k = 0 THEN Unresolved ELSE next(k, f[k - 1])]
    BY DEF Traveled
  <1> HIDE DEF next
  <1>3. j \in Nat /\ j # 0
    <2> DEFINE f == [k \in 0 .. 0 |-> Unresolved]
    <2>1. f = [k \in 0 .. 0 |-> IF k = 0 THEN Unresolved ELSE next(k, f[k - 1])]
      OBVIOUS
    <2>2. Traveled(b, chosen, 0, f)
      BY <1>2, <2>1
    <2> QED
      BY <1>1, <2>2
  <1>4. PICK f : Traveled(b, chosen, j - 1, f)
    BY <1>1, <1>3
  <1> DEFINE g == [k \in 0 .. j |-> IF k = j THEN next(j, f[j - 1]) ELSE f[k]]
  <1>5. \A k \in 0 .. (j - 1) : f[k] = IF k = 0 THEN Unresolved ELSE next(k, f[k - 1])
    <2>1. f = [k \in 0 .. (j - 1) |-> IF k = 0 THEN Unresolved ELSE next(k, f[k - 1])]
      BY <1>2, <1>4
    <2> QED
      BY <2>1
  <1>6. \A k \in 0 .. j : g[k] = IF k = 0 THEN Unresolved ELSE next(k, g[k - 1])
    <2> TAKE k \in 0 .. j
    <2>1. CASE k = j
      BY <1>3, <2>1
    <2>2. CASE k # j
      <3>1. k \in 0 .. (j - 1) /\ g[k] = f[k] /\ (k # 0 => g[k - 1] = f[k - 1])
        BY <1>3, <2>2
      <3> QED
        BY <1>5, <3>1
    <2> QED
      BY <2>1, <2>2
  <1>7. g = [k \in 0 .. j |-> g[k]]
    OBVIOUS
  <1> HIDE DEF g
  <1>8. g = [k \in 0 .. j |-> IF k = 0 THEN Unresolved ELSE next(k, g[k - 1])]
    BY <1>6, <1>7
  <1>9. Traveled(b, chosen, j, g)
    BY <1>2, <1>8
  <1> QED
    BY <1>1, <1>9

\* Before the first entry, and after one more.
LEMMA ParsedNothing ==
  ASSUME NEW chosen, Len(bank) \in Nat, chosen \subseteq 1 .. Len(bank)
  PROVE  Parsed(chosen, Len(bank) + 1, Unresolved)
  <1>1. Unresolved.loads = <<>> /\ Unresolved.left = ModelNames /\ IsList(<<>>) /\ DOMAIN <<>> = {}
    BY EmptyList DEF Unresolved
  <1>2. Shaped(Unresolved) /\ Asked(chosen, Unresolved.loads)
    BY <1>1 DEF Shaped, Asked
  <1>3. \A n \in ModelNames : \A i \in Offering(chosen, n) : i < Len(bank) + 1
    BY DEF Offering
  <1>4. Tracked(chosen, Len(bank) + 1, Unresolved)
    BY <1>1, <1>3 DEF Tracked
  <1> QED
    BY <1>1, <1>2, <1>4 DEF Parsed

LEMMA ParsedOneMore ==
  ASSUME NEW chosen, Len(bank) \in Nat, chosen \subseteq 1 .. Len(bank), NEW i \in 1 .. Len(bank),
         NEW st, Parsed(chosen, i + 1, st)
  PROVE  Parsed(chosen, i, IF i \in chosen THEN ResolveEntry(bank[i], st) ELSE st)
  <1>1. CASE i \in chosen
    <2> DEFINE r == ResolveEntry(bank[i], st)
    <2>1. Shaped(r) /\ Asked(chosen, r.loads)
      BY <1>1, EntryShapes, EntryAsks DEF Parsed
    <2>2. ASSUME \A j \in chosen : EntryFine(bank[j]), NEW l \in DOMAIN r.loads
          PROVE  r.loads[l][1] # "initial" /\ FromCheckpoint(r.loads[l][1], r.loads[l][2])
      BY <1>1, <2>2, EntryFromCheckpoint DEF Parsed
    <2>3. ASSUME \A j \in chosen : EntryMovesTables(bank[j])
          PROVE  Tracked(chosen, i, r)
      <3>1. chosen \subseteq Nat
        OBVIOUS
      <3>2. Shaped(st) /\ Asked(chosen, st.loads) /\ Tracked(chosen, i + 1, st)
        BY <2>3 DEF Parsed
      <3> QED
        BY <1>1, <2>3, <3>1, <3>2, EntryTracks
    <2> HIDE DEF r
    <2>4. Parsed(chosen, i, r)
      BY <2>1, <2>2, <2>3 DEF Parsed
    <2> QED
      BY <1>1, <2>4 DEF r
  <1>2. CASE i \notin chosen
    <2>1. ASSUME Tracked(chosen, i + 1, st) PROVE Tracked(chosen, i, st)
      <3>1. \A n \in ModelNames : \A j \in Offering(chosen, n) : j < i + 1 <=> j < i
        <4> TAKE n \in ModelNames
        <4> TAKE j \in Offering(chosen, n)
        <4>1. j \in 1 .. Len(bank) /\ j # i
          BY <1>2 DEF Offering
        <4> QED
          BY <4>1
      <3> QED
        BY <2>1, <3>1 DEF Tracked
    <2> QED
      BY <1>2, <2>1 DEF Parsed
  <1> QED
    BY <1>1, <1>2

\* What the parser has resolved when it is through.
LEMMA ResolveParses ==
  ASSUME NEW chosen, Len(bank) \in Nat, chosen \subseteq 1 .. Len(bank)
  PROVE  Parsed(chosen, 1, Resolve(bank, chosen))
  <1> DEFINE N == Len(bank)
             f == CHOOSE g : Traveled(bank, chosen, N, g)
             next(k, st) == IF N + 1 - k \in chosen THEN ResolveEntry(bank[N + 1 - k], st) ELSE st
             wrong == {k \in 0 .. N : ~Parsed(chosen, N + 1 - k, f[k])}
  <1>1. Traveled(bank, chosen, N, f)
    BY TravelExists
  <1>2. Resolve(bank, chosen) = f[N]
    BY DEF Resolve, Traveled
  <1> HIDE DEF f
  <1>3. \A k \in 0 .. N : f[k] = IF k = 0 THEN Unresolved ELSE next(k, f[k - 1])
    <2>1. f = [k \in 0 .. N |-> IF k = 0 THEN Unresolved ELSE next(k, f[k - 1])]
      BY <1>1 DEF Traveled
    <2> HIDE DEF next
    <2> QED
      BY <2>1
  <1>4. 0 \notin wrong
    <2>1. f[0] = Unresolved /\ N + 1 - 0 = N + 1
      BY <1>3
    <2> QED
      BY <2>1, ParsedNothing
  <1>5. ASSUME wrong # {} PROVE FALSE
    <2>1. wrong \subseteq Nat
      OBVIOUS
    <2>2. PICK k \in wrong : \A n \in wrong : k <= n
      <3> HIDE DEF wrong
      <3> QED
        BY <1>5, <2>1, LeastNatural
    <2>3. k \in 0 .. N /\ k # 0 /\ N \in Nat
      BY <1>4, <2>2
    <2>4. k - 1 \in 0 .. N /\ k - 1 \notin wrong
      <3>1. k - 1 \in 0 .. N /\ ~(k <= k - 1)
        BY <2>3
      <3> HIDE DEF wrong
      <3> QED
        BY <2>2, <3>1
    <2> DEFINE i == N + 1 - k
    <2>5. i \in 1 .. N /\ N + 1 - (k - 1) = i + 1
      BY <2>3
    <2>6. Parsed(chosen, i + 1, f[k - 1])
      BY <2>4, <2>5
    <2>7. f[k] = IF i \in chosen THEN ResolveEntry(bank[i], f[k - 1]) ELSE f[k - 1]
      BY <1>3, <2>3
    <2> HIDE DEF i
    <2>8. Parsed(chosen, i, IF i \in chosen THEN ResolveEntry(bank[i], f[k - 1]) ELSE f[k - 1])
      <3> DEFINE st == f[k - 1]
      <3>1. Parsed(chosen, i + 1, st) /\ i \in 1 .. Len(bank)
        BY <2>5, <2>6
      <3> HIDE DEF st
      <3>2. Parsed(chosen, i, IF i \in chosen THEN ResolveEntry(bank[i], st) ELSE st)
        BY <3>1, ParsedOneMore
      <3> QED
        BY <3>2 DEF st
    <2>9. Parsed(chosen, i, f[k])
      BY <2>7, <2>8
    <2> QED
      BY <2>2, <2>9 DEF i
  <1>6. N \in 0 .. N /\ N + 1 - N = 1
    OBVIOUS
  <1>7. Parsed(chosen, 1, f[N])
    BY <1>5, <1>6
  <1> QED
    BY <1>2, <1>7

\* A bank is made of configured entries and the one for the output directory.
LEMMA BankConfigured ==
  ASSUME BankInit
  PROVE  /\ IsList(bank)
         /\ \E conf \in Banks :
              /\ version = [p \in PathsOf(conf) |-> 1]
              /\ \A i \in DOMAIN bank : bank[i] = OutputEntry \/ \E j \in DOMAIN conf : bank[i] = conf[j]
  <1>1. PICK conf \in Banks, resumed \in BOOLEAN : bank = Complete(conf, resumed) /\ version = [p \in PathsOf(conf) |-> 1]
    BY DEF BankInit
  <1>2. conf \in Seq(Range(conf))
    BY BankAssumption
  <1>3. IsList(bank) /\ \A i \in DOMAIN bank : bank[i] = OutputEntry \/ \E j \in DOMAIN conf : bank[i] = conf[j]
    <2>1. CASE ~resumed
      <3>1. bank = conf \o <<>>
        BY <1>1, <2>1 DEF Complete
      <3>2. bank = conf
        BY <1>2, <3>1
      <3> QED
        BY <1>2, <3>2 DEF IsList
    <2>2. CASE resumed
      <3>1. bank = conf \o <<OutputEntry>>
        BY <1>1, <2>2 DEF Complete
      <3> HIDE DEF OutputEntry
      <3> DEFINE U == Range(conf) \cup {OutputEntry}
      <3>2. conf \in Seq(U) /\ <<OutputEntry>> \in Seq(U)
        BY <1>2
      <3>3. Len(bank) = Len(conf) + 1 /\ bank \in Seq(U) /\ \A i \in 1 .. Len(conf) + 1 : bank[i] = IF i <= Len(conf) THEN conf[i] ELSE OutputEntry
        BY <3>1, <3>2
      <3> HIDE DEF U
      <3>4. IsList(bank)
        BY <3>3, SeqIsList
      <3> QED
        BY <3>2, <3>3, <3>4
    <2> QED
      BY <2>1, <2>2
  <1> QED
    BY <1>1, <1>3

\* Entries of a bank are positions in it.
LEMMA EntriesAreIndices ==
  ASSUME IsList(bank)
  PROVE  /\ Len(bank) \in Nat /\ DOMAIN bank = 1 .. Len(bank)
         /\ Entries(bank) \subseteq 1 .. Len(bank) /\ DynamicEntries(bank) \subseteq 1 .. Len(bank)
  BY DEF IsList, Entries, DynamicEntries

-----------------------------------------------------------------------------
(* A reload during training.                                               *)

\* A row has all slots of its table.
RowsInSlots == \A t \in Tables : rows[t] = [id \in DOMAIN rows[t] |-> [s \in Slots |-> rows[t][id][s]]]

\* Sources the parser resolved for some entries.
Sources(chosen, loads) == IsList(loads) /\ Asked(chosen, loads)

\* What a reload has before it was resolved from dynamic entries.
BankInv ==
  /\ IsList(bank) /\ RowsInSlots
  /\ Sources(DynamicEntries(bank), dynamic)
  /\ phase = "update" => Sources(DynamicEntries(bank), todo)

LEMMA BankInvInit == ASSUME BankInit PROVE BankInv
  <1>1. RowsInSlots
    <2>1. <<>> = [id \in DOMAIN <<>> |-> [s \in Slots |-> <<>>[id][s]]]
      OBVIOUS
    <2>2. \A t \in Tables : rows[t] = <<>>
      BY DEF BankInit
    <2> QED
      BY <2>1, <2>2 DEF RowsInSlots
  <1>2. dynamic = <<>> /\ phase # "update"
    BY DEF BankInit
  <1> QED
    BY <1>1, <1>2, BankConfigured, EmptyList DEF BankInv, Sources, Asked

LEMMA RowsStay == ASSUME RowsInSlots, rows' = rows PROVE RowsInSlots'
  BY DEF RowsInSlots

LEMMA BankInvNext == ASSUME BankInv, [BankNext]_bankVars PROVE BankInv'
  <1>1. CASE Parse
    <2>1. Sources(DynamicEntries(bank), Resolve(bank, DynamicEntries(bank)).loads)
      BY ResolveParses, EntriesAreIndices DEF BankInv, Parsed, Shaped, Sources
    <2>2. dynamic' = Resolve(bank, DynamicEntries(bank)).loads /\ bank' = bank /\ phase' # "update" /\ rows' = rows
      BY <1>1 DEF Parse
    <2> QED
      BY <2>1, <2>2, RowsStay DEF BankInv, Sources, Asked, Wants, DynamicEntries, Entries
  <1>2. CASE LoadPath
    <2>1. UNCHANGED <<bank, dynamic>> /\ todo # <<>> /\ (phase' = "update" => phase = "update" /\ todo' = Tail(todo))
      BY <1>2 DEF LoadPath
    <2>2. Sources(DynamicEntries(bank), todo) => Sources(DynamicEntries(bank), Tail(todo))
      BY <2>1, ListTail DEF Sources, Asked
    <2>3. RowsInSlots'
      <3> DEFINE path == Head(todo)[1]
                 conf == Head(todo)[2]
      <3>1. CASE rows' = rows
        BY <3>1, RowsStay DEF BankInv
      <3>2. CASE \E junk \in {Initial, Unset} : rows' = LoadedRows(path, conf, junk)
        <4>0. PICK junk \in {Initial, Unset} : rows' = LoadedRows(path, conf, junk)
          BY <3>2
        <4> SUFFICES ASSUME NEW t \in Tables
                     PROVE  rows'[t] = [id \in DOMAIN rows'[t] |-> [s \in Slots |-> rows'[t][id][s]]]
          BY DEF RowsInSlots
        <4> DEFINE old == IF t \in Cleared(conf) THEN <<>> ELSE rows[t]
                   read == SlotsRead(path, conf, t)
                   ids == IF read = {} THEN {} ELSE IdsOf(path)
                   cell(id, s) == IF id \in ids /\ s \in read THEN Content(path, <<SourceTable(conf, t), s>>)
                                  ELSE IF id \in DOMAIN old THEN old[id][s]
                                  ELSE IF s \in NotGenerated(path, conf, t) THEN junk ELSE Initial
                   row == rows'[t]
        <4>1. row = [id \in DOMAIN old \cup ids |-> [s \in Slots |-> cell(id, s)]]
          BY <4>0 DEF LoadedRows
        <4> HIDE DEF path, conf, old, read, ids, cell, row
        <4>2. DOMAIN row = DOMAIN old \cup ids /\ \A id \in DOMAIN row : row[id] = [s \in Slots |-> cell(id, s)]
          BY <4>1
        <4>3. \A id \in DOMAIN row : row[id] = [s \in Slots |-> row[id][s]]
          BY <4>2
        <4>4. row = [id \in DOMAIN row |-> row[id]]
          BY <4>1
        <4>5. row = [id \in DOMAIN row |-> [s \in Slots |-> row[id][s]]]
          BY <4>3, <4>4
        <4> QED
          BY <4>5 DEF row
      <3> QED
        BY <1>2, <3>1, <3>2 DEF LoadPath
    <2> QED
      BY <2>1, <2>2, <2>3 DEF BankInv, Sources, Asked, Wants, DynamicEntries, Entries
  <1>3. CASE Restored \/ TrainAll
    <2>1. RowsInSlots'
      <3>1. CASE TrainAll
        <4>1. \A t \in Tables : rows'[t] = [id \in DOMAIN rows[t] |-> [s \in Slots |-> Trained]]
          BY <3>1 DEF TrainAll
        <4> SUFFICES ASSUME NEW t \in Tables
                     PROVE  rows'[t] = [id \in DOMAIN rows'[t] |-> [s \in Slots |-> rows'[t][id][s]]]
          BY DEF RowsInSlots
        <4> DEFINE row == rows'[t]
        <4>2. row = [id \in DOMAIN rows[t] |-> [s \in Slots |-> Trained]]
          BY <4>1
        <4> HIDE DEF row
        <4>3. \A id \in DOMAIN row : row[id] = [s \in Slots |-> row[id][s]]
          BY <4>2
        <4>4. row = [id \in DOMAIN row |-> [s \in Slots |-> row[id][s]]]
          BY <4>2, <4>3
        <4> QED
          BY <4>4 DEF row
      <3>2. CASE Restored
        BY <3>2, RowsStay DEF Restored, BankInv
      <3> QED
        BY <1>3, <3>1, <3>2
    <2> QED
      BY <1>3, <2>1 DEF Restored, TrainAll, BankInv, Sources, Asked, Wants, DynamicEntries, Entries
  <1>4. CASE UpdateLoad
    BY <1>4, RowsStay DEF UpdateLoad, BankInv, Sources, Asked, Wants, DynamicEntries, Entries
  <1>5. CASE UNCHANGED <<bank, phase, todo, dynamic, rows>>
    BY <1>5, RowsStay DEF BankInv, Sources, Asked, Wants, DynamicEntries, Entries
  <1> QED
    BY <1>1, <1>2, <1>3, <1>4, <1>5 DEF BankNext, bankVars, PublishVersion

\* One path of a reload changes only what dynamic entries want.
LEMMA UpdateLoads ==
  ASSUME NamesApart, BankInv, phase = "update", LoadPath, phase' # "failed"
  PROVE  /\ \A n \in DenseNames : dense'[n] # dense[n] => \E m \in Shares(n) : Touched(m)
         /\ \A n \in ParamNames : optim'[n] # optim[n] => Touched(n)
         /\ \A t \in Tables : rows'[t] # rows[t] => \E s \in Slots \cup {"id"} : Touched(<<t, s>>)
  <1> DEFINE path == Head(todo)[1]
             conf == Head(todo)[2]
  <1>1. /\ \E junk \in {Initial, Unset} : rows' = LoadedRows(path, conf, junk)
        /\ dense' = LoadedDense(path, conf)
        /\ optim' = LoadedOptim(path, conf)
        /\ todo # <<>>
    BY DEF LoadPath
  <1>2. \A n \in DOMAIN conf : /\ n # Optim => Touched(n)
                               /\ conf[n].clear => n \in SparseNames
    <2>1. Sources(DynamicEntries(bank), todo)
      BY DEF BankInv
    <2>2. 1 \in DOMAIN todo /\ Head(todo) = todo[1]
      BY <1>1, <2>1, ListTail DEF Sources
    <2>3. \A n \in DOMAIN conf : /\ n = Optim \/ \E i \in DynamicEntries(bank) : Wants(i, n)
                                 /\ conf[n].clear => n \in SparseNames
      BY <2>1, <2>2 DEF Sources, Asked
    <2>4. \A n : (\E i \in DynamicEntries(bank) : Wants(i, n)) => Touched(n)
      BY DEF Touched, DynamicEntries
    <2> HIDE DEF conf
    <2> QED
      BY <2>3, <2>4
  <1> HIDE DEF path, conf
  <1>3. \A n \in DenseNames : n # Optim
    BY DenseApart
  <1>4. \A t \in Tables, s \in Slots \cup {"id"} : <<t, s>> # Optim
    BY DenseApart DEF ExtraNames
  <1>5. \A n \in DenseRead(path, conf) : Touched(n)
    BY <1>2, <1>3 DEF DenseRead
  <1>6. ASSUME NEW n \in DenseNames, dense'[n] # dense[n] PROVE \E m \in Shares(n) : Touched(m)
    <2>1. Shares(n) \cap DenseRead(path, conf) # {}
      BY <1>1, <1>6 DEF LoadedDense
    <2> QED
      BY <1>5, <2>1
  <1>7. ASSUME NEW n \in ParamNames, optim'[n] # optim[n] PROVE Touched(n)
    <2>1. n \in DenseRead(path, conf)
      BY <1>1, <1>7 DEF LoadedOptim
    <2> QED
      BY <1>5, <2>1
  <1>8. ASSUME NEW t \in Tables, rows'[t] # rows[t] PROVE \E s \in Slots \cup {"id"} : Touched(<<t, s>>)
    <2>1. CASE t \in Cleared(conf)
      <3>1. PICK n \in DOMAIN conf : conf[n].clear /\ StartsWith(n[1], t)
        BY <2>1 DEF Cleared
      <3>2. PICK s \in Slots \cup {"id"} : n = <<t, s>>
        BY <1>2, <3>1 DEF NamesApart
      <3> QED
        BY <1>2, <1>4, <3>2
    <2>2. CASE SlotsRead(path, conf, t) # {}
      <3>1. PICK s \in Slots \cup {"id"} : <<t, s>> \in DOMAIN conf
        BY <2>2 DEF SlotsRead
      <3> QED
        BY <1>2, <1>4, <3>1
    <2>3. CASE t \notin Cleared(conf) /\ SlotsRead(path, conf, t) = {}
      <3>0. PICK junk \in {Initial, Unset} : rows' = LoadedRows(path, conf, junk)
        BY <1>1
      <3>1. rows'[t] = [id \in DOMAIN rows[t] \cup {} |->
                          [s \in Slots |-> IF id \in {} /\ s \in {} THEN Content(path, <<SourceTable(conf, t), s>>)
                                           ELSE IF id \in DOMAIN rows[t] THEN rows[t][id][s]
                                           ELSE IF s \in NotGenerated(path, conf, t) THEN junk ELSE Initial]]
        <4> DEFINE old == IF t \in Cleared(conf) THEN <<>> ELSE rows[t]
                   ids == IF SlotsRead(path, conf, t) = {} THEN {} ELSE IdsOf(path)
                   read == SlotsRead(path, conf, t)
        <4>1. rows'[t] = [id \in DOMAIN old \cup ids |->
                            [s \in Slots |-> IF id \in ids /\ s \in read THEN Content(path, <<SourceTable(conf, t), s>>)
                                             ELSE IF id \in DOMAIN old THEN old[id][s]
                                             ELSE IF s \in NotGenerated(path, conf, t) THEN junk ELSE Initial]]
          BY <3>0 DEF LoadedRows
        <4>2. old = rows[t] /\ ids = {} /\ read = {}
          BY <2>3
        <4> HIDE DEF old, ids, read
        <4> QED
          BY <4>1, <4>2
      <3>2. rows'[t] = rows[t]
        <4> DEFINE new == rows'[t]
                   now == rows[t]
        <4>1. new = [id \in DOMAIN now |-> [s \in Slots |-> now[id][s]]]
          <5> HIDE DEF path, conf
          <5> QED
            BY <3>1
        <4>2. now = [id \in DOMAIN now |-> [s \in Slots |-> now[id][s]]]
          BY DEF BankInv, RowsInSlots
        <4> HIDE DEF new, now
        <4>3. new = now
          BY <4>1, <4>2, Zenon
        <4> QED
          BY <4>3 DEF new, now
      <3> QED
        BY <1>8, <3>2
    <2> QED
      BY <2>1, <2>2, <2>3
  <1> QED
    BY <1>6, <1>7, <1>8

\* update_load() reloads what dynamic entries resolve to and nothing else: whatever banks
\* are configured, rows, parameters, filter steps and optimizer state that no dynamic entry
\* asks for stay as they were trained.  NamesApart is needed because the code clears every
\* table whose name a cleared name begins with.
THEOREM UpdateStaysInside ==
  ASSUME NamesApart
  PROVE  BankSpec => UpdateTouchesOnlyDynamic
  <1>1. BankInit => BankInv
    BY BankInvInit
  <1>2. BankInv /\ [BankNext]_bankVars => BankInv'
    BY BankInvNext
  <1> DEFINE Inside ==
        phase = "update" /\ phase' # "failed" =>
          /\ \A n \in DenseNames : dense'[n] # dense[n] => \E m \in Shares(n) : Touched(m)
          /\ \A n \in ParamNames : optim'[n] # optim[n] => Touched(n)
          /\ \A t \in Tables : rows'[t] # rows[t] => \E s \in Slots \cup {"id"} : Touched(<<t, s>>)
  <1>3. BankInv /\ [BankNext]_bankVars => [Inside]_bankVars
    <2> SUFFICES ASSUME BankInv, BankNext, phase = "update", phase' # "failed" PROVE Inside
      OBVIOUS
    <2>1. CASE LoadPath
      BY <2>1, UpdateLoads
    <2>2. CASE UNCHANGED <<rows, dense, optim>>
      BY <2>2
    <2>3. LoadPath \/ UNCHANGED <<rows, dense, optim>>
      BY DEF BankNext, Parse, Restored, TrainAll, UpdateLoad, PublishVersion
    <2> QED
      BY <2>1, <2>2, <2>3
  <1>4. BankInv /\ BankInv' /\ [BankNext]_bankVars => [Inside]_bankVars
    BY <1>3
  <1> HIDE DEF Inside
  <1>5. BankSpec => [][Inside]_bankVars
    BY <1>1, <1>2, <1>4, PTL DEF BankSpec
  <1> QED
    BY <1>5 DEF Inside, UpdateTouchesOnlyDynamic

-----------------------------------------------------------------------------
(* The optimizer state of renamed parameters.                              *)

\* The renamed parameters as a list: each once.
LEMMA LoadMapList ==
  ASSUME NEW conf
  PROVE  LET list == SetToSeq(LoadMap(conf))
         IN  Len(list) \in Nat /\ list \in [1 .. Len(list) -> LoadMap(conf)] /\ IsInjective(list)
             /\ \A n \in LoadMap(conf) : \E k \in 1 .. Len(list) : list[k] = n
  <1> DEFINE S == LoadMap(conf)
             N == Cardinality(S)
             list == SetToSeq(S)
  <1>1. IsFiniteSet(S)
    <2>1. IsFiniteSet(ParamNames)
      <3> DEFINE f == [p \in Params |-> <<p, "param">>]
      <3>1. f \in Surjection(Params, ParamNames)
        BY Zenon DEF Surjection, ParamNames
      <3> HIDE DEF f
      <3> QED
        BY <3>1, BankAssumption, FS_Surjection
    <2>2. IsFiniteSet(StepNames)
      <3>1. IsFiniteSet({t \in Tables : Runtime(t) # ""})
        BY BankAssumption, FS_Subset
      <3> DEFINE S0 == {t \in Tables : Runtime(t) # ""}
                 f == [t \in S0 |-> <<t, "step">>]
      <3>2. f \in Surjection(S0, StepNames)
        BY Zenon DEF Surjection, StepNames
      <3> HIDE DEF f
      <3> QED
        BY <3>1, <3>2, FS_Surjection
    <2>3. IsFiniteSet(DenseNames)
      BY <2>1, <2>2, FS_Union DEF DenseNames
    <2> QED
      BY <2>3, FS_Subset DEF LoadMap
  <1>2. N \in Nat /\ ExistsBijection(1 .. N, S)
    BY <1>1, FS_CardinalityType
  <1>3. \E f \in [1 .. N -> S] : IsInjective(f)
    BY <1>2 DEF ExistsBijection, Bijection, Injection
  <1>4. list \in [1 .. N -> S] /\ IsInjective(list)
    BY <1>3 DEF SetToSeq
  <1>5. list \in Surjection(1 .. N, S)
    <2>1. list \in Injection(1 .. N, S)
      BY <1>4 DEF Injection
    <2>2. Cardinality(1 .. N) = N
      <3> HIDE DEF N
      <3>1. N \in Nat
        BY <1>2
      <3> QED
        BY <3>1, FS_Interval
    <2> HIDE DEF list, S
    <2> QED
      BY <1>1, <2>1, <2>2, FS_Injection
  <1>6. Len(list) = N
    <2> HIDE DEF list, N
    <2> QED
      BY <1>2, <1>4
  <1> HIDE DEF list, N
  <1>7. \A n \in S : \E k \in 1 .. N : list[k] = n
    BY <1>5 DEF Surjection
  <1> QED
    BY <1>2, <1>4, <1>6, <1>7 DEF list

\* The states load_state_dict() goes through with the first m renamed parameters.
Moved(path, conf, m, f) ==
  f = [k \in 0 .. m |->
         IF k = 0 THEN [failed |-> FALSE, of |-> SavedOptim(path)]
         ELSE ProcessLoadMap(f[k - 1], SetToSeq(LoadMap(conf))[k], conf[SetToSeq(LoadMap(conf))[k]].source)]

\* The recursion of RenamedOptim has a solution.
LEMMA MoveExists ==
  ASSUME NEW path, NEW conf, NEW m \in Nat
  PROVE  \E f : Moved(path, conf, m, f)
  <1> DEFINE next(k, st) == ProcessLoadMap(st, SetToSeq(LoadMap(conf))[k], conf[SetToSeq(LoadMap(conf))[k]].source)
             start == [failed |-> FALSE, of |-> SavedOptim(path)]
             wrong == {j \in Nat : ~\E f : Moved(path, conf, j, f)}
  <1> SUFFICES ASSUME wrong # {} PROVE FALSE
    OBVIOUS
  <1>1. PICK j \in wrong : \A n \in wrong : j <= n
    <2>1. wrong \subseteq Nat
      OBVIOUS
    <2> HIDE DEF wrong
    <2> QED
      BY <2>1, LeastNatural
  <1>2. \A f, n : Moved(path, conf, n, f) <=> f = [k \in 0 .. n |-> IF k = 0 THEN start ELSE next(k, f[k - 1])]
    BY DEF Moved
  <1> HIDE DEF next, start
  <1>3. j \in Nat /\ j # 0
    <2> DEFINE f == [k \in 0 .. 0 |-> start]
    <2>1. f = [k \in 0 .. 0 |-> IF k = 0 THEN start ELSE next(k, f[k - 1])]
      OBVIOUS
    <2>2. Moved(path, conf, 0, f)
      BY <1>2, <2>1
    <2> QED
      BY <1>1, <2>2
  <1>4. PICK f : Moved(path, conf, j - 1, f)
    BY <1>1, <1>3
  <1> DEFINE g == [k \in 0 .. j |-> IF k = j THEN next(j, f[j - 1]) ELSE f[k]]
  <1>5. \A k \in 0 .. (j - 1) : f[k] = IF k = 0 THEN start ELSE next(k, f[k - 1])
    <2>1. f = [k \in 0 .. (j - 1) |-> IF k = 0 THEN start ELSE next(k, f[k - 1])]
      BY <1>2, <1>4
    <2> QED
      BY <2>1
  <1>6. \A k \in 0 .. j : g[k] = IF k = 0 THEN start ELSE next(k, g[k - 1])
    <2> TAKE k \in 0 .. j
    <2>1. CASE k = j
      BY <1>3, <2>1
    <2>2. CASE k # j
      <3>1. k \in 0 .. (j - 1) /\ g[k] = f[k] /\ (k # 0 => g[k - 1] = f[k - 1])
        BY <1>3, <2>2
      <3> QED
        BY <1>5, <3>1
    <2> QED
      BY <2>1, <2>2
  <1>7. g = [k \in 0 .. j |-> g[k]]
    OBVIOUS
  <1> HIDE DEF g
  <1>8. g = [k \in 0 .. j |-> IF k = 0 THEN start ELSE next(k, g[k - 1])]
    BY <1>6, <1>7
  <1>9. Moved(path, conf, j, g)
    BY <1>2, <1>8
  <1> QED
    BY <1>1, <1>9

\* What the moves have done when those of the names in done are through.
MovedSoFar(path, conf, done, st) ==
  st.failed \/
  /\ DOMAIN st.of = (DOMAIN SavedOptim(path) \ {conf[n].source : n \in done}) \cup done
  /\ \A x \in DOMAIN st.of : st.of[x] = Content(path, IF x \in done THEN conf[x].source ELSE x)

\* If no move fails, every parameter that is read has the state of its source.
LEMMA StateFollows ==
  ASSUME NEW path, NEW conf, FromCheckpoint(path, conf), ~RenamedOptim(path, conf).failed,
         NEW n \in ParamNames \cap DOMAIN conf
  PROVE  n \in DOMAIN RenamedOptim(path, conf).of
         /\ RenamedOptim(path, conf).of[n] = Content(path, IF conf[n].oname THEN conf[n].source ELSE n)
  <1> DEFINE list == SetToSeq(LoadMap(conf))
             done(k) == {list[j] : j \in 1 .. k}
             start == [failed |-> FALSE, of |-> SavedOptim(path)]
             f == CHOOSE g : Moved(path, conf, Len(list), g)
  <1>1. /\ Len(list) \in Nat /\ list \in [1 .. Len(list) -> LoadMap(conf)] /\ IsInjective(list)
        /\ \A m \in LoadMap(conf) : \E k \in 1 .. Len(list) : list[k] = m
    BY LoadMapList
  <1>2. Moved(path, conf, Len(list), f)
    BY <1>1, MoveExists
  <1>3. RenamedOptim(path, conf) = f[Len(list)]
    BY DEF RenamedOptim, Moved
  <1> HIDE DEF f
  <1>4. \A k \in 0 .. Len(list) : f[k] = IF k = 0 THEN start ELSE ProcessLoadMap(f[k - 1], list[k], conf[list[k]].source)
    <2>1. f = [k \in 0 .. Len(list) |-> IF k = 0 THEN start ELSE ProcessLoadMap(f[k - 1], list[k], conf[list[k]].source)]
      BY <1>2 DEF Moved
    <2> HIDE DEF list, start
    <2> QED
      BY <2>1
  <1> HIDE DEF list
  <1>5. MovedSoFar(path, conf, done(0), start)
    <2>1. done(0) = {}
      OBVIOUS
    <2>2. \A x \in DOMAIN SavedOptim(path) : SavedOptim(path)[x] = Content(path, x)
      BY DEF SavedOptim
    <2> QED
      BY <2>1, <2>2 DEF MovedSoFar
  <1>6. ASSUME NEW k \in 1 .. Len(list), MovedSoFar(path, conf, done(k - 1), f[k - 1])
        PROVE  MovedSoFar(path, conf, done(k), f[k])
    <2> DEFINE D == done(k - 1)
               p == list[k]
               source == conf[p].source
               st == f[k - 1]
    <2>1. k \in 0 .. Len(list) /\ k # 0 /\ k - 1 \in 0 .. Len(list)
      BY <1>1
    <2>2. f[k] = ProcessLoadMap(st, p, source)
      BY <1>4, <2>1
    <2>3. done(k) = D \cup {p}
      <3>1. 1 .. k = (1 .. (k - 1)) \cup {k}
        BY <1>1
      <3> QED
        BY <3>1
    <2>4. p \in LoadMap(conf) /\ p \notin D /\ D \subseteq LoadMap(conf)
      <3>1. \A j \in 1 .. (k - 1) : j \in 1 .. Len(list) /\ j # k
        BY <1>1
      <3>2. \A j \in 1 .. (k - 1) : list[j] # p /\ list[j] \in LoadMap(conf)
        BY <1>1, <3>1 DEF IsInjective
      <3> QED
        BY <1>1, <3>2
    <2> HIDE DEF D, p
    <2>5. p \in DenseNames /\ p \in DOMAIN conf /\ conf[p].oname
      BY <2>4 DEF LoadMap
    <2>6. source \in DenseNames => source = p
      BY <2>5 DEF FromCheckpoint
    <2>7. source \notin D
      BY <2>4, <2>6 DEF LoadMap
    <2> HIDE DEF source, st
    <2>8. CASE st.failed
      <3>1. f[k].failed
        BY <2>2, <2>8 DEF ProcessLoadMap
      <3> QED
        BY <3>1 DEF MovedSoFar
    <2>9. CASE source \notin DOMAIN st.of
      <3>1. f[k].failed = TRUE
        BY <2>2, <2>9 DEF ProcessLoadMap
      <3> QED
        BY <3>1 DEF MovedSoFar
    <2>10. CASE ~st.failed /\ source \in DOMAIN st.of
      <3>1. DOMAIN st.of = (DOMAIN SavedOptim(path) \ {conf[n0].source : n0 \in D}) \cup D
            /\ \A x \in DOMAIN st.of : st.of[x] = Content(path, IF x \in D THEN conf[x].source ELSE x)
        BY <1>6, <2>10 DEF MovedSoFar, D, st
      <3>2. f[k].of = [x \in (DOMAIN st.of \ {source}) \cup {p} |-> IF x = p THEN st.of[source] ELSE st.of[x]]
        BY <2>2, <2>10 DEF ProcessLoadMap
      <3>3. DOMAIN f[k].of = (DOMAIN SavedOptim(path) \ {conf[n0].source : n0 \in D \cup {p}}) \cup (D \cup {p})
        BY <2>7, <3>1, <3>2 DEF source
      <3>4. \A x \in DOMAIN f[k].of : f[k].of[x] = Content(path, IF x \in D \cup {p} THEN conf[x].source ELSE x)
        <4> TAKE x \in DOMAIN f[k].of
        <4>1. CASE x = p
          <5>1. f[k].of[x] = st.of[source]
            BY <3>2, <4>1
          <5>2. st.of[source] = Content(path, source)
            BY <2>7, <2>10, <3>1
          <5> QED
            BY <4>1, <5>1, <5>2 DEF source
        <4>2. CASE x # p
          <5>1. x \in DOMAIN st.of /\ f[k].of[x] = st.of[x]
            BY <3>2, <4>2
          <5> QED
            BY <3>1, <4>2, <5>1
        <4> QED
          BY <4>1, <4>2
      <3> QED
        BY <2>3, <3>3, <3>4 DEF MovedSoFar
    <2> QED
      BY <2>8, <2>9, <2>10
  <1>7. MovedSoFar(path, conf, done(Len(list)), f[Len(list)])
    <2> DEFINE wrong == {k \in 0 .. Len(list) : ~MovedSoFar(path, conf, done(k), f[k])}
    <2>1. ASSUME wrong # {} PROVE FALSE
      <3>1. wrong \subseteq Nat
        OBVIOUS
      <3>2. PICK k \in wrong : \A j \in wrong : k <= j
        <4> HIDE DEF wrong
        <4> QED
          BY <2>1, <3>1, LeastNatural
      <3>3. k # 0
        <4>1. f[0] = start
          <5>1. 0 \in 0 .. Len(list)
            BY <1>1
          <5> HIDE DEF start
          <5> QED
            BY <1>4, <5>1
        <4> QED
          BY <1>5, <3>2, <4>1
      <3>4. k \in 1 .. Len(list) /\ k - 1 \in 0 .. Len(list) /\ k - 1 \notin wrong
        <4>1. k \in 0 .. Len(list) /\ Len(list) \in Nat
          BY <1>1, <3>2
        <4>2. k \in 1 .. Len(list) /\ k - 1 \in 0 .. Len(list) /\ k - 1 < k /\ k - 1 \in Int /\ k \in Int
          BY <3>3, <4>1
        <4>3. ~(k <= k - 1)
          BY <4>2
        <4> HIDE DEF wrong
        <4> QED
          BY <3>2, <4>2, <4>3
      <3>5. MovedSoFar(path, conf, done(k - 1), f[k - 1])
        BY <3>4
      <3>6. MovedSoFar(path, conf, done(k), f[k])
        BY <1>6, <3>4, <3>5
      <3> QED
        BY <3>2, <3>6
    <2>2. Len(list) \in 0 .. Len(list)
      BY <1>1
    <2> QED
      BY <2>1, <2>2
  <1>8. done(Len(list)) = LoadMap(conf)
    BY <1>1
  <1> DEFINE of == RenamedOptim(path, conf).of
  <1>9. DOMAIN of = (DOMAIN SavedOptim(path) \ {conf[m].source : m \in LoadMap(conf)}) \cup LoadMap(conf)
        /\ \A x \in DOMAIN of : of[x] = Content(path, IF x \in LoadMap(conf) THEN conf[x].source ELSE x)
    BY <1>3, <1>7, <1>8 DEF MovedSoFar
  <1>10. n \in DenseNames
    BY SharedNames
  <1> HIDE DEF of, done
  <1>11. CASE conf[n].oname
    <2>1. n \in LoadMap(conf)
      BY <1>10, <1>11 DEF LoadMap
    <2> QED
      BY <1>9, <1>11, <2>1 DEF of
  <1>12. CASE ~conf[n].oname
    <2>1. n \notin LoadMap(conf)
      BY <1>12 DEF LoadMap
    <2>2. n \in DOMAIN SavedOptim(path)
      <3>1. n \in Holds(path)
        BY <1>10, <1>12 DEF FromCheckpoint
      <3> QED
        BY <3>1, DenseApart DEF SavedOptim
    <2>3. \A m \in LoadMap(conf) : conf[m].source # n
      BY <1>10, <2>1 DEF LoadMap, FromCheckpoint
    <2> QED
      BY <1>9, <1>12, <2>1, <2>2, <2>3 DEF of
  <1> QED
    BY <1>11, <1>12

\* The plan of a load: every path comes once, and every name is loaded from one path.
Plan(loads) ==
  /\ IsList(loads)
  /\ \A k \in DOMAIN loads : loads[k][1] # "initial" /\ FromCheckpoint(loads[k][1], loads[k][2])
  /\ \A k, l \in DOMAIN loads : k # l => loads[k][1] # loads[l][1] /\ DOMAIN loads[k][2] \cap DOMAIN loads[l][2] = {}

\* What OptimizerFollows says at the end of restore() holds after each path, and the
\* paths still to come have neither been read nor do their names have a content.
Follows ==
  \A n \in ParamNames :
    IF optim[n] # Initial THEN optim[n] = dense[n]
    ELSE dense[n] # Initial => \A m \in ParamNames : optim[m][1] # dense[n][1]

Ahead ==
  \A k \in DOMAIN todo : \A n \in ParamNames :
    /\ dense[n][1] # todo[k][1] /\ optim[n][1] # todo[k][1]
    /\ n \in DOMAIN todo[k][2] => dense[n] = Initial /\ optim[n] = Initial

OptimInv ==
  /\ IsList(bank) /\ \A i \in Entries(bank) : EntryFine(bank[i])
  /\ phase = "parse" => \A n \in ParamNames : dense[n] = Initial /\ optim[n] = Initial
  /\ phase = "load" => Plan(todo) /\ Ahead
  /\ phase \in {"load", "ready"} => Follows

LEMMA OptimInvInit == ASSUME RenamesLeadOut, BankInit PROVE OptimInv
  <1>1. PICK conf \in Banks : \A i \in DOMAIN bank : bank[i] = OutputEntry \/ \E j \in DOMAIN conf : bank[i] = conf[j]
    BY BankConfigured
  <1>2. \A i \in DOMAIN conf : EntryFine(conf[i])
    BY BankAssumption DEF EntryFine, RenamesLeadOut
  <1>3. EntryFine(OutputEntry)
    <2>1. OutputEntry.oname = <<>> /\ OutputEntry.path = OutputDir
      BY DEF OutputEntry
    <2>2. <<>> \in Seq(Range(<<>>)) /\ DOMAIN <<>> = {}
      OBVIOUS
    <2> QED
      BY <2>1, <2>2, BankAssumption DEF EntryFine
  <1>5. \A i \in Entries(bank) : EntryFine(bank[i])
    BY <1>1, <1>2, <1>3 DEF Entries
  <1>6. phase = "parse" /\ \A n \in ParamNames : dense[n] = Initial /\ optim[n] = Initial
    BY SharedNames DEF BankInit
  <1> QED
    BY <1>5, <1>6, BankConfigured DEF OptimInv

\* One path is loaded.
LEMMA LoadKeepsFollows ==
  ASSUME OptimInv, phase = "load", LoadPath, phase' = "load"
  PROVE  Plan(todo') /\ Ahead' /\ Follows'
  <1> DEFINE path == Head(todo)[1]
             conf == Head(todo)[2]
  <1>1. /\ todo # <<>> /\ todo' = Tail(todo)
        /\ dense' = LoadedDense(path, conf) /\ optim' = LoadedOptim(path, conf)
        /\ ~LoadFails(path, conf)
    BY DEF LoadPath
  <1>2. Plan(todo) /\ Ahead /\ Follows
    BY DEF OptimInv
  <1>3. /\ IsList(Tail(todo)) /\ 1 \in DOMAIN todo /\ Head(todo) = todo[1]
        /\ \A i \in DOMAIN Tail(todo) : i \in Int /\ i + 1 # 1 /\ i + 1 \in DOMAIN todo /\ Tail(todo)[i] = todo[i + 1]
    <2>1. IsList(todo)
      BY <1>2 DEF Plan
    <2>2. IsList(Tail(todo)) /\ 1 \in DOMAIN todo /\ Head(todo) = todo[1]
          /\ \A i \in DOMAIN Tail(todo) : i + 1 \in DOMAIN todo /\ Tail(todo)[i] = todo[i + 1]
      BY <1>1, <2>1, ListTail
    <2>3. \A i \in DOMAIN Tail(todo) : i \in Nat /\ i >= 1
      BY <2>2 DEF IsList
    <2> QED
      BY <2>2, <2>3
  <1>4. path # "initial" /\ FromCheckpoint(path, conf)
        /\ \A n \in ParamNames : /\ dense[n][1] # path /\ optim[n][1] # path
                                 /\ n \in DOMAIN conf => dense[n] = Initial /\ optim[n] = Initial
    BY <1>2, <1>3 DEF Plan, Ahead
  <1>5. \A i \in DOMAIN Tail(todo) : Tail(todo)[i][1] # path /\ DOMAIN Tail(todo)[i][2] \cap DOMAIN conf = {}
    BY <1>2, <1>3 DEF Plan
  <1> HIDE DEF path, conf
  <1> DEFINE source(n) == IF conf[n].oname THEN conf[n].source ELSE n
  <1>6. \A n \in ParamNames \cap DOMAIN conf : n \in DenseRead(path, conf) /\ DenseSource(path, conf, n) = source(n)
    <2> TAKE n \in ParamNames \cap DOMAIN conf
    <2>1. n \in DenseNames
      BY SharedNames
    <2>2. DenseSource(path, conf, n) = source(n) /\ source(n) \in Holds(path)
      BY <1>4, <2>1 DEF FromCheckpoint, DenseSource
    <2> QED
      BY <2>1, <2>2 DEF DenseRead
  <1>7. \A n \in ParamNames : dense'[n] = IF n \in DOMAIN conf THEN Content(path, source(n)) ELSE dense[n]
    <2> TAKE n \in ParamNames
    <2>1. n \in DenseNames /\ Shares(n) = {n}
      BY SharedNames
    <2>2. CASE n \in DOMAIN conf
      <3>1. Shares(n) \cap DenseRead(path, conf) = {n}
        BY <1>6, <2>1, <2>2
      <3>2. dense'[n] = Content(path, DenseSource(path, conf, CHOOSE m \in {n} : TRUE))
        BY <1>1, <2>1, <3>1 DEF LoadedDense
      <3>3. (CHOOSE m \in {n} : TRUE) = n
        OBVIOUS
      <3> QED
        BY <1>6, <2>2, <3>2, <3>3
    <2>3. CASE n \notin DOMAIN conf
      <3>1. Shares(n) \cap DenseRead(path, conf) = {}
        BY <2>1, <2>3 DEF DenseRead
      <3> QED
        BY <1>1, <2>1, <2>3, <3>1 DEF LoadedDense
    <2> QED
      BY <2>2, <2>3
  <1>8. \A n \in ParamNames : optim'[n] = IF OptimRead(path, conf) /\ n \in DOMAIN conf THEN Content(path, source(n)) ELSE optim[n]
    <2> TAKE n \in ParamNames
    <2>1. CASE OptimRead(path, conf) /\ n \in DOMAIN conf
      <3>1. ~RenamedOptim(path, conf).failed
        BY <1>1, <2>1 DEF LoadFails
      <3>2. n \in DOMAIN RenamedOptim(path, conf).of /\ RenamedOptim(path, conf).of[n] = Content(path, source(n))
        BY <1>4, <2>1, <3>1, StateFollows
      <3> QED
        BY <1>1, <1>6, <2>1, <3>2 DEF LoadedOptim
    <2>2. CASE ~OptimRead(path, conf) \/ n \notin DOMAIN conf
      <3>1. ~OptimRead(path, conf) \/ n \notin DenseRead(path, conf)
        BY <2>2 DEF DenseRead
      <3> QED
        BY <1>1, <2>2, <3>1 DEF LoadedOptim
    <2> QED
      BY <2>1, <2>2
  <1>9. \A x : Content(path, x)[1] = path
    BY DEF Content
  <1>10. Initial[1] = "initial"
    BY DEF Initial
  <1> HIDE DEF source
  <1>11. Plan(todo')
    <2>1. \A k \in DOMAIN Tail(todo) : Tail(todo)[k][1] # "initial" /\ FromCheckpoint(Tail(todo)[k][1], Tail(todo)[k][2])
      BY <1>2, <1>3 DEF Plan
    <2>2. \A k, l \in DOMAIN Tail(todo) : k # l =>
            Tail(todo)[k][1] # Tail(todo)[l][1] /\ DOMAIN Tail(todo)[k][2] \cap DOMAIN Tail(todo)[l][2] = {}
      <3> SUFFICES ASSUME NEW k \in DOMAIN Tail(todo), NEW l \in DOMAIN Tail(todo), k # l
                   PROVE  Tail(todo)[k][1] # Tail(todo)[l][1] /\ DOMAIN Tail(todo)[k][2] \cap DOMAIN Tail(todo)[l][2] = {}
        OBVIOUS
      <3>1. k + 1 # l + 1
        BY <1>3
      <3> QED
        BY <1>2, <1>3, <3>1 DEF Plan
    <2> QED
      BY <1>1, <1>3, <2>1, <2>2 DEF Plan
  <1>12. Ahead'
    <2> SUFFICES ASSUME NEW k \in DOMAIN Tail(todo), NEW n \in ParamNames
                 PROVE  /\ dense'[n][1] # Tail(todo)[k][1] /\ optim'[n][1] # Tail(todo)[k][1]
                        /\ n \in DOMAIN Tail(todo)[k][2] => dense'[n] = Initial /\ optim'[n] = Initial
      BY <1>1 DEF Ahead
    <2>1. dense[n][1] # Tail(todo)[k][1] /\ optim[n][1] # Tail(todo)[k][1]
          /\ (n \in DOMAIN Tail(todo)[k][2] => dense[n] = Initial /\ optim[n] = Initial)
      BY <1>2, <1>3 DEF Ahead
    <2>2. Tail(todo)[k][1] # path /\ (n \in DOMAIN Tail(todo)[k][2] => n \notin DOMAIN conf)
      BY <1>5
    <2> QED
      BY <1>7, <1>8, <1>9, <2>1, <2>2
  <1>13. Follows'
    <2> SUFFICES ASSUME NEW n \in ParamNames
                 PROVE  IF optim'[n] # Initial THEN optim'[n] = dense'[n]
                        ELSE dense'[n] # Initial => \A m \in ParamNames : optim'[m][1] # dense'[n][1]
      BY DEF Follows, Initial
    <2>1. CASE n \in DOMAIN conf /\ OptimRead(path, conf)
      <3>1. optim'[n] = dense'[n] /\ optim'[n][1] = path
        BY <1>7, <1>8, <1>9, <2>1
      <3> QED
        BY <1>4, <1>10, <3>1
    <2>2. CASE n \in DOMAIN conf /\ ~OptimRead(path, conf)
      <3>1. optim'[n] = Initial /\ dense'[n][1] = path /\ \A m \in ParamNames : optim'[m] = optim[m]
        BY <1>4, <1>7, <1>8, <1>9, <2>2
      <3> QED
        BY <1>4, <3>1
    <2>3. CASE n \notin DOMAIN conf
      <3>1. optim'[n] = optim[n] /\ dense'[n] = dense[n]
        BY <1>7, <1>8, <2>3
      <3>2. IF optim[n] # Initial THEN optim[n] = dense[n]
            ELSE dense[n] # Initial => \A m \in ParamNames : optim[m][1] # dense[n][1]
        BY <1>2 DEF Follows
      <3>3. \A m \in ParamNames : optim'[m] = optim[m] \/ optim'[m][1] = path
        BY <1>8, <1>9
      <3>4. dense[n][1] # path
        BY <1>4
      <3> QED
        BY <3>1, <3>2, <3>3, <3>4
    <2> QED
      BY <2>1, <2>2, <2>3
  <1> QED
    BY <1>11, <1>12, <1>13

LEMMA OptimInvNext == ASSUME OptimInv, [BankNext]_bankVars PROVE OptimInv'
  <1>1. bank' = bank
    BY DEF BankNext, bankVars, Parse, LoadPath, Restored, TrainAll, UpdateLoad, PublishVersion
  <1>2. IsList(bank') /\ \A i \in Entries(bank') : EntryFine(bank'[i])
    BY <1>1 DEF OptimInv
  <1>3. CASE Parse
    <2>1. UNCHANGED <<dense, optim>> /\ phase = "parse" /\ phase' \in {"load", "failed"} /\ todo' = Resolve(bank, Entries(bank)).loads
      BY <1>3 DEF Parse
    <2>2. Plan(todo')
      BY <2>1, ResolveParses, EntriesAreIndices DEF OptimInv, Parsed, Shaped, Plan
    <2>3. \A n \in ParamNames : dense'[n] = Initial /\ optim'[n] = Initial
      BY <2>1 DEF OptimInv
    <2>4. Initial[1] = "initial"
      BY DEF Initial
    <2>5. Ahead'
      BY <2>2, <2>3, <2>4 DEF Ahead, Plan, Initial
    <2>6. Follows'
      BY <2>3 DEF Follows, Initial
    <2> QED
      BY <1>2, <2>1, <2>2, <2>5, <2>6 DEF OptimInv, EntryFine, Entries
  <1>4. CASE LoadPath
    <2>1. CASE phase' = "load"
      <3>1. phase = "load"
        BY <1>4, <2>1 DEF LoadPath
      <3> QED
        BY <1>2, <1>4, <2>1, <3>1, LoadKeepsFollows DEF OptimInv, EntryFine, Entries
    <2>2. CASE phase' # "load"
      <3>1. phase' \in {"update", "failed"}
        BY <1>4, <2>2 DEF LoadPath
      <3> QED
        BY <1>2, <3>1 DEF OptimInv, EntryFine, Entries
    <2> QED
      BY <2>1, <2>2
  <1>5. CASE Restored
    <2>1. phase' = "train" \/ (phase = "load" /\ phase' = "ready" /\ UNCHANGED <<dense, optim>>)
      BY <1>5 DEF Restored
    <2>2. phase' = "ready" => Follows'
      BY <2>1 DEF OptimInv, Follows, Initial
    <2> QED
      BY <1>2, <2>1, <2>2 DEF OptimInv, EntryFine, Entries
  <1>6. CASE TrainAll \/ UpdateLoad
    <2>1. phase' \in {"train", "update"}
      BY <1>6 DEF TrainAll, UpdateLoad
    <2> QED
      BY <1>2, <2>1 DEF OptimInv, EntryFine, Entries
  <1>7. CASE UNCHANGED <<bank, phase, todo, dense, optim>>
    <2>1. Plan(todo)' <=> Plan(todo)
      BY <1>7
    <2>2. Ahead' <=> Ahead
      BY <1>7 DEF Ahead, Initial
    <2>3. Follows' <=> Follows
      BY <1>7 DEF Follows, Initial
    <2> QED
      BY <1>2, <1>7, <2>1, <2>2, <2>3 DEF OptimInv, EntryFine, Entries, Initial
  <1> QED
    BY <1>3, <1>4, <1>5, <1>6, <1>7 DEF BankNext, bankVars, PublishVersion

\* NamedOptimizer.load_state_dict() moves states by name while the parameters are read by
\* _load_dense_model(): whatever banks are configured and versions published, when restore()
\* is through a parameter has the state it was saved with, or none because the state of
\* its checkpoint was not loaded.  RenamesLeadOut is needed because the states are moved
\* one after the other in one dictionary.
THEOREM ParametersWithTheirState ==
  ASSUME RenamesLeadOut
  PROVE  BankSpec => []OptimizerFollows
  <1>1. BankInit => OptimInv
    BY OptimInvInit
  <1>2. OptimInv /\ [BankNext]_bankVars => OptimInv'
    BY OptimInvNext
  <1>3. OptimInv => OptimizerFollows
    BY DEF OptimInv, Follows, OptimizerFollows
  <1> QED
    BY <1>1, <1>2, <1>3, PTL DEF BankSpec
-----------------------------------------------------------------------------
(* The last entry that wants a name and has it.  Here the bank is an       *)
(* argument, for it never changes.                                         *)

\* Best(n).
Source(b, n) ==
  LET good == {i \in Entries(b) : \E m \in Shares(n) : WantedBy(b[i], m) /\ OfferedBy(b[i], m) # {}}
  IN  IF good = {} THEN 0 ELSE CHOOSE i \in good : \A j \in good : j <= i

\* A content, apart from its path and version.
Part(path, o) == IF o[2] \in {"step", "legacy"} /\ path \notin Uneven THEN <<"", "step">> ELSE o

\* The content is what the entry offers for n, or for a name n shares its state with.
Has(e, content, n) ==
  \E m \in Shares(n) : WantedBy(e, m) /\ \E o \in OfferedBy(e, m) :
    \E v \in 1 .. MaxVersion : content = <<e.path, Part(e.path, o), v>>

\* From(content, Best(n), n).
Served(b, content, n) ==
  LET i == Source(b, n) IN IF i = 0 THEN content = Initial ELSE Has(b[i], content, n)

\* The three say what Wants, Offers, Best and From do.
LEMMA OffersOfEntry ==
  ASSUME NEW i, NEW n
  PROVE  (Wants(i, n) <=> WantedBy(bank[i], n)) /\ Offers(i, n) = OfferedBy(bank[i], n)
  <1> DEFINE e == bank[i]
             renamed == {e.oname[j].map[n] : j \in {j \in DOMAIN e.oname : n \in DOMAIN e.oname[j].map}} \cap Holds(e.path)
             own == {n} \cap Holds(e.path)
             alias == IF HasAlias(e.path, n) THEN {Legacy(n)} ELSE {}
  <1>1. Wants(i, n) <=> WantedBy(bank[i], n)
    BY DEF Wants, WantedBy
  <1>2. Offers(i, n) = IF renamed # {} THEN renamed ELSE IF own # {} THEN own ELSE alias
    BY Zenon DEF Offers
  <1>3. renamed = {e.oname[j].map[n] : j \in Rules(e, n)}
    BY DEF Rules
  <1>4. renamed # {} <=> Rules(e, n) # {}
    BY <1>3
  <1>5. own = IF n \in Holds(e.path) THEN {n} ELSE {}
    OBVIOUS
  <1> HIDE DEF renamed, own, alias, e
  <1>6. Offers(i, n) = IF Rules(e, n) # {} THEN {e.oname[j].map[n] : j \in Rules(e, n)}
                       ELSE IF n \in Holds(e.path) THEN {n} ELSE alias
    BY <1>2, <1>3, <1>4, <1>5
  <1>7. Offers(i, n) = OfferedBy(e, n)
    BY <1>6, Zenon DEF OfferedBy, alias
  <1> QED
    BY <1>1, <1>7 DEF e

LEMMA SourceIsBest ==
  ASSUME NEW n
  PROVE  Source(bank, n) = Best(n)
  <1> DEFINE one == {i \in Entries(bank) : \E m \in Shares(n) : WantedBy(bank[i], m) /\ OfferedBy(bank[i], m) # {}}
             two == {i \in Entries(bank) : \E m \in Shares(n) : Wants(i, m) /\ Offers(i, m) # {}}
  <1>1. one = two
    BY OffersOfEntry
  <1>2. Source(bank, n) = IF one = {} THEN 0 ELSE CHOOSE i \in one : \A j \in one : j <= i
    BY Zenon DEF Source
  <1>3. Best(n) = IF two = {} THEN 0 ELSE CHOOSE i \in two : \A j \in two : j <= i
    BY Zenon DEF Best
  <1> HIDE DEF one, two
  <1> QED
    BY <1>1, <1>2, <1>3

LEMMA ServedIsFrom ==
  ASSUME NEW content, NEW n
  PROVE  Served(bank, content, n) <=> From(content, Best(n), n)
  <1> DEFINE i == Best(n)
  <1>1. ASSUME NEW path, NEW o, NEW v PROVE [Content(path, o) EXCEPT ![3] = v] = <<path, Part(path, o), v>>
    <2> DEFINE part == Part(path, o)
               old == version[path]
    <2>1. Content(path, o) = <<path, part, old>>
      BY DEF Content, Part
    <2> HIDE DEF part, old
    <2>2. [<<path, part, old>> EXCEPT ![3] = v] = <<path, part, v>>
      OBVIOUS
    <2> QED
      BY <2>1, <2>2 DEF part
  <1>2. Served(bank, content, n) <=> IF i = 0 THEN content = Initial ELSE Has(bank[i], content, n)
    BY SourceIsBest DEF Served
  <1>3. Has(bank[i], content, n) <=>
          \E m \in Shares(n) : Wants(i, m) /\ \E o \in Offers(i, m) : \E v \in 1 .. MaxVersion :
            content = <<bank[i].path, Part(bank[i].path, o), v>>
    BY OffersOfEntry, Zenon DEF Has
  <1>4. From(content, i, n) <=>
          IF i = 0 THEN content = Initial
          ELSE \E m \in Shares(n) : Wants(i, m) /\ \E o \in Offers(i, m) : \E v \in 1 .. MaxVersion :
                 content = <<bank[i].path, Part(bank[i].path, o), v>>
    <2> DEFINE p == bank[i].path
               old(o, v) == [Content(p, o) EXCEPT ![3] = v]
               new(o, v) == <<p, Part(p, o), v>>
    <2>1. \A o, v : old(o, v) = new(o, v)
      BY <1>1
    <2>2. From(content, i, n) <=>
            IF i = 0 THEN content = Initial
            ELSE \E m \in Shares(n) : Wants(i, m) /\ \E o \in Offers(i, m) : \E v \in 1 .. MaxVersion : content = old(o, v)
      BY Zenon DEF From
    <2> HIDE DEF old, new
    <2>3. From(content, i, n) <=>
            IF i = 0 THEN content = Initial
            ELSE \E m \in Shares(n) : Wants(i, m) /\ \E o \in Offers(i, m) : \E v \in 1 .. MaxVersion : content = new(o, v)
      BY <2>1, <2>2
    <2> QED
      BY <2>3 DEF new
  <1> HIDE DEF i
  <1>5. Served(bank, content, n) <=> From(content, i, n)
    BY <1>2, <1>3, <1>4
  <1> QED
    BY <1>5 DEF i

\* The last offering entry is the source, and there is none if no entry offers.
LEMMA LastOffering ==
  ASSUME IsList(bank), NEW n
  PROVE  /\ Offering(Entries(bank), n) = {} => Source(bank, n) = 0
         /\ \A i \in Offering(Entries(bank), n) : (\A j \in Offering(Entries(bank), n) : j <= i) =>
              Source(bank, n) = i /\ i \in Entries(bank) /\ i # 0
  <1> DEFINE good == {i \in Entries(bank) : \E m \in Shares(n) : Wants(i, m) /\ Offers(i, m) # {}}
  <1>1. good = Offering(Entries(bank), n)
    BY DEF Offering
  <1>2. Source(bank, n) = IF good = {} THEN 0 ELSE CHOOSE i \in good : \A j \in good : j <= i
    BY SourceIsBest DEF Best
  <1>3. good \subseteq Entries(bank) /\ Entries(bank) \subseteq 1 .. Len(bank)
    BY EntriesAreIndices
  <1> HIDE DEF good
  <1>4. ASSUME NEW i \in good, \A j \in good : j <= i
        PROVE  Source(bank, n) = i /\ i \in Entries(bank) /\ i # 0
    <2> DEFINE c == CHOOSE k \in good : \A j \in good : j <= k
    <2>1. c \in good /\ \A j \in good : j <= c
      BY <1>4
    <2>2. Source(bank, n) = c
      BY <1>2
    <2> HIDE DEF c
    <2>3. c \in Nat /\ i \in Nat /\ i # 0
      BY <1>3, <2>1
    <2>4. c = i
      BY <1>4, <2>1, <2>3
    <2> QED
      BY <1>3, <2>2, <2>3, <2>4
  <1> QED
    BY <1>1, <1>2, <1>4

\* Names that share a state have one source.
LEMMA SharedSource ==
  ASSUME NEW b, NEW n \in ModelNames, NEW m \in Shares(n)
  PROVE  Source(b, m) = Source(b, n)
  <1>1. Shares(m) = Shares(n)
    BY SharedNames
  <1> DEFINE one == {i \in Entries(b) : \E k \in Shares(n) : WantedBy(b[i], k) /\ OfferedBy(b[i], k) # {}}
             two == {i \in Entries(b) : \E k \in Shares(m) : WantedBy(b[i], k) /\ OfferedBy(b[i], k) # {}}
  <1>2. one = two
    BY <1>1
  <1>3. Source(b, n) = IF one = {} THEN 0 ELSE CHOOSE i \in one : \A j \in one : j <= i
    BY Zenon DEF Source
  <1>4. Source(b, m) = IF two = {} THEN 0 ELSE CHOOSE i \in two : \A j \in two : j <= i
    BY Zenon DEF Source
  <1> HIDE DEF one, two
  <1> QED
    BY <1>2, <1>3, <1>4

\* The plan that is still to be carried out: every name once, from its source.
Planned(b, loads) ==
  /\ IsList(loads)
  /\ \A k, l \in DOMAIN loads : k # l => DOMAIN loads[k][2] \cap DOMAIN loads[l][2] = {}
  /\ \A k \in DOMAIN loads : \A n \in DOMAIN loads[k][2] :
       /\ loads[k][2][n].clear => n \in SparseNames
       /\ n # Optim => /\ n \in ModelNames /\ Source(b, n) \in Entries(b) /\ Source(b, n) # 0
                       /\ ServedBy(b[Source(b, n)], n, loads[k][1], loads[k][2][n])

Pending(loads, n) == \E k \in DOMAIN loads : n \in DOMAIN loads[k][2]

\* OfferedToSibling(t, s).
ForSibling(b, t, s) ==
  Source(b, <<t, s>>) = 0 /\ \E u \in Tables : Coalesced(u) = Coalesced(t) /\ Source(b, <<u, s>>) # 0

\* What BankPrecedence says of one cell, and of one table.
CellServed(b, t, s, content) == Served(b, content, <<t, s>>) \/ (content = Unset /\ ForSibling(b, t, s))
RowServed(b, t, row) ==
  \A s \in Slots :
    LET i == Source(b, <<t, s>>) IN
    /\ i = 0 \/ IdsOf(b[i].path) \subseteq DOMAIN row
    /\ \A id \in DOMAIN row : i = 0 \/ id \in IdsOf(b[i].path) => CellServed(b, t, s, row[id][s])

\* A table is empty until its path is loaded, all of it at once; a part that comes from another
\* path than the ids makes that load fail.
Empty(b, loads, t, row) == row = <<>> /\ \A s \in Slots : Source(b, <<t, s>>) # 0 => Pending(loads, <<t, s>>)
Doomed(loads, t) == \E k \in DOMAIN loads : \E s \in Slots : <<t, s>> \in DOMAIN loads[k][2] /\ <<t, "id">> \notin DOMAIN loads[k][2]
Settled(b, loads, t, row) == (\A s \in Slots \cup {"id"} : ~Pending(loads, <<t, s>>)) /\ RowServed(b, t, row)

TableKept(b, loads, t, row) == Empty(b, loads, t, row) \/ Doomed(loads, t) \/ Settled(b, loads, t, row)

\* Other state has its content once nothing is to come for it.
NameKept(b, loads, n, content) == (\A m \in Shares(n) : ~Pending(loads, m)) => Served(b, content, n)

\* What is read now from what the entry offers is such a content.
LEMMA ContentServed ==
  ASSUME NEW e, version[e.path] \in 1 .. MaxVersion, NEW n, NEW m \in Shares(n), WantedBy(e, m), NEW o \in OfferedBy(e, m)
  PROVE  Has(e, Content(e.path, o), n)
  <1>1. Content(e.path, o) = <<e.path, Part(e.path, o), version[e.path]>>
    BY DEF Content, Part
  <1> QED
    BY <1>1, Zenon DEF Has

\* A dense name is read, from what its source offers.
LEMMA DenseIsRead ==
  ASSUME NEW e, NEW path, NEW conf, NEW n \in DenseNames \cap DOMAIN conf, ServedBy(e, n, path, conf[n])
  PROVE  n \in DenseRead(path, conf) /\ DenseSource(path, conf, n) \in OfferedBy(e, n)
  <1>1. CASE conf[n].oname
    <2>1. PICK j \in Rules(e, n) : conf[n].source = e.oname[j].map[n]
      BY <1>1 DEF ServedBy
    <2>2. conf[n].source \in Holds(path)
      BY <2>1 DEF ServedBy, Rules
    <2>3. DenseSource(path, conf, n) = conf[n].source
      BY <1>1 DEF DenseSource
    <2>4. conf[n].source \in OfferedBy(e, n)
      BY <2>1 DEF OfferedBy
    <2> QED
      BY <2>2, <2>3, <2>4 DEF DenseRead
  <1>2. CASE ~conf[n].oname
    <2>1. Rules(e, n) = {} /\ n \in Available(path) /\ e.path = path
      BY <1>2 DEF ServedBy
    <2>2. CASE n \in Holds(path)
      BY <1>2, <2>1, <2>2 DEF DenseSource, DenseRead, OfferedBy
    <2>3. CASE n \notin Holds(path)
      <3>1. HasAlias(path, n)
        BY <2>1, <2>3 DEF Available
      <3>2. Legacy(n) \in Holds(path) /\ DenseSource(path, conf, n) = Legacy(n)
        BY <1>2, <2>3, <3>1 DEF HasAlias, DenseSource
      <3> QED
        BY <2>1, <2>3, <3>1, <3>2 DEF DenseRead, OfferedBy
    <2> QED
      BY <2>2, <2>3
  <1> QED
    BY <1>1, <1>2

\* A part of a table is read from what its source offers: a rule renames the whole table.
LEMMA SlotIsRead ==
  ASSUME Tensors = {}, NEW b, \A i \in Entries(b) : EntryMovesTables(b[i]), NEW path, NEW conf,
         \A n \in DOMAIN conf \ {Optim} : n \in ModelNames /\ Source(b, n) \in Entries(b) /\ ServedBy(b[Source(b, n)], n, path, conf[n]),
         ~MappedTwice(conf), NEW t \in Tables, NEW s \in Slots \cup {"id"}, <<t, s>> \in DOMAIN conf
  PROVE  /\ <<SourceTable(conf, t), s>> \in Holds(path)
         /\ <<SourceTable(conf, t), s>> \in OfferedBy(b[Source(b, <<t, s>>)], <<t, s>>)
  <1> DEFINE n == <<t, s>>
             e == b[Source(b, n)]
             renamed == {m \in DOMAIN conf : m[1] = t /\ m \in SparseNames /\ conf[m].oname}
  <1>1. n \in SparseNames /\ n # Optim /\ n \notin StepNames /\ n[1] = t /\ n[2] = s
    BY DenseApart DEF SparseNames, ExtraNames
  <1>2. EntryMovesTables(e) /\ ServedBy(e, n, path, conf[n])
    BY <1>1
  <1>3. SourceTable(conf, t) = IF renamed = {} THEN t ELSE conf[CHOOSE m \in renamed : TRUE].source[1]
    BY Zenon DEF SourceTable
  <1>4. CASE conf[n].oname
    <2>1. n \in renamed
      BY <1>1, <1>4
    <2> DEFINE m == CHOOSE m \in renamed : TRUE
    <2>2. m \in renamed
      BY <2>1
    <2> HIDE DEF m
    <2>3. conf[m].source[1] = conf[n].source[1]
      BY <1>1, <1>4, <2>2 DEF MappedTwice
    <2>4. SourceTable(conf, t) = conf[n].source[1]
      BY <1>3, <2>1, <2>3 DEF m
    <2>5. PICK j \in Rules(e, n) : conf[n].source = e.oname[j].map[n]
      BY <1>2, <1>4 DEF ServedBy
    <2> HIDE DEF e, n, renamed
    <2>6. j \in DOMAIN e.oname /\ n \in DOMAIN e.oname[j].map /\ e.oname[j].map[n] \in Holds(path)
      BY <1>2, <2>5 DEF Rules, ServedBy
    <2>7. e.oname[j].map[n] = <<e.oname[j].map[n][1], n[2]>>
      BY <1>1, <1>2, <2>6 DEF EntryMovesTables
    <2>8. <<SourceTable(conf, t), s>> = e.oname[j].map[n]
      BY <1>1, <2>4, <2>5, <2>7
    <2>9. e.oname[j].map[n] \in OfferedBy(e, n)
      BY <2>5 DEF OfferedBy
    <2> QED
      BY <2>6, <2>8, <2>9 DEF e, n
  <1>5. CASE ~conf[n].oname
    <2>1. Rules(e, n) = {} /\ n \in Available(path) /\ e.path = path
      BY <1>2, <1>5 DEF ServedBy
    <2>2. n \in Holds(path)
      BY <1>1, <2>1 DEF Available
    <2>3. ASSUME NEW m \in renamed PROVE FALSE
      <3>1. m \in DOMAIN conf /\ m[1] = t /\ m \in SparseNames /\ conf[m].oname
        OBVIOUS
      <3>2. m # Optim
        <4>1. m \in Tables \X (Slots \cup {"id"})
          BY <3>1 DEF SparseNames
        <4>2. m = <<m[1], m[2]>> /\ m[1] \in Tables /\ m[2] \in Slots \cup {"id"}
          BY <4>1
        <4> QED
          BY <4>2, DenseApart DEF ExtraNames
      <3> DEFINE d == b[Source(b, m)]
      <3>3. EntryMovesTables(d) /\ ServedBy(d, m, path, conf[m])
        BY <3>1, <3>2
      <3> HIDE DEF d
      <3>4. PICK j \in Rules(d, m) : TRUE
        BY <3>1, <3>3 DEF ServedBy
      <3>5. d.path = path
        BY <3>3 DEF ServedBy
      <3>6. j \in DOMAIN d.oname /\ m \in DOMAIN d.oname[j].map /\ d.oname[j].map[m] \in Holds(d.path)
        BY <3>4 DEF Rules
      <3>7. <<m[1], s>> \notin Holds(d.path)
        BY <3>1, <3>3, <3>6 DEF EntryMovesTables
      <3> QED
        BY <2>2, <3>1, <3>5, <3>7
    <2>4. SourceTable(conf, t) = t
      BY <1>3, <2>3
    <2> HIDE DEF e, n, renamed
    <2>5. n \in OfferedBy(e, n)
      BY <2>1, <2>2 DEF OfferedBy
    <2> QED
      BY <2>2, <2>4, <2>5 DEF e, n
  <1> QED
    BY <1>4, <1>5

\* The first path of a plan and the rest of it.
LEMMA HeadOfPlan ==
  ASSUME NEW b, NEW loads, Planned(b, loads), loads # <<>>
  PROVE  LET path == Head(loads)[1]
             conf == Head(loads)[2]
             rest == Tail(loads)
         IN  /\ Planned(b, rest)
             /\ \A n : Pending(loads, n) <=> n \in DOMAIN conf \/ Pending(rest, n)
             /\ \A n \in DOMAIN conf : ~Pending(rest, n)
             /\ \A n \in DOMAIN conf \ {Optim} : /\ n \in ModelNames /\ Source(b, n) \in Entries(b) /\ Source(b, n) # 0
                                               /\ ServedBy(b[Source(b, n)], n, path, conf[n])
             /\ \A n \in DOMAIN conf : conf[n].clear => n \in SparseNames
             /\ \A t : Doomed(loads, t) => Doomed(rest, t) \/ \E s \in Slots : <<t, s>> \in DOMAIN conf /\ <<t, "id">> \notin DOMAIN conf
  <1> DEFINE path == Head(loads)[1]
             conf == Head(loads)[2]
             rest == Tail(loads)
  <1>1. /\ 1 \in DOMAIN loads /\ Head(loads) = loads[1]
        /\ \A i \in DOMAIN rest : i \in Nat /\ i + 1 # 1 /\ i + 1 \in DOMAIN loads /\ rest[i] = loads[i + 1]
        /\ \A i \in DOMAIN loads : i \in Nat /\ (i # 1 => i - 1 \in DOMAIN rest /\ rest[i - 1] = loads[i])
    BY ListTail DEF Planned
  <1>2. \A n : Pending(loads, n) <=> n \in DOMAIN conf \/ Pending(rest, n)
    <2> TAKE n
    <2>1. ASSUME Pending(loads, n), n \notin DOMAIN conf PROVE Pending(rest, n)
      <3>1. PICK k \in DOMAIN loads : n \in DOMAIN loads[k][2]
        BY <2>1 DEF Pending
      <3>2. k # 1
        BY <1>1, <2>1, <3>1
      <3>3. k - 1 \in DOMAIN rest /\ rest[k - 1] = loads[k]
        BY <1>1, <3>2
      <3> QED
        BY <3>1, <3>3 DEF Pending
    <2>2. n \in DOMAIN conf => Pending(loads, n)
      BY <1>1 DEF Pending
    <2>3. Pending(rest, n) => Pending(loads, n)
      BY <1>1 DEF Pending
    <2> QED
      BY <2>1, <2>2, <2>3
  <1>3. \A n \in DOMAIN conf : ~Pending(rest, n)
    <2> TAKE n \in DOMAIN conf
    <2>1. ASSUME NEW k \in DOMAIN rest, n \in DOMAIN rest[k][2] PROVE FALSE
      <3>1. k + 1 \in DOMAIN loads /\ k + 1 # 1 /\ rest[k] = loads[k + 1]
        BY <1>1
      <3>2. DOMAIN loads[k + 1][2] \cap DOMAIN loads[1][2] = {}
        BY <1>1, <3>1 DEF Planned
      <3> QED
        BY <1>1, <2>1, <3>1, <3>2
    <2> QED
      BY <2>1 DEF Pending
  <1>4. /\ \A n \in DOMAIN conf \ {Optim} : /\ n \in ModelNames /\ Source(b, n) \in Entries(b) /\ Source(b, n) # 0
                                            /\ ServedBy(b[Source(b, n)], n, path, conf[n])
        /\ \A n \in DOMAIN conf : conf[n].clear => n \in SparseNames
    BY <1>1 DEF Planned
  <1>5. Planned(b, rest)
    <2>1. IsList(rest)
      BY ListTail DEF Planned
    <2>2. \A k, l \in DOMAIN rest : k # l => DOMAIN rest[k][2] \cap DOMAIN rest[l][2] = {}
      <3> SUFFICES ASSUME NEW k \in DOMAIN rest, NEW l \in DOMAIN rest, k # l
                   PROVE  DOMAIN rest[k][2] \cap DOMAIN rest[l][2] = {}
        OBVIOUS
      <3>1. k + 1 # l + 1 /\ k + 1 \in DOMAIN loads /\ l + 1 \in DOMAIN loads /\ rest[k] = loads[k + 1] /\ rest[l] = loads[l + 1]
        BY <1>1
      <3> HIDE DEF rest
      <3> QED
        BY <3>1 DEF Planned
    <2>3. ASSUME NEW k \in DOMAIN rest, NEW n \in DOMAIN rest[k][2]
          PROVE  /\ rest[k][2][n].clear => n \in SparseNames
                 /\ n # Optim => /\ n \in ModelNames /\ Source(b, n) \in Entries(b) /\ Source(b, n) # 0
                                 /\ ServedBy(b[Source(b, n)], n, rest[k][1], rest[k][2][n])
      <3>1. k + 1 \in DOMAIN loads /\ rest[k] = loads[k + 1]
        BY <1>1
      <3> HIDE DEF rest
      <3> QED
        BY <3>1 DEF Planned
    <2> HIDE DEF rest
    <2> QED
      BY <2>1, <2>2, <2>3 DEF Planned
  <1>6. ASSUME NEW t, Doomed(loads, t)
        PROVE  Doomed(rest, t) \/ \E s \in Slots : <<t, s>> \in DOMAIN conf /\ <<t, "id">> \notin DOMAIN conf
    <2>1. PICK k \in DOMAIN loads, s \in Slots : <<t, s>> \in DOMAIN loads[k][2] /\ <<t, "id">> \notin DOMAIN loads[k][2]
      BY <1>6 DEF Doomed
    <2>2. CASE k = 1
      BY <1>1, <2>1, <2>2
    <2>3. CASE k # 1
      <3>1. k - 1 \in DOMAIN rest /\ rest[k - 1] = loads[k]
        BY <1>1, <2>3
      <3> QED
        BY <2>1, <3>1 DEF Doomed
    <2> QED
      BY <2>2, <2>3
  <1> HIDE DEF path, conf, rest
  <1>7. /\ Planned(b, rest)
        /\ \A n : Pending(loads, n) <=> n \in DOMAIN conf \/ Pending(rest, n)
        /\ \A n \in DOMAIN conf : ~Pending(rest, n)
        /\ \A n \in DOMAIN conf \ {Optim} : /\ n \in ModelNames /\ Source(b, n) \in Entries(b) /\ Source(b, n) # 0
                                          /\ ServedBy(b[Source(b, n)], n, path, conf[n])
        /\ \A n \in DOMAIN conf : conf[n].clear => n \in SparseNames
        /\ \A t : Doomed(loads, t) => Doomed(rest, t) \/ \E s \in Slots : <<t, s>> \in DOMAIN conf /\ <<t, "id">> \notin DOMAIN conf
    BY <1>2, <1>3, <1>4, <1>5, <1>6
  <1> QED
    BY <1>7 DEF path, conf, rest

\* Where the sources are configured as RulesMoveTables says and the versions exist.
Setting ==
  /\ IsList(bank) /\ \A i \in Entries(bank) : EntryMovesTables(bank[i])
  /\ \A i \in DOMAIN bank : bank[i].path \in DOMAIN version
  /\ \A p \in DOMAIN version : version[p] \in 1 .. MaxVersion

\* One path is loaded: what it has for a table,
LEMMA LoadKeepsTable ==
  ASSUME Tensors = {}, NamesApart, Setting, Planned(bank, todo), todo # <<>>, NEW t \in Tables,
         TableKept(bank, todo, t, rows[t]), RowsInSlots,
         ~LoadFails(Head(todo)[1], Head(todo)[2]), NEW junk \in {Initial, Unset},
         rows' = LoadedRows(Head(todo)[1], Head(todo)[2], junk)
  PROVE  TableKept(bank, Tail(todo), t, rows'[t])
  <1> DEFINE path == Head(todo)[1]
             conf == Head(todo)[2]
             rest == Tail(todo)
             src(s) == Source(bank, <<t, s>>)
             o(s) == <<SourceTable(conf, t), s>>
             P == Slots \cup {"id"}
             old == IF t \in Cleared(conf) THEN <<>> ELSE rows[t]
             read == SlotsRead(path, conf, t)
             ids == IF read = {} THEN {} ELSE IdsOf(path)
             left == NotGenerated(path, conf, t)
  <1>1. /\ \A n : Pending(todo, n) <=> n \in DOMAIN conf \/ Pending(rest, n)
        /\ \A n \in DOMAIN conf : ~Pending(rest, n)
        /\ \A n \in DOMAIN conf \ {Optim} : /\ n \in ModelNames /\ Source(bank, n) \in Entries(bank) /\ Source(bank, n) # 0
                                          /\ ServedBy(bank[Source(bank, n)], n, path, conf[n])
        /\ \A n \in DOMAIN conf : conf[n].clear => n \in SparseNames
        /\ Doomed(todo, t) => Doomed(rest, t) \/ \E s \in Slots : <<t, s>> \in DOMAIN conf /\ <<t, "id">> \notin DOMAIN conf
    BY HeadOfPlan
  <1>5. ~MappedTwice(conf) /\ ~InvalidTable(path, conf)
    BY DEF LoadFails
  <1>6. rows'[t] = [id \in DOMAIN old \cup ids |->
                      [s \in Slots |-> IF id \in ids /\ s \in read THEN Content(path, o(s))
                                       ELSE IF id \in DOMAIN old THEN old[id][s]
                                       ELSE IF s \in left THEN junk ELSE Initial]]
    BY DEF LoadedRows
  <1>7. read = {s \in P : <<t, s>> \in DOMAIN conf /\ o(s) \in Holds(path)}
    BY Zenon DEF SlotsRead
  <1>8. ASSUME NEW s \in P, <<t, s>> \in DOMAIN conf
        PROVE  o(s) \in Holds(path) /\ o(s) \in OfferedBy(bank[src(s)], <<t, s>>) /\ <<t, s>> # Optim
    <2>1. <<t, s>> # Optim
      BY DenseApart DEF ExtraNames
    <2>2. \A n \in DOMAIN conf \ {Optim} : n \in ModelNames /\ Source(bank, n) \in Entries(bank) /\ ServedBy(bank[Source(bank, n)], n, path, conf[n])
      BY <1>1
    <2> HIDE DEF path, conf
    <2> QED
      BY <1>5, <1>8, <2>1, <2>2, SlotIsRead DEF Setting
  <1>12. \A s \in left : \E u \in Tables : Coalesced(u) = Coalesced(t) /\ Source(bank, <<u, s>>) # 0
    <2> SUFFICES ASSUME NEW s \in left PROVE \E u \in Tables : Coalesced(u) = Coalesced(t) /\ Source(bank, <<u, s>>) # 0
      OBVIOUS
    <2>1. PICK u \in Tables : Coalesced(u) = Coalesced(t) /\ s \in SlotsRead(path, conf, u)
      BY Zenon DEF NotGenerated
    <2>2. <<u, s>> \in DOMAIN conf /\ s \in Slots \cup {"id"}
      BY <2>1, Zenon DEF SlotsRead
    <2>3. <<u, s>> # Optim
      BY <2>2, DenseApart DEF ExtraNames
    <2> HIDE DEF path, conf, left
    <2>4. Source(bank, <<u, s>>) # 0
      BY <1>1, <2>2, <2>3
    <2> QED
      BY <2>1, <2>4
  <1> HIDE DEF path, conf, rest, src, o, old, read, ids, left
  <1>9. \A s \in P : s \in read <=> <<t, s>> \in DOMAIN conf
    BY <1>7, <1>8
  <1>10. CASE \A s \in P : <<t, s>> \notin DOMAIN conf
    <2>1. t \notin Cleared(conf)
      <3>1. ASSUME NEW n \in DOMAIN conf, conf[n].clear, StartsWith(n[1], t) PROVE FALSE
        <4>1. n \in {t} \X P
          BY <1>1, <3>1 DEF NamesApart
        <4>2. PICK s \in P : n = <<t, s>>
          BY <4>1
        <4> QED
          BY <1>10, <4>2
      <3> QED
        BY <3>1 DEF Cleared
    <2>2. read = {} /\ ids = {} /\ old = rows[t]
      <3>1. read = {}
        BY <1>7, <1>10
      <3> QED
        BY <2>1, <3>1 DEF ids, old
    <2>3. rows'[t] = [id \in DOMAIN rows[t] |-> [s \in Slots |-> rows[t][id][s]]]
      <3> DEFINE new == rows'[t]
      <3>1. new = [id \in DOMAIN rows[t] \cup {} |->
                      [s \in Slots |-> IF id \in {} /\ s \in {} THEN Content(path, o(s))
                                       ELSE IF id \in DOMAIN rows[t] THEN rows[t][id][s]
                                       ELSE IF s \in left THEN junk ELSE Initial]]
        BY <1>6, <2>2
      <3> QED
        BY <3>1
    <2>4. rows'[t] = rows[t]
      BY <2>3 DEF RowsInSlots
    <2>5. \A s \in P : Pending(rest, <<t, s>>) <=> Pending(todo, <<t, s>>)
      BY <1>1, <1>10
    <2>6. Doomed(todo, t) => Doomed(rest, t)
      BY <1>1, <1>10
    <2> QED
      BY <2>4, <2>5, <2>6 DEF TableKept, Empty, Settled, rest
  <1>11. CASE \E s \in P : <<t, s>> \in DOMAIN conf
    <2>1. "id" \in read /\ read # {"id"}
      BY <1>5, <1>9, <1>11 DEF InvalidTable, read
    <2>2. <<t, "id">> \in DOMAIN conf
      BY <1>9, <2>1
    <2>3. ids = IdsOf(path)
      BY <2>1 DEF ids
    <2>4. CASE Empty(bank, todo, t, rows[t])
      <3>1. CASE \E s \in Slots : Pending(rest, <<t, s>>)
        <4>1. PICK s \in Slots, k \in DOMAIN rest : <<t, s>> \in DOMAIN rest[k][2]
          BY <3>1 DEF Pending
        <4>2. <<t, "id">> \notin DOMAIN rest[k][2]
          BY <1>1, <2>2 DEF Pending
        <4> QED
          BY <4>1, <4>2 DEF TableKept, Doomed, rest
      <3>2. CASE \A s \in Slots : ~Pending(rest, <<t, s>>)
        <4> DEFINE new == rows'[t]
                   cell(s) == IF s \in read THEN Content(path, o(s)) ELSE IF s \in left THEN junk ELSE Initial
        <4>1. \A s \in P : ~Pending(rest, <<t, s>>)
          BY <1>1, <2>2, <3>2
        <4>2. DOMAIN old = {} /\ old = <<>>
          BY <2>4 DEF Empty, old
        <4>3. DOMAIN new = IdsOf(path) /\ \A id \in DOMAIN new, s \in Slots : new[id][s] = cell(s)
          <5>1. DOMAIN new = IdsOf(path)
            BY <1>6, <2>3, <4>2
          <5> SUFFICES ASSUME NEW id \in IdsOf(path), NEW s \in Slots PROVE new[id][s] = cell(s)
            BY <5>1
          <5>2. new[id] = [x \in Slots |-> IF id \in ids /\ x \in read THEN Content(path, o(x))
                                           ELSE IF id \in DOMAIN old THEN old[id][x]
                                           ELSE IF x \in left THEN junk ELSE Initial]
            BY <1>6, <2>3, <4>2
          <5> QED
            BY <2>3, <4>2, <5>2
        <4> HIDE DEF new, cell
        <4>4. ASSUME NEW s \in Slots, src(s) = 0
              PROVE  cell(s) = Initial \/ (cell(s) = Unset /\ ForSibling(bank, t, s))
          <5>1. <<t, s>> \notin DOMAIN conf
            BY <1>1, <1>8, <4>4 DEF src
          <5>2. cell(s) = Initial \/ (cell(s) = Unset /\ s \in left)
            BY <1>9, <5>1 DEF cell
          <5>3. s \in left => ForSibling(bank, t, s)
            BY <1>12, <4>4 DEF ForSibling, src
          <5> QED
            BY <5>2, <5>3
        <4>5. ASSUME NEW s \in Slots, src(s) # 0
              PROVE  bank[src(s)].path = path /\ Has(bank[src(s)], cell(s), <<t, s>>)
          <5> DEFINE n == <<t, s>>
                     e == bank[src(s)]
          <5>1. n \in DOMAIN conf
            <6>1. Pending(todo, n)
              BY <2>4, <4>5 DEF Empty, src
            <6> QED
              BY <1>1, <4>1, <6>1
          <5>2. s \in read /\ cell(s) = Content(path, o(s))
            BY <1>9, <5>1 DEF cell
          <5>3. ServedBy(e, n, path, conf[n]) /\ src(s) \in Entries(bank) /\ o(s) \in OfferedBy(e, n)
            BY <1>1, <1>8, <5>1 DEF src
          <5>4. e.path = path /\ WantedBy(e, n)
            BY <5>3 DEF ServedBy
          <5>5. version[e.path] \in 1 .. MaxVersion
            BY <5>3 DEF Setting, Entries
          <5>6. n \in Shares(n)
            BY <1>1, <1>8, <5>1, SharedNames
          <5> HIDE DEF e, n
          <5>7. Has(e, Content(e.path, o(s)), n)
            BY <5>3, <5>4, <5>5, <5>6, ContentServed
          <5> QED
            BY <5>2, <5>4, <5>7 DEF e, n
        <4>6. RowServed(bank, t, new)
          <5> SUFFICES ASSUME NEW s \in Slots
                       PROVE  /\ src(s) = 0 \/ IdsOf(bank[src(s)].path) \subseteq DOMAIN new
                              /\ \A id \in DOMAIN new : CellServed(bank, t, s, new[id][s])
            BY Zenon DEF RowServed, src
          <5>1. src(s) = 0 \/ IdsOf(bank[src(s)].path) \subseteq DOMAIN new
            BY <4>3, <4>5
          <5>2. ASSUME NEW id \in DOMAIN new PROVE CellServed(bank, t, s, new[id][s])
            <6>1. new[id][s] = cell(s)
              BY <4>3
            <6> QED
              BY <4>4, <4>5, <6>1 DEF CellServed, Served, src
          <5> QED
            BY <5>1, <5>2
        <4> QED
          BY <4>1, <4>6 DEF TableKept, Settled, new, rest
      <3> QED
        BY <3>1, <3>2
    <2>5. CASE Doomed(todo, t)
      BY <1>1, <2>2, <2>5 DEF TableKept, rest
    <2>6. CASE Settled(bank, todo, t, rows[t])
      BY <1>1, <1>11, <2>6 DEF Settled
    <2> QED
      BY <2>4, <2>5, <2>6 DEF TableKept
  <1> QED
    BY <1>10, <1>11

\* ... for a dense name,
LEMMA LoadKeepsDense ==
  ASSUME Setting, Planned(bank, todo), todo # <<>>, NEW n \in DenseNames, NameKept(bank, todo, n, dense[n]),
         dense' = LoadedDense(Head(todo)[1], Head(todo)[2])
  PROVE  NameKept(bank, Tail(todo), n, dense'[n])
  <1> DEFINE path == Head(todo)[1]
             conf == Head(todo)[2]
             rest == Tail(todo)
             i == Source(bank, n)
             read == Shares(n) \cap DenseRead(path, conf)
  <1>1. /\ \A m : Pending(todo, m) <=> m \in DOMAIN conf \/ Pending(rest, m)
        /\ \A m \in DOMAIN conf \ {Optim} : /\ Source(bank, m) \in Entries(bank) /\ Source(bank, m) # 0
                                          /\ ServedBy(bank[Source(bank, m)], m, path, conf[m])
    BY HeadOfPlan
  <1>2. dense'[n] = IF read = {} THEN dense[n] ELSE Content(path, DenseSource(path, conf, CHOOSE m \in read : TRUE))
    BY Zenon DEF LoadedDense
  <1>3. n \in ModelNames /\ Shares(n) \subseteq DenseNames /\ \A m \in Shares(n) : m # Optim /\ Source(bank, m) = i
    BY SharedNames, SharedSource, DenseApart
  <1> HIDE DEF path, conf, rest, i, read
  <1>4. SUFFICES ASSUME \A m \in Shares(n) : ~Pending(rest, m) PROVE Served(bank, dense'[n], n)
    BY DEF NameKept, rest
  <1>5. CASE Shares(n) \cap DOMAIN conf = {}
    <2>1. read = {}
      BY <1>5 DEF read, DenseRead
    <2>2. \A m \in Shares(n) : ~Pending(todo, m)
      BY <1>1, <1>4, <1>5
    <2> QED
      BY <1>2, <2>1, <2>2 DEF NameKept
  <1>6. CASE Shares(n) \cap DOMAIN conf # {}
    <2>1. \A m \in Shares(n) \cap DOMAIN conf : m \in read /\ DenseSource(path, conf, m) \in OfferedBy(bank[i], m)
                                                /\ WantedBy(bank[i], m) /\ bank[i].path = path
      <3> TAKE m \in Shares(n) \cap DOMAIN conf
      <3>1. ServedBy(bank[i], m, path, conf[m]) /\ m \in DenseNames
        BY <1>1, <1>3
      <3>2. WantedBy(bank[i], m) /\ bank[i].path = path
        BY <3>1 DEF ServedBy
      <3> QED
        BY <3>1, <3>2, DenseIsRead DEF read
    <2> DEFINE m == CHOOSE x \in read : TRUE
    <2>2. m \in read
      BY <1>6, <2>1
    <2>3. read # {} /\ dense'[n] = Content(path, DenseSource(path, conf, m))
      BY <1>2, <2>2
    <2> HIDE DEF m
    <2>4. m \in Shares(n) \cap DOMAIN conf
      BY <2>2 DEF read, DenseRead
    <2>5. i \in Entries(bank) /\ i # 0
      BY <1>1, <1>3, <2>4
    <2> DEFINE e == bank[i]
               o == DenseSource(path, conf, m)
    <2>6. e.path = path /\ WantedBy(e, m) /\ o \in OfferedBy(e, m) /\ version[e.path] \in 1 .. MaxVersion
      BY <2>1, <2>4, <2>5 DEF Setting, Entries
    <2> HIDE DEF e, o
    <2>7. Has(e, Content(e.path, o), n)
      BY <2>4, <2>6, ContentServed
    <2>8. Has(bank[i], dense'[n], n)
      BY <2>3, <2>6, <2>7 DEF e, o
    <2> QED
      BY <2>5, <2>8 DEF Served, i
  <1> QED
    BY <1>5, <1>6

\* ... and for the rest.
LEMMA LoadKeepsExtra ==
  ASSUME Tensors = {}, Setting, Planned(bank, todo), todo # <<>>, NEW n \in ExtraNames \ {Optim},
         NameKept(bank, todo, n, extra[n]),
         LET path == Head(todo)[1]
             conf == Head(todo)[2]
         IN  extra'[n] = IF n \in (DOMAIN conf \cap Holds(path) \cap ExtraNames) \cup LoadedTensors(path, conf)
                         THEN Content(path, n) ELSE extra[n]
  PROVE  NameKept(bank, Tail(todo), n, extra'[n])
  <1> DEFINE path == Head(todo)[1]
             conf == Head(todo)[2]
             rest == Tail(todo)
             i == Source(bank, n)
             e == bank[i]
  <1>1. /\ \A m : Pending(todo, m) <=> m \in DOMAIN conf \/ Pending(rest, m)
        /\ n \in DOMAIN conf => i \in Entries(bank) /\ i # 0 /\ ServedBy(e, n, path, conf[n])
    BY HeadOfPlan
  <1>2. LoadedTensors(path, conf) = {}
    BY DEF LoadedTensors
  <1>3. extra'[n] = IF n \in DOMAIN conf \cap Holds(path) THEN Content(path, n) ELSE extra[n]
    BY <1>2
  <1>4. n \in ModelNames /\ n \notin StepNames /\ Shares(n) = {n}
    BY DenseApart DEF ModelNames, Shares
  <1> HIDE DEF path, conf, rest, i, e
  <1>5. SUFFICES ASSUME ~Pending(rest, n) PROVE Served(bank, extra'[n], n)
    BY <1>4 DEF NameKept, rest
  <1>6. CASE n \notin DOMAIN conf
    <2>1. ~Pending(todo, n) /\ extra'[n] = extra[n]
      BY <1>1, <1>3, <1>5, <1>6
    <2> QED
      BY <1>4, <2>1 DEF NameKept
  <1>7. CASE n \in DOMAIN conf
    <2>1. i \in Entries(bank) /\ i # 0 /\ ServedBy(e, n, path, conf[n])
      BY <1>1, <1>7
    <2>2. EntryMovesTables(e) /\ version[e.path] \in 1 .. MaxVersion
      BY <2>1 DEF Setting, Entries, e
    <2>3. Rules(e, n) = {}
      BY <2>2 DEF Rules, EntryMovesTables
    <2>4. e.path = path /\ WantedBy(e, n) /\ n \in Available(path)
      BY <2>1, <2>3 DEF ServedBy
    <2>5. n \in Holds(path)
      BY <1>4, <2>4 DEF Available
    <2>6. n \in OfferedBy(e, n)
      BY <2>3, <2>4, <2>5 DEF OfferedBy
    <2>7. Has(e, Content(e.path, n), n)
      BY <1>4, <2>2, <2>4, <2>6, ContentServed
    <2>8. extra'[n] = Content(e.path, n)
      BY <1>3, <1>7, <2>4, <2>5
    <2> QED
      BY <2>1, <2>7, <2>8 DEF Served, i, e
  <1> QED
    BY <1>6, <1>7

\* Between the parser and the end of restore(), tables are kept and so are other names.
PrecedenceInv ==
  /\ Setting /\ DOMAIN extra = ExtraNames \ {Optim}
  /\ phase = "parse" => /\ \A t \in Tables : rows[t] = <<>>
                        /\ \A n \in DenseNames : dense[n] = Initial
                        /\ \A n \in DOMAIN extra : extra[n] = Initial
  /\ phase = "ready" => todo = <<>>
  /\ phase \in {"load", "ready"} =>
       /\ Planned(bank, todo)
       /\ \A t \in Tables : TableKept(bank, todo, t, rows[t])
       /\ \A n \in DenseNames : NameKept(bank, todo, n, dense[n])
       /\ \A n \in DOMAIN extra : NameKept(bank, todo, n, extra[n])

LEMMA VersionsExist == MaxVersion \in Nat /\ 1 <= MaxVersion
  <1>1. MaxVersion \in Nat \ {0}
    BY Zenon, BankAssumption
  <1> QED
    BY <1>1

LEMMA PrecedenceInvInit ==
  ASSUME Tensors = {}, RulesMoveTables, BankInit
  PROVE  PrecedenceInv
  <1>1. PICK conf \in Banks : /\ version = [p \in PathsOf(conf) |-> 1]
                              /\ \A i \in DOMAIN bank : bank[i] = OutputEntry \/ \E j \in DOMAIN conf : bank[i] = conf[j]
    BY BankConfigured
  <1>2. \A j \in DOMAIN conf : conf[j].oname \in Seq(Range(conf[j].oname))
    BY BankAssumption
  <1>3. \A j \in DOMAIN conf : EntryMovesTables(conf[j])
    BY <1>2 DEF EntryMovesTables, RulesMoveTables
  <1>4. EntryMovesTables(OutputEntry) /\ OutputEntry.path = OutputDir
    <2>1. OutputEntry.oname = <<>> /\ OutputEntry.path = OutputDir
      BY DEF OutputEntry
    <2>2. <<>> \in Seq(Range(<<>>)) /\ DOMAIN <<>> = {}
      OBVIOUS
    <2> QED
      BY <2>1, <2>2 DEF EntryMovesTables
  <1> HIDE DEF OutputEntry
  <1>5. \A i \in Entries(bank) : EntryMovesTables(bank[i])
    BY <1>1, <1>3, <1>4 DEF Entries
  <1>6. \A i \in DOMAIN bank : bank[i].path \in DOMAIN version
    BY <1>1, <1>4 DEF PathsOf
  <1>7. \A p \in DOMAIN version : version[p] \in 1 .. MaxVersion
    <2>1. 1 \in 1 .. MaxVersion
      BY VersionsExist
    <2>2. \A p \in DOMAIN version : version[p] = 1
      BY <1>1
    <2> QED
      BY <2>1, <2>2
  <1>8. Setting
    BY <1>5, <1>6, <1>7, BankConfigured DEF Setting
  <1>9. phase = "parse" /\ rows = [t \in Tables |-> <<>>] /\ dense = [n \in DenseNames |-> Initial]
        /\ extra = [n \in ExtraNames \ {Optim} |-> Initial]
    <2>1. {<<x, "">> : x \in Tensors} = {}
      OBVIOUS
    <2> QED
      BY <2>1 DEF BankInit
  <1> QED
    BY <1>8, <1>9 DEF PrecedenceInv

\* The plan the parser makes has all there is to load.
LEMMA PlanIsComplete ==
  ASSUME Setting, NEW loads, loads = Resolve(bank, Entries(bank)).loads
  PROVE  /\ Planned(bank, loads)
         /\ \A n \in ModelNames \ {Optim} : (\A m \in Shares(n) : ~Pending(loads, m)) => Source(bank, n) = 0
  <1> DEFINE st == Resolve(bank, Entries(bank))
             O(n) == Offering(Entries(bank), n)
  <1>1. IsList(bank)
    BY DEF Setting
  <1>2. Shaped(st) /\ Asked(Entries(bank), st.loads) /\ Tracked(Entries(bank), 1, st)
    BY <1>1, ResolveParses, EntriesAreIndices DEF Setting, Parsed
  <1> HIDE DEF st
  <1>3. Planned(bank, st.loads)
    <2>1. IsList(st.loads) /\ \A k, l \in DOMAIN st.loads : k # l => DOMAIN st.loads[k][2] \cap DOMAIN st.loads[l][2] = {}
      BY <1>2 DEF Shaped
    <2>2. ASSUME NEW k \in DOMAIN st.loads, NEW n \in DOMAIN st.loads[k][2]
          PROVE  /\ st.loads[k][2][n].clear => n \in SparseNames
                 /\ n # Optim => /\ n \in ModelNames /\ Source(bank, n) \in Entries(bank) /\ Source(bank, n) # 0
                                 /\ ServedBy(bank[Source(bank, n)], n, st.loads[k][1], st.loads[k][2][n])
      <3>1. (st.loads[k][2][n].clear => n \in SparseNames) /\ (n # Optim => n \in ModelNames)
        BY <1>2 DEF Asked
      <3>2. CASE n # Optim
        <4>1. PICK i \in O(n) : (\A j \in O(n) : j <= i) /\ ServedBy(bank[i], n, st.loads[k][1], st.loads[k][2][n])
          BY <1>2, <3>2 DEF Tracked
        <4>2. Source(bank, n) = i /\ i \in Entries(bank) /\ i # 0
          BY <1>1, <4>1, LastOffering
        <4> QED
          BY <3>1, <4>1, <4>2
      <3> QED
        BY <3>1, <3>2
    <2> QED
      BY <2>1, <2>2 DEF Planned
  <1>4. ASSUME NEW n \in ModelNames \ {Optim}, \A m \in Shares(n) : ~Pending(st.loads, m)
        PROVE  Source(bank, n) = 0
    <2>1. n \in st.left
      BY <1>2, <1>4 DEF Tracked, Pending
    <2>2. \A i \in O(n) : i < 1
      BY <1>2, <2>1 DEF Tracked
    <2>3. \A i \in O(n) : i \in 1 .. Len(bank) /\ Len(bank) \in Nat
      BY <1>1, EntriesAreIndices DEF Offering
    <2>4. O(n) = {}
      BY <2>2, <2>3
    <2> QED
      BY <1>1, <2>4, LastOffering
  <1> QED
    BY <1>3, <1>4 DEF st

LEMMA PrecedenceInvNext ==
  ASSUME Tensors = {}, NamesApart, BankInv, PrecedenceInv, [BankNext]_bankVars
  PROVE  PrecedenceInv'
  <1>1. bank' = bank
    BY DEF BankNext, bankVars, Parse, LoadPath, Restored, TrainAll, UpdateLoad, PublishVersion
  <1>2. /\ Setting /\ DOMAIN extra = ExtraNames \ {Optim}
        /\ RowsInSlots
    BY DEF PrecedenceInv, BankInv
  <1>3. Setting'
    <2>1. CASE version' = version
      BY <1>1, <1>2, <2>1 DEF Setting
    <2>2. CASE \E p \in DOMAIN version : PublishVersion(p)
      <3>1. PICK p \in DOMAIN version : version[p] < MaxVersion /\ version' = [version EXCEPT ![p] = @ + 1]
        BY <2>2 DEF PublishVersion
      <3>2. DOMAIN version' = DOMAIN version /\ \A q \in DOMAIN version : version'[q] = IF q = p THEN version[p] + 1 ELSE version[q]
        BY <3>1
      <3>3. \A q \in DOMAIN version : version[q] \in 1 .. MaxVersion
        BY <1>2 DEF Setting
      <3>4. version[p] + 1 \in 1 .. MaxVersion
        BY <3>1, <3>3, VersionsExist
      <3>5. \A q \in DOMAIN version' : version'[q] \in 1 .. MaxVersion
        BY <3>2, <3>3, <3>4
      <3> QED
        BY <1>1, <1>2, <3>2, <3>5 DEF Setting
    <2> QED
      BY <2>1, <2>2 DEF BankNext, bankVars, Parse, LoadPath, Restored, TrainAll, UpdateLoad
  <1>4. CASE Parse
    <2>1. /\ phase = "parse" /\ phase' \in {"load", "failed"} /\ UNCHANGED <<rows, dense, extra>>
          /\ todo' = Resolve(bank, Entries(bank)).loads
      BY <1>4 DEF Parse
    <2> DEFINE loads == Resolve(bank, Entries(bank)).loads
    <2>2. /\ Planned(bank, loads)
          /\ \A n \in ModelNames \ {Optim} : (\A m \in Shares(n) : ~Pending(loads, m)) => Source(bank, n) = 0
      BY <1>2, PlanIsComplete
    <2> HIDE DEF loads
    <2>3. /\ \A t \in Tables : rows[t] = <<>>
          /\ \A n \in DenseNames : dense[n] = Initial
          /\ \A n \in DOMAIN extra : extra[n] = Initial
      BY <2>1 DEF PrecedenceInv
    <2>4. ASSUME NEW t \in Tables PROVE TableKept(bank, loads, t, rows[t])
      <3>1. \A s \in Slots : Source(bank, <<t, s>>) # 0 => Pending(loads, <<t, s>>)
        <4> TAKE s \in Slots
        <4>1. <<t, s>> \in SparseNames /\ <<t, s>> # Optim
          BY DenseApart DEF SparseNames, ExtraNames
        <4>2. <<t, s>> \in ModelNames /\ Shares(<<t, s>>) = {<<t, s>>}
          BY <4>1, SharedNames
        <4> QED
          BY <2>2, <4>1, <4>2
      <3> QED
        BY <2>3, <3>1 DEF TableKept, Empty
    <2>5. ASSUME NEW n \in ModelNames \ {Optim} PROVE NameKept(bank, loads, n, Initial)
      BY <2>2 DEF NameKept, Served
    <2>6. \A n \in DenseNames : NameKept(bank, loads, n, dense[n])
      BY <2>3, <2>5, SharedNames, DenseApart
    <2>7. \A n \in DOMAIN extra : NameKept(bank, loads, n, extra[n])
      <3>1. ExtraNames \subseteq ModelNames
        BY DEF ModelNames
      <3> QED
        BY <1>2, <2>3, <2>5, <3>1
    <2> QED
      BY <1>1, <1>2, <1>3, <2>1, <2>2, <2>4, <2>6, <2>7 DEF PrecedenceInv, loads
  <1>5. CASE LoadPath
    <2>1. CASE phase' = "load"
      <3> DEFINE path == Head(todo)[1]
                 conf == Head(todo)[2]
      <3>1. /\ phase = "load" /\ todo # <<>> /\ ~LoadFails(path, conf) /\ todo' = Tail(todo)
            /\ dense' = LoadedDense(path, conf)
            /\ \E junk \in {Initial, Unset} : rows' = LoadedRows(path, conf, junk)
            /\ extra' = [n \in DOMAIN extra |->
                           IF n \in (DOMAIN conf \cap Holds(path) \cap ExtraNames) \cup LoadedTensors(path, conf)
                             THEN Content(path, n) ELSE extra[n]]
        BY <1>5, <2>1 DEF LoadPath
      <3>2. /\ Planned(bank, todo)
            /\ \A t \in Tables : TableKept(bank, todo, t, rows[t])
            /\ \A n \in DenseNames : NameKept(bank, todo, n, dense[n])
            /\ \A n \in DOMAIN extra : NameKept(bank, todo, n, extra[n])
        BY <3>1 DEF PrecedenceInv
      <3>3. Planned(bank, Tail(todo))
        BY <3>1, <3>2, HeadOfPlan
      <3>4. \A t \in Tables : TableKept(bank, Tail(todo), t, rows'[t])
        <4>1. PICK junk \in {Initial, Unset} : rows' = LoadedRows(path, conf, junk)
          BY <3>1
        <4> QED
          BY <1>2, <3>1, <3>2, <4>1, LoadKeepsTable
      <3>5. \A n \in DenseNames : NameKept(bank, Tail(todo), n, dense'[n])
        BY <1>2, <3>1, <3>2, LoadKeepsDense
      <3>6. DOMAIN extra' = ExtraNames \ {Optim}
        BY <1>2, <3>1
      <3>7. \A n \in DOMAIN extra' : NameKept(bank, Tail(todo), n, extra'[n])
        <4> SUFFICES ASSUME NEW n \in ExtraNames \ {Optim} PROVE NameKept(bank, Tail(todo), n, extra'[n])
          BY <3>6
        <4>1. extra'[n] = IF n \in (DOMAIN conf \cap Holds(path) \cap ExtraNames) \cup LoadedTensors(path, conf)
                          THEN Content(path, n) ELSE extra[n]
          BY <1>2, <3>1
        <4> QED
          BY <1>2, <3>1, <3>2, <4>1, LoadKeepsExtra
      <3> QED
        BY <1>1, <1>3, <2>1, <3>1, <3>3, <3>4, <3>5, <3>6, <3>7 DEF PrecedenceInv
    <2>2. CASE phase' # "load"
      <3>1. phase' \in {"update", "failed"} /\ DOMAIN extra' = DOMAIN extra
        BY <1>5, <2>2 DEF LoadPath
      <3> QED
        BY <1>2, <1>3, <3>1 DEF PrecedenceInv
    <2> QED
      BY <2>1, <2>2
  <1>6. CASE Restored
    <2>1. UNCHANGED <<todo, rows, dense, extra>> /\ todo = <<>>
          /\ ((phase = "load" /\ phase' = "ready") \/ phase' = "train")
      BY <1>6 DEF Restored
    <2> QED
      BY <1>1, <1>2, <1>3, <2>1 DEF PrecedenceInv
  <1>7. CASE TrainAll \/ UpdateLoad
    <2>1. phase' \in {"train", "update"} /\ DOMAIN extra' = DOMAIN extra
      BY <1>7 DEF TrainAll, UpdateLoad
    <2> QED
      BY <1>2, <1>3, <2>1 DEF PrecedenceInv
  <1>8. CASE UNCHANGED <<phase, todo, rows, dense, extra>>
    BY <1>1, <1>2, <1>3, <1>8 DEF PrecedenceInv
  <1> QED
    BY <1>4, <1>5, <1>6, <1>7, <1>8 DEF BankNext, bankVars, PublishVersion

\* With nothing to come, every name has what its source offers.
LEMMA ServedWhenReady ==
  ASSUME PrecedenceInv
  PROVE  BankPrecedence
  <1> SUFFICES ASSUME phase = "ready" PROVE BankPrecedence
    BY DEF BankPrecedence
  <1>1. /\ \A t \in Tables : TableKept(bank, <<>>, t, rows[t])
        /\ \A n \in DenseNames : NameKept(bank, <<>>, n, dense[n])
        /\ \A n \in DOMAIN extra : NameKept(bank, <<>>, n, extra[n])
    BY DEF PrecedenceInv
  <1>2. \A n : ~Pending(<<>>, n)
    BY EmptyList DEF Pending
  <1>3. ASSUME NEW t \in Tables, NEW s \in Slots
        PROVE  LET i == Best(<<t, s>>) IN
               /\ i = 0 \/ <<t, "id">> \notin ModelNames \/ IdsOf(bank[i].path) \subseteq DOMAIN rows[t]
               /\ \A id \in DOMAIN rows[t] : i = 0 \/ id \in IdsOf(bank[i].path) =>
                    From(rows[t][id][s], i, <<t, s>>) \/ (rows[t][id][s] = Unset /\ OfferedToSibling(t, s))
    <2> DEFINE i == Best(<<t, s>>)
               row == rows[t]
    <2>1. Source(bank, <<t, s>>) = i
      BY SourceIsBest
    <2>2. TableKept(bank, <<>>, t, row)
      BY <1>1
    <2> HIDE DEF i, row
    <2>3. ~Doomed(<<>>, t)
      BY EmptyList DEF Doomed
    <2>4. CASE Empty(bank, <<>>, t, row)
      <3>1. DOMAIN row = {} /\ i = 0
        BY <1>2, <2>1, <2>4, EmptyList DEF Empty
      <3> QED
        BY <3>1 DEF i, row
    <2>5. CASE Settled(bank, <<>>, t, row)
      <3>1. RowServed(bank, t, row)
        BY <2>5 DEF Settled
      <3>2. /\ i = 0 \/ IdsOf(bank[i].path) \subseteq DOMAIN row
            /\ \A id \in DOMAIN row : i = 0 \/ id \in IdsOf(bank[i].path) => CellServed(bank, t, s, row[id][s])
        BY <2>1, <3>1, Zenon DEF RowServed
      <3>4. ForSibling(bank, t, s) => OfferedToSibling(t, s)
        BY SourceIsBest DEF ForSibling, OfferedToSibling
      <3>3. \A id \in DOMAIN row : i = 0 \/ id \in IdsOf(bank[i].path) =>
              From(row[id][s], i, <<t, s>>) \/ (row[id][s] = Unset /\ OfferedToSibling(t, s))
        <4>1. \A id \in DOMAIN row : Served(bank, row[id][s], <<t, s>>) => From(row[id][s], i, <<t, s>>)
          BY ServedIsFrom DEF i
        <4> QED
          BY <3>2, <3>4, <4>1 DEF CellServed
      <3> QED
        BY <3>2, <3>3 DEF i, row
    <2> QED
      BY <2>2, <2>3, <2>4, <2>5 DEF TableKept
  <1>4. \A n : Served(bank, dense[n], n) <=> From(dense[n], Best(n), n)
    BY ServedIsFrom
  <1>5. \A n : Served(bank, extra[n], n) <=> From(extra[n], Best(n), n)
    BY ServedIsFrom
  <1>6. \A n \in DenseNames : From(dense[n], Best(n), n)
    BY <1>1, <1>2, <1>4 DEF NameKept
  <1>7. \A n \in DOMAIN extra : From(extra[n], Best(n), n)
    BY <1>1, <1>2, <1>5 DEF NameKept
  <1> QED
    BY <1>3, <1>6, <1>7 DEF BankPrecedence

\* The parser takes names off a shrinking set, entry by entry and last entry first, merges
\* its entries by path, and _load_variables() then clears and reads path by path: whatever
\* banks are configured and versions published, when restore() is through every variable
\* has what the last entry that wants it and has it offers, and its initial value if there
\* is none - or, in a slot that only a sibling in the coalesced table is offered, perhaps no
\* value at all.  Plain tensors are left out: they are read with any sparse variable of a path, so
\* for them the documented rule does not hold.  RulesMoveTables and NamesApart are needed
\* because a table is renamed as a whole and cleared by the beginning of a name.
THEOREM SourcesAreBest ==
  ASSUME Tensors = {}, NamesApart, RulesMoveTables
  PROVE  BankSpec => []BankPrecedence
  <1>1. BankInit => BankInv /\ PrecedenceInv
    BY BankInvInit, PrecedenceInvInit
  <1>2. (BankInv /\ PrecedenceInv) /\ [BankNext]_bankVars => (BankInv /\ PrecedenceInv)'
    BY BankInvNext, PrecedenceInvNext
  <1>3. BankInv /\ PrecedenceInv => BankPrecedence
    BY ServedWhenReady
  <1> QED
    BY <1>1, <1>2, <1>3, PTL DEF BankSpec
=============================================================================
