-------------------------- MODULE EmbeddingEngine --------------------------
(***************************************************************************)
(* The embedding lookup of all ranks: recis/nn/modules/embedding_engine.py *)
(* merges features into coalesced tables and runtime groups, embedding.py  *)
(* sends the ids of a group to the ranks that own them and the rows back,  *)
(* hashtable.py looks them up and reduces the gradients that come back.    *)
(*                                                                         *)
(* A row is named by the table and the id it is stored under; a "sum" of   *)
(* rows is the sequence of their names.  Gradients are integers: every id  *)
(* of a sample gets Unit, divided by the length of the sample for "mean".  *)
(* Each collective is numbered by its place in the rank's own sequence, as *)
(* in a process group.                                                     *)
(***************************************************************************)
EXTENDS Sharding, Sequences, SequencesExt, FiniteSets

CONSTANTS
  SliceSize,    \* buckets of an id (65536)
  IdBound,      \* ids of one child (2^52); a multiple of SliceSize
  Unit,         \* gradient of an id, a multiple of what it is divided by
  Configs,      \* embedding options: sequences of options of a feature
  Inputs(_),    \* for options: the features of a batch, as input_dict lists them
  Worlds,       \* numbers of ranks
  Loads(_)      \* for a number of ranks: rank -> feature -> sequence of samples

ASSUME EngineAssumption ==
  /\ SliceSize \in Nat \ {0} /\ IdBound \in Nat \ {0}
  /\ IdBound % SliceSize = 0
  /\ Unit \in Nat \ {0}
  /\ Worlds \subseteq 1..SliceSize
  /\ \A c \in Configs : c \in Seq(ToSet(c)) /\ c # <<>>
  /\ \A c \in Configs : \A o \in Inputs(c) : o \in Seq(DOMAIN c) /\ o # <<>>
  /\ \A c \in Configs : \A w \in Worlds : \A l \in Loads(w) : \A r \in 0..(w - 1) : \A f \in DOMAIN c :
       l[r][f] \in Seq(Seq(Int))

VARIABLES
  conf,     \* the options of this engine
  groups,   \* the runtime groups made of the features of the batch
  world,    \* number of ranks
  load,     \* rank -> its batch
  step,     \* 1: training, 2: evaluation after a restart with another world
  tables,   \* rank -> stored rows <<table, encoded id>>
  known,    \* rows <<shared name, id>> training has created so far
  pc, k,    \* rank -> phase and number of the runtime group in it
  posts,    \* rank -> its sequence of posted all-to-all operations
  ex,       \* rank -> group -> exchanged ids (ExchangeIDsResults)
  out,      \* rank -> feature -> output
  grads, gradSq   \* rank -> stored row -> gradient and its squares

engineVars == <<conf, groups, world, load, step, tables, known, pc, k, posts, ex, out,
                grads, gradSq>>

Ranks == 0..(world - 1)
Features == DOMAIN conf

\* The members of a finite set in the order given.
InOrder(S, before(_, _)) ==
  [i \in 1..Cardinality(S) |-> CHOOSE x \in S : Cardinality({y \in S : before(y, x)}) = i - 1]

-----------------------------------------------------------------------------
(* Construction: from options to tables and groups *)

\* A table is trained when some feature of the shared name is.
ChildTrainable(s) == \E f \in Features : conf[f].shared = s /\ conf[f].trainable

\* coalesced_info(): dimension, type, initializer, reduction of gradients.
CoalescedInfo(f) == <<conf[f].info, conf[f].by, conf[f].groupBy>>

\* The name of the coalesced table.
HtName(f) == <<CoalescedInfo(f), IF ChildTrainable(conf[f].shared) THEN "" ELSE "Frozen">>

\* One shared name in two tables is refused.
Constructible == \A f, g \in Features : conf[f].shared = conf[g].shared => HtName(f) = HtName(g)

\* The features of a table that come first with their shared name.
Firsts(ht) ==
  {f \in Features : HtName(f) = ht /\ \A g \in Features : HtName(g) = ht /\ conf[g].shared = conf[f].shared => f <= g}

\* Children of a table in order of appearance; their place is the encode id.
Children(ht) ==
  LET firsts == InOrder(Firsts(ht), <) IN [i \in DOMAIN firsts |-> conf[firsts[i]].shared]

EncodeIndex(f) == (CHOOSE i \in DOMAIN Children(HtName(f)) :
                     Children(HtName(f))[i] = conf[f].shared) - 1

\* Mutant: the id alone.
EncodeWithoutChild(id, index) == id % IdBound

\* ids_encode(): the child's number in the high bits.
Encode(id, index) == (id % IdBound) + index * IdBound

\* Mutant: features of different combiners in one group.
RuntimeInfoWithoutCombiner(f) ==
  LET o == conf[f] IN
  <<HtName(f), o.trainable, o.readonly, IF o.noReduce THEN f ELSE 0>>

\* runtime_info(): what the features of a group share.  A feature that is
\* not reduced has a group of its own.
RuntimeInfo(f) ==
  LET o == conf[f] IN
  <<HtName(f), o.combiner, o.trainable, o.readonly, IF o.noReduce THEN f ELSE 0>>

\* group_features() of a batch that lists the features of o: tables in the
\* order in which o first has one of theirs, groups in a table too.  Every
\* rank lists the same features in the same order: they run one program.
Groups(o) ==
  LET first(S) == CHOOSE i \in S : \A j \in S : i <= j
      sameHt(i) == {j \in DOMAIN o : HtName(o[j]) = HtName(o[i])}
      sameRun(i) == {j \in DOMAIN o : RuntimeInfo(o[j]) = RuntimeInfo(o[i])}
      leaders == {i \in DOMAIN o : i = first(sameRun(i))}
      before(i, j) == \/ first(sameHt(i)) < first(sameHt(j))
                      \/ HtName(o[i]) = HtName(o[j]) /\ i < j
      ordered == InOrder(leaders, before)
      members(n) == InOrder(sameRun(ordered[n]), <)
  IN  [n \in DOMAIN ordered |-> [m \in DOMAIN members(n) |-> o[members(n)[m]]]]

\* The features of the batch.
Passed == UNION {ToSet(groups[g]) : g \in DOMAIN groups}

-----------------------------------------------------------------------------
(* One group on one rank *)

\* _format_tensor() and coalesce(): encoded values of all samples, and where
\* each sample begins.
Samples(r, g) == FlattenSeq([i \in DOMAIN groups[g] |-> load[r][groups[g][i]]])

CoalescedIds(r, g) ==
  FlattenSeq([i \in DOMAIN groups[g] |->
    LET f == groups[g][i]
        ids == FlattenSeq(load[r][f])
    IN  [j \in DOMAIN ids |-> Encode(ids[j], EncodeIndex(f))]])

CoalescedOffsets(r, g) ==
  LET s == Samples(r, g)
      off[i \in 0..Len(s)] == IF i = 0 THEN 0 ELSE off[i - 1] + Len(s[i])
  IN  off

Bucket(id) == id % SliceSize

IndexIn(seq, x) == CHOOSE i \in DOMAIN seq : seq[i] = x

\* ids_partition(): unique ids ordered by owner, the place of each id among
\* them, and how many each rank owns.
Partition(ids) ==
  LET rank[x \in ToSet(ids)] == Owner(Bucket(x), world, SliceSize)
      unique == InOrder(ToSet(ids), LAMBDA x, y : rank[x] < rank[y] \/ (rank[x] = rank[y] /\ x < y))
  IN  [unique |-> unique,
       reverse |-> [i \in DOMAIN ids |-> IndexIn(unique, ids[i])],
       parts |-> [q \in Ranks |-> Cardinality({x \in ToSet(ids) : rank[x] = q})]]

\* A sequence cut into one part for each rank.
SplitBy(seq, sizes) ==
  LET beg[q \in 0..world] == IF q = 0 THEN 0 ELSE beg[q - 1] + sizes[q - 1]
  IN  [q \in Ranks |-> SubSeq(seq, beg[q] + 1, beg[q + 1])]

\* all_to_all: what rank r is sent, in the order of the senders.
Received(r, n) == [q \in Ranks |-> posts[q][n].to[r]]
Joined(parts) == FlattenSeq([i \in 1..world |-> parts[i - 1]])
Posted(n) == \A q \in Ranks : Len(posts[q]) >= n
Post(r, kind, g, parts) ==
  posts' = [posts EXCEPT ![r] = Append(@, [tag |-> <<kind, RuntimeInfo(groups[g][1])>>, to |-> parts])]

Sum(seq) == FoldLeft(+, 0, seq)

-----------------------------------------------------------------------------
NoExchange == [sent |-> [unique |-> <<>>, reverse |-> <<>>, parts |-> <<>>],
               ids |-> <<>>, from |-> <<>>, embs |-> 0]

Restarted(w) ==
  /\ pc' = [r \in 0..(w - 1) |-> "ids"] /\ k' = [r \in 0..(w - 1) |-> 1]
  /\ posts' = [r \in 0..(w - 1) |-> <<>>]
  /\ ex' = [r \in 0..(w - 1) |-> [g \in DOMAIN groups' |-> NoExchange]]
  /\ out' = [r \in 0..(w - 1) |-> [f \in Features |-> <<>>]]
  /\ grads' = [r \in 0..(w - 1) |-> <<>>] /\ gradSq' = [r \in 0..(w - 1) |-> <<>>]

EngineInit ==
  /\ conf \in Configs /\ Constructible /\ \E o \in Inputs(conf) : groups = Groups(o)
  /\ world \in Worlds /\ step = 1 /\ load \in Loads(world)
  /\ tables = [r \in Ranks |-> {}] /\ known = {}
  /\ pc = [r \in Ranks |-> "ids"] /\ k = [r \in Ranks |-> 1]
  /\ posts = [r \in Ranks |-> <<>>]
  /\ ex = [r \in Ranks |-> [g \in DOMAIN groups |-> NoExchange]]
  /\ out = [r \in Ranks |-> [f \in Features |-> <<>>]]
  /\ grads = [r \in Ranks |-> <<>>] /\ gradSq = [r \in Ranks |-> <<>>]

LastGroup(g) == g = Len(groups)
Goto(r, phase, next) ==
  /\ pc' = [pc EXCEPT ![r] = IF LastGroup(k[r]) THEN next ELSE phase]
  /\ k' = [k EXCEPT ![r] = IF LastGroup(k[r]) THEN 1 ELSE k[r] + 1]

\* group_exchange_ids(): exchange_ids() of one group after the other.
ExchangeIds(r) ==
  LET g == k[r]
      sent == Partition(CoalescedIds(r, g))
  IN
  /\ pc[r] = "ids"
  /\ Post(r, "ids", g, SplitBy(sent.unique, sent.parts))
  /\ ex' = [ex EXCEPT ![r][g].sent = sent]
  /\ pc' = [pc EXCEPT ![r] = "sizes"]
  /\ UNCHANGED <<conf, groups, world, load, step, tables, known, k, out, grads, gradSq>>

\* The exchange of the sizes is synchronous; the sources of the received ids
\* are kept for a reduction by groups of ranks.
ExchangeSizes(r) ==
  LET g == k[r]
      n == Len(posts[r])
      got == Received(r, n)
  IN
  /\ pc[r] = "sizes" /\ Posted(n)
  /\ ex' = [ex EXCEPT ![r][g].ids = Joined(got),
                      ![r][g].from = Joined([q \in Ranks |-> [i \in DOMAIN got[q] |-> q]])]
  /\ Goto(r, "ids", "lookup")
  /\ UNCHANGED <<conf, groups, world, load, step, tables, known, posts, out, grads, gradSq>>

Zero == <<"zero">>

\* The row found for an id: named after the child and the id it encodes.
RowName(ht, id) == <<Children(ht)[(id \div IdBound) + 1], id % IdBound>>

\* HashTable.forward() for the received ids.  Training inserts what is
\* missing unless the group is read-only; evaluation never does.
Inserts(g) == step = 1 /\ ~conf[groups[g][1]].readonly

\* lookup_exchange_emb(): look up what arrived and send the rows back.
LookupExchange(r) ==
  LET g == k[r]
      ht == HtName(groups[g][1])
      ids == ex[r][g].ids
      rows == IF Inserts(g) THEN tables[r] \cup {<<ht, id>> : id \in ToSet(ids)} ELSE tables[r]
      found == [i \in DOMAIN ids |-> IF <<ht, ids[i]>> \in rows THEN RowName(ht, ids[i]) ELSE Zero]
      back == [q \in Ranks |-> Len(SelectSeq(ex[r][g].from, LAMBDA s : s = q))]
  IN
  /\ pc[r] = "lookup"
  /\ tables' = [tables EXCEPT ![r] = rows]
  /\ Post(r, "embs", g, SplitBy(found, back))
  /\ ex' = [ex EXCEPT ![r][g].embs = Len(posts[r]) + 1]
  /\ Goto(r, "lookup", "reduce")
  /\ UNCHANGED <<conf, groups, world, load, step, known, out, grads, gradSq>>

\* emb_reduce() and split_group_embs(): the rows of each sample, and the
\* samples of each feature.
Reduce(r) ==
  LET g == k[r]
      emb == Joined(Received(r, ex[r][g].embs))
      rev == ex[r][g].sent.reverse
      off == CoalescedOffsets(r, g)
      segments == [s \in DOMAIN Samples(r, g) |->
                     [i \in 1..(off[s] - off[s - 1]) |-> emb[rev[off[s - 1] + i]]]]
      cut == [i \in 0..Len(groups[g]) |-> Sum([j \in 1..i |-> Len(load[r][groups[g][j]])])]
  IN
  /\ pc[r] = "reduce" /\ Posted(ex[r][g].embs)
  /\ out' = [out EXCEPT ![r] = [f \in Features |->
               IF f \in ToSet(groups[g])
                 THEN LET i == IndexIn(groups[g], f) IN SubSeq(segments, cut[i - 1] + 1, cut[i])
                 ELSE @[f]]]
  /\ Goto(r, "reduce", IF step = 1 THEN "backward" ELSE "done")
  /\ UNCHANGED <<conf, groups, world, load, step, tables, known, posts, ex, grads, gradSq>>

-----------------------------------------------------------------------------
(* Backward: groups in reverse order, those of frozen features detached *)

Backwards(r) == Len(groups) + 1 - k[r]

\* The gradient of an id of a sample of n ids.
SampleGrad(combiner, n) == IF combiner = "mean" THEN Unit \div n ELSE Unit

\* segment_reduce_backward(): the gradient of each unique row.
UniqueGrads(r, g) ==
  LET s == Samples(r, g)
      each == FlattenSeq([i \in DOMAIN s |-> [j \in DOMAIN s[i] |-> SampleGrad(conf[groups[g][1]].combiner, Len(s[i]))]])
      rev == ex[r][g].sent.reverse
      of(u) == {i \in DOMAIN rev : rev[i] = u}
  IN  [u \in DOMAIN ex[r][g].sent.unique |-> Sum([i \in DOMAIN rev |-> IF i \in of(u) THEN each[i] ELSE 0])]

\* EmbeddingExchange.backward(): gradients go back the way the rows came.
ExchangeGrads(r) ==
  LET g == Backwards(r) IN
  /\ pc[r] = "backward"
  /\ IF conf[groups[g][1]].trainable
       THEN /\ Post(r, "grads", g, SplitBy(UniqueGrads(r, g), ex[r][g].sent.parts))
            /\ pc' = [pc EXCEPT ![r] = "accept"] /\ UNCHANGED k
       ELSE Goto(r, "backward", "done") /\ UNCHANGED posts
  /\ UNCHANGED <<conf, groups, world, load, step, tables, known, ex, out, grads, gradSq>>

\* The reductions of HashTable.forward(), for one row: what is added to its
\* gradient for the gradients vals that arrived for it.
GradIDMean(vals) == <<Sum(vals) \div Len(vals)>>
GradWorkerMean(vals) == <<Sum([i \in DOMAIN vals |-> vals[i] \div world])>>
GradWorkerSum(vals) == vals

NumGroups(o) == (world + o.size - 1) \div o.size

\* The value of one source group, divided as its option says.
PairGrad(vals, o) ==
  CASE o.groupBy = "id" -> Sum(vals) \div (IF vals = <<>> THEN 1 ELSE Len(vals))
    [] o.groupBy = "worker" -> Sum(vals) \div o.size
    [] o.groupBy = "worker_sum" -> Sum(vals)

ValuesOf(vals, from, source) ==
  LET at == SelectSeq([i \in DOMAIN vals |-> i], LAMBDA i : from[i] = source)
  IN  [j \in DOMAIN at |-> vals[at[j]]]

\* A matrix of all groups, a list of those that occur, and the same list by
\* chunks of groups.
GroupReduceDense(vals, from, o) ==
  [x \in 1..NumGroups(o) |-> PairGrad(ValuesOf(vals, from, x - 1), o)]

GroupReduceCompact(vals, from, o) ==
  LET sources == SetToSeq(ToSet(from))
  IN  [i \in DOMAIN sources |-> PairGrad(ValuesOf(vals, from, sources[i]), o)]

GroupReduceChunkCompact(vals, from, o) ==
  LET in(b) == SelectSeq([i \in DOMAIN vals |-> i], LAMBDA i : from[i] >= b /\ from[i] < b + o.chunk)
      chunks == (NumGroups(o) + o.chunk - 1) \div o.chunk
  IN  FlattenSeq([c \in 1..chunks |->
        LET at == in((c - 1) * o.chunk)
        IN  GroupReduceCompact([j \in DOMAIN at |-> vals[at[j]]],
                               [j \in DOMAIN at |-> from[at[j]] - (c - 1) * o.chunk], o)])

\* The source group of a sender is its rank divided by the size of a group.
GradGroupSum(vals, from, o) ==
  LET sourceGroup == [i \in DOMAIN from |-> from[i] \div o.size]
  IN  CASE o.impl = "dense" -> GroupReduceDense(vals, sourceGroup, o)
        [] o.impl = "compact" -> GroupReduceCompact(vals, sourceGroup, o)
        [] o.impl = "chunk_compact" -> GroupReduceChunkCompact(vals, sourceGroup, o)

Contributions(vals, from, o) ==
  CASE o.by = "id" -> GradIDMean(vals)
    [] o.by = "worker" -> GradWorkerMean(vals)
    [] o.by = "worker_sum" -> GradWorkerSum(vals)
    [] o.by = "group_sum" -> GradGroupSum(vals, from, o)

AddTo(held, row, v) == [x \in DOMAIN held \cup {row} |->
  (IF x \in DOMAIN held THEN held[x] ELSE 0) + (IF x = row THEN v ELSE 0)]

\* accept_grad() and, for the sums, accept_grad_sq().
AcceptGrad(r) ==
  LET g == Backwards(r)
      ht == HtName(groups[g][1])
      opt == conf[groups[g][1]]
      ids == ex[r][g].ids
      got == Joined(Received(r, Len(posts[r])))
      rows == SetToSeq({ids[i] : i \in {i \in DOMAIN ids : <<ht, ids[i]>> \in tables[r]}})
      parts(id) == LET at == SetToSeq({i \in DOMAIN ids : ids[i] = id})
                   IN  Contributions([i \in DOMAIN at |-> got[at[i]]],
                                     [i \in DOMAIN at |-> ex[r][g].from[at[i]]], opt)
  IN
  /\ pc[r] = "accept" /\ Posted(Len(posts[r]))
  /\ grads' = [grads EXCEPT ![r] =
       FoldLeft(LAMBDA acc, id : AddTo(acc, <<ht, id>>, Sum(parts(id))), @, rows)]
  /\ gradSq' = IF opt.by \notin {"worker_sum", "group_sum"} THEN gradSq ELSE
       [gradSq EXCEPT ![r] =
         FoldLeft(LAMBDA acc, id :
                    AddTo(acc, <<ht, id>>, Sum([i \in DOMAIN parts(id) |-> parts(id)[i] * parts(id)[i]])),
                  @, rows)]
  /\ Goto(r, "backward", "done")
  /\ UNCHANGED <<conf, groups, world, load, step, tables, known, posts, ex, out>>

-----------------------------------------------------------------------------
\* Rows <<shared name, id>> a batch asks for in groups that insert.
Requested ==
  UNION {{<<conf[f].shared, id>> : id \in ToSet(FlattenSeq(load[r][f]))} :
           r \in Ranks, f \in {f \in Passed : ~conf[f].readonly}}

\* The checkpoint is written and read by another number of ranks: each keeps
\* the ids of its slice.  Then an evaluation runs on another batch, which may
\* list other features in another order.
Reshard(w) ==
  /\ step = 1 /\ \A r \in Ranks : pc[r] = "done"
  /\ step' = 2 /\ world' = w
  /\ known' = known \cup Requested
  /\ tables' = [r \in 0..(w - 1) |->
       {row \in UNION {tables[q] : q \in Ranks} : InSlice(Bucket(row[2]), r, w, SliceSize)}]
  /\ load' \in Loads(w)
  /\ \E o \in Inputs(conf) : groups' = Groups(o)
  /\ Restarted(w)
  /\ UNCHANGED conf

RankSteps(r) ==
  \/ ExchangeIds(r) \/ ExchangeSizes(r) \/ LookupExchange(r) \/ Reduce(r)
  \/ ExchangeGrads(r) \/ AcceptGrad(r)

EngineNext == (\E r \in Ranks : RankSteps(r)) \/ \E w \in Worlds : Reshard(w)

EngineSpec == EngineInit /\ [][EngineNext]_engineVars

-----------------------------------------------------------------------------
Done == \A r \in Ranks : pc[r] = "done"

\* The row a feature must get for an id: its own child's, or zeros when
\* nothing may create it.
Expected(f, id) ==
  LET row == <<conf[f].shared, id>> IN
  IF (step = 1 /\ ~conf[f].readonly) \/ row \in known THEN {row}
  ELSE IF step = 2 THEN {Zero} ELSE {Zero, row}

\* Every sample of every feature of the batch gets the rows of its own ids from its own
\* table, in order, whatever tables and groups the features were merged
\* into, whichever rank stores the rows, and after a restart with another
\* number of ranks too.
LookupIsExact ==
  \A r \in Ranks : pc[r] \in {"backward", "accept", "done"} =>
    \A f \in Passed :
      /\ Len(out[r][f]) = Len(load[r][f])
      /\ \A s \in DOMAIN load[r][f] :
           /\ Len(out[r][f][s]) = Len(load[r][f][s])
           /\ \A i \in DOMAIN load[r][f][s] : out[r][f][s][i] \in Expected(f, load[r][f][s][i])

\* What rank q owes the row of id from the features of a group.
Owed(q, g, shared, id) ==
  Sum([i \in DOMAIN groups[g] |->
    IF conf[groups[g][i]].shared # shared THEN 0
    ELSE Sum([s \in DOMAIN load[q][groups[g][i]] |->
           LET sample == load[q][groups[g][i]][s]
           IN  Len(SelectSeq(sample, LAMBDA x : x = id)) * SampleGrad(conf[groups[g][i]].combiner, Len(sample))])])

\* What the ranks that asked for it add to the row, by the documented
\* meaning of the option: their mean, their sum divided by the number of all
\* ranks, each for itself, or the reductions of the groups of ranks.
OwedBy(g, shared, id) ==
  LET asking == {q \in Ranks : \E f \in ToSet(groups[g]) :
                   conf[f].shared = shared /\ id \in ToSet(FlattenSeq(load[q][f]))}
      total(S) == LET s == SetToSeq(S) IN Sum([i \in DOMAIN s |-> Owed(s[i], g, shared, id)])
      mean(S) == total(S) \div Cardinality(S)
      o == conf[groups[g][1]]
      each(parts, V(_)) == LET s == SetToSeq(parts) IN [i \in DOMAIN s |-> V(s[i])]
      sources == {{q \in asking : q \div o.size = x} : x \in {q \div o.size : q \in asking}}
      grouped(S) == CASE o.groupBy = "id" -> mean(S)
                      [] o.groupBy = "worker" -> total(S) \div o.size
                      [] o.groupBy = "worker_sum" -> total(S)
  IN  CASE asking = {} \/ ~o.trainable -> <<>>
        [] o.by = "worker_sum" -> each({{q} : q \in asking}, total)
        [] o.by = "worker" -> <<total(asking) \div world>>
        [] o.by = "id" -> <<mean(asking)>>
        [] o.by = "group_sum" -> each(sources, grouped)

\* A row's gradient is the reduction, over the ranks that asked for it, of
\* what all their samples owe it, and for the sums its squares are those of
\* what was added - stored once, at the rank that owns the row, and nothing
\* for a feature that is not trained.
GradientsAreExact ==
  (step = 1 /\ Done) =>
    \A r \in Ranks : \A row \in tables[r] :
      LET name == RowName(row[1], row[2])
          of(g) == IF HtName(groups[g][1]) = row[1] THEN OwedBy(g, name[1], name[2]) ELSE <<>>
          squares(g) == IF conf[groups[g][1]].by \in {"worker_sum", "group_sum"}
                          THEN [i \in DOMAIN of(g) |-> of(g)[i] * of(g)[i]] ELSE <<>>
          held(h) == IF row \in DOMAIN h THEN h[row] ELSE 0
      IN  /\ held(grads[r]) = Sum(FlattenSeq([g \in DOMAIN groups |-> of(g)]))
          /\ held(gradSq[r]) = Sum(FlattenSeq([g \in DOMAIN groups |-> squares(g)]))

\* Every row is on the one rank where the next lookup will look for it, and
\* the n-th collective of every rank is the same operation on the same group.
RowsWhereLookedFor ==
  /\ \A r \in Ranks : \A row \in tables[r] : Owner(Bucket(row[2]), world, SliceSize) = r
  /\ \A q, r \in Ranks : \A n \in DOMAIN posts[q] \cap DOMAIN posts[r] : posts[q][n].tag = posts[r][n].tag
=============================================================================
