---------------------------- MODULE ShardSampler ----------------------------
(***************************************************************************)
(* The sampler that keeps the negative table in GPU memory, a shard per    *)
(* rank (recis/data/gpu_shard_sampler).  A reload is prepared in the       *)
(* background and committed with a collective; pack_feature() sends every  *)
(* id to the rank that owns it and brings its features back in four        *)
(* collectives.  A feature is an entry; an id's part of an entry is a      *)
(* sequence of elements, of any length for ragged features, and the        *)
(* weights of a ragged feature are one more entry behind all features.     *)
(* Elements are one unit wide: bytes per element and the alignment of      *)
(* entries are left out.                                                   *)
(***************************************************************************)
EXTENDS Integers, Sequences, FiniteSets, SequencesExt

CONSTANTS
  World,      \* number of ranks
  Shards,     \* sequence of tables: [0..World-1 -> sequence of ids, as read]
  Features,   \* features by build order, dense first: [name, ragged, weighted]
  Width,      \* [id -> number of elements of its ragged features]
  Queries,    \* set of [0..World-1 -> sequence of ids] asked in one step
  DefaultUnit,\* default_value of pack_feature()
  MaxPacks    \* bound on the training steps

VARIABLES
  rank,   \* per rank: [pc, shard, all, pending, checked, query, order, counts, asked, sent, got, result]
  prepared, \* tables the background threads were given
  packed  \* number of packs finished

shardVars == <<rank, prepared, packed>>

Ranks == 0..(World - 1)
\* _pending_shard or shard before the first table
NoShard == [version |-> 0, ids |-> <<>>]

NewRank == [pc |-> "idle", shard |-> NoShard, all |-> <<>>, pending |-> NoShard, checked |-> {}, query |-> <<>>,
            order |-> <<>>, counts |-> <<>>, asked |-> <<>>, sent |-> <<>>, result |-> <<>>]

ShardInit == rank = [r \in Ranks |-> NewRank] /\ prepared = [r \in Ranks |-> 0] /\ packed = 0

-----------------------------------------------------------------------------
(* A shard.                                                                *)

NumFeatures == Len(Features)
Weighted == SelectSeq([f \in 1..NumFeatures |-> f], LAMBDA f : Features[f].weighted)
\* GpuShard: the entries are the features, then the weights.
NumEntries == NumFeatures + Len(Weighted)

\* weight_entry_idx: the entry with the weights of feature f, 0 if it has none.
WeightEntry(f) ==
  IF Features[f].weighted THEN NumFeatures + (CHOOSE i \in DOMAIN Weighted : Weighted[i] = f) ELSE 0

\* offset_indices: the feature whose offsets an entry uses.
OffsetsOf(e) == IF e <= NumFeatures THEN e ELSE Weighted[e - NumFeatures]

Elements(v, id, e) == [k \in 1..(IF Features[OffsetsOf(e)].ragged THEN Width[id] ELSE 1) |-> <<v, id, e, k>>]

\* _select_ragged_rows() takes the maximum of the lengths, which no rows do not have.
Buildable(v, r) == Shards[v][r] # <<>> \/ \A f \in 1..NumFeatures : ~Features[f].ragged

\* build_cpu_shard(): the rows by ascending id.
BuildCpuShard(v, r) == [version |-> v, ids |-> SortSeq(Shards[v][r], <)]

\* searchsorted(): the first position not below the id.
Position(ids, id) == Cardinality({k \in DOMAIN ids : ids[k] < id}) + 1
Holds(ids, id) == Position(ids, id) <= Len(ids) /\ ids[Position(ids, id)] = id

\* prepare_reload(), in a background thread; the next table comes after the last one is committed everywhere.
\* A thread that raises leaves its rank without a pending shard.
PrepareReload(r) ==
  /\ prepared[r] < Len(Shards)
  /\ \A q \in Ranks : rank[q].shard.version >= prepared[r]
  /\ prepared' = [prepared EXCEPT ![r] = @ + 1]
  /\ rank' = IF Buildable(prepared[r] + 1, r) THEN [rank EXCEPT ![r].pending = BuildCpuShard(prepared[r] + 1, r)]
             ELSE rank
  /\ UNCHANGED packed

\* The training loops call the same operation on all ranks: commit_reload() when all are
\* prepared, else pack_feature() on the ids of each rank's batch.
CallCommit ==
  /\ \A r \in Ranks : rank[r].pc = "idle" /\ rank[r].pending # NoShard
  /\ rank' = [r \in Ranks |-> [rank[r] EXCEPT !.pc = "commit"]]
  /\ UNCHANGED <<prepared, packed>>

CallPack(query) ==
  /\ \A r \in Ranks : rank[r].pc = "idle" /\ rank[r].shard # NoShard
  /\ rank' = [r \in Ranks |-> [rank[r] EXCEPT !.pc = "pack", !.query = query[r]]]
  /\ UNCHANGED <<prepared, packed>>

\* commit_reload(): nothing without a pending shard; else the shard moves to the GPU ...
CommitReload(r) ==
  /\ rank[r].pc = "commit"
  /\ rank' = [rank EXCEPT ![r].pc = IF rank[r].pending = NoShard THEN "idle" ELSE "gather"]
  /\ UNCHANGED <<prepared, packed>>

\* all_gather_sorted_ids(): the longest shard pads the others, and the padding is cut off again.
Padding == 2147483647
AllGatherSortedIds(sizes, lists) ==
  LET longest == CHOOSE n \in Range(sizes) : \A m \in Range(sizes) : m <= n
      padded == [q \in Ranks |-> lists[q] \o [k \in 1..(longest - Len(lists[q])) |-> Padding]]
  IN  [q \in Ranks |-> SubSeq(padded[q], 1, sizes[q + 1])]

\* ... and the collective ends for all at once.
Swapped(r) ==
  LET pending == [q \in Ranks |-> rank[q].pending.ids]
      all == AllGatherSortedIds([i \in 1..World |-> Len(pending[i - 1])], pending)
  IN  [rank[r] EXCEPT !.pc = "idle", !.shard = rank[r].pending, !.all = all, !.pending = NoShard]

CommitGather ==
  /\ \A r \in Ranks : rank[r].pc = "gather"
  /\ rank' = [r \in Ranks |-> Swapped(r)]
  /\ UNCHANGED <<prepared, packed>>

-----------------------------------------------------------------------------
(* pack_feature().                                                         *)

\* fused_route_ids(): the first rank that holds the id, or else the default.
Known(all, id) == \E q \in Ranks : Holds(all[q], id)
RouteId(all, id) == IF Known(all, id) THEN id ELSE DefaultUnit
TargetRank(all, id) ==
  LET holders == {q \in Ranks : Holds(all[q], RouteId(all, id))}
  IN  IF holders = {} THEN -1 ELSE CHOOSE q \in holders : \A p \in holders : q <= p

\* argsort() of the target ranks.
SortOrder(targets) ==
  SortSeq([k \in DOMAIN targets |-> k], LAMBDA a, b : targets[a] < targets[b] \/ (targets[a] = targets[b] /\ a < b))

BinCount(targets) == [i \in 1..World |-> Cardinality({k \in DOMAIN targets : targets[k] = i - 1})]
Offset(counts, q) == FoldSeq(+, 0, SubSeq(counts, 1, q))
Section(seq, counts, q) == SubSeq(seq, Offset(counts, q) + 1, Offset(counts, q + 1))

\* The check of the default (once per value, not again after a reload), the routing, and the ids by
\* target rank; bincount() raises for an id without a target.
PackFeature(r) ==
  /\ rank[r].pc = "pack"
  /\ LET me == rank[r]
         found == DefaultUnit \in me.checked \/ Known(me.all, DefaultUnit)
         ids == [k \in DOMAIN me.query |-> RouteId(me.all, me.query[k])]
         targets == [k \in DOMAIN me.query |-> TargetRank(me.all, me.query[k])]
         order == SortOrder(targets)
     IN  rank' = [rank EXCEPT ![r] =
           IF ~found \/ -1 \in Range(targets) THEN [me EXCEPT !.pc = "raised"]
           ELSE [me EXCEPT !.pc = "counts", !.order = order, !.checked = @ \cup {DefaultUnit},
                           !.counts = BinCount(targets), !.sent = [k \in DOMAIN order |-> ids[order[k]]]]]
  /\ UNCHANGED <<prepared, packed>>

\* all_to_all of the counts and of the ids: rank r receives the sections for it by source rank.
ExchangeIds ==
  /\ \A r \in Ranks : rank[r].pc = "counts"
  /\ rank' = [r \in Ranks |-> [rank[r] EXCEPT !.pc = "ids",
       !.asked = [i \in 1..World |-> Section(rank[i - 1].sent, rank[i - 1].counts, r)]]]
  /\ UNCHANGED <<prepared, packed>>

\* unified_gather(): all lengths and the elements of one entry, for ids in order.
Row(shard, id) == shard.ids[Position(shard.ids, id)]
UnifiedGather(shard, ids, e) == [k \in DOMAIN ids |-> Elements(shard.version, Row(shard, ids[k]), e)]

\* fused_serialize(): per source rank the lengths of all entries, then the elements entry by entry.
Serialize(shard, ids) ==
  LET parts == [e \in 1..NumEntries |-> UnifiedGather(shard, ids, e)]
  IN  [lengths |-> [e \in 1..NumEntries |-> [k \in DOMAIN ids |-> Len(parts[e][k])]],
       values  |-> FlattenSeq([e \in 1..NumEntries |-> FlattenSeq(parts[e])])]

\* The local gather and the serialization of what every other rank asked for.
GatherLocal(r) ==
  /\ rank[r].pc = "ids"
  /\ rank' = [rank EXCEPT ![r].pc = "data",
       ![r].sent = [i \in 1..World |-> Serialize(rank[r].shard, rank[r].asked[i])]]
  /\ UNCHANGED <<prepared, packed>>

Total(s) == FoldSeq(+, 0, s)

\* Mutant: the answers stay in the order of the exchange.
DeserializeInOrder(messages, order, counts, e) ==
  LET at == [i \in 1..World |-> Offset(counts, i - 1)]
      entryStart(m) == Total([x \in 1..(e - 1) |-> Total(m.lengths[x])])
      part(m, k) ==
        LET start == entryStart(m) + Total(SubSeq(m.lengths[e], 1, k - 1))
        IN  SubSeq(m.values, start + 1, start + m.lengths[e][k])
      source(p) == CHOOSE i \in 1..World : at[i] < p /\ p <= at[i] + counts[i]
      place(q) == q
  IN  [q \in DOMAIN order |-> part(messages[source(place(q))], place(q) - at[source(place(q))])]

\* fused_deserialize_*(): the k-th answer of the message of rank q belongs to place order[base + k]; its
\* elements of entry e start after the entries before it and after the answers before it.
Deserialize(messages, order, counts, e) ==
  LET at == [i \in 1..World |-> Offset(counts, i - 1)]
      entryStart(m) == Total([x \in 1..(e - 1) |-> Total(m.lengths[x])])
      part(m, k) ==
        LET start == entryStart(m) + Total(SubSeq(m.lengths[e], 1, k - 1))
        IN  SubSeq(m.values, start + 1, start + m.lengths[e][k])
      source(p) == CHOOSE i \in 1..World : at[i] < p /\ p <= at[i] + counts[i]
      place(q) == CHOOSE p \in DOMAIN order : order[p] = q
  IN  [q \in DOMAIN order |-> part(messages[source(place(q))], place(q) - at[source(place(q))])]

\* all_to_all of sizes and data, and the results by name: offsets and values, weights beside them.
ExchangeData ==
  /\ \A r \in Ranks : rank[r].pc = "data"
  /\ packed' = packed + 1
  /\ rank' = [r \in Ranks |->
       LET me == rank[r]
           messages == [i \in 1..World |-> rank[i - 1].sent[r + 1]]
           entry == [e \in 1..NumEntries |-> Deserialize(messages, me.order, me.counts, e)]
       IN  [me EXCEPT !.pc = "packed",
              !.result = [f \in 1..NumFeatures |-> [values |-> entry[f],
                            weight |-> IF WeightEntry(f) = 0 THEN <<>> ELSE entry[WeightEntry(f)]]]]]
  /\ UNCHANGED prepared

\* The training step uses the result.
UseResult(r) ==
  /\ rank[r].pc = "packed"
  /\ rank' = [rank EXCEPT ![r] = [@ EXCEPT !.pc = "idle", !.query = <<>>, !.order = <<>>, !.counts = <<>>,
                                           !.asked = <<>>, !.sent = <<>>, !.result = <<>>]]
  /\ UNCHANGED <<prepared, packed>>

ShardNext ==
  \/ \E r \in Ranks : PrepareReload(r) \/ CommitReload(r) \/ PackFeature(r) \/ GatherLocal(r) \/ UseResult(r)
  \/ packed < MaxPacks /\ \E query \in Queries : CallPack(query)
  \/ CallCommit \/ CommitGather \/ ExchangeIds \/ ExchangeData

-----------------------------------------------------------------------------
\* What pack_feature() returns on every rank: feature by feature, the values (and weights)
\* of each id asked for, or of the default for an id no shard holds, from the table that is
\* committed, in the order of the query.
ShardsAnswerExactly ==
  \A r \in Ranks : rank[r].pc = "packed" =>
    \A f \in 1..NumFeatures, q \in DOMAIN rank[r].query :
      LET v == rank[r].shard.version
          id == rank[r].query[q]
          known == \E p \in Ranks : id \in Range(Shards[v][p])
          row(e) == Elements(v, IF known THEN id ELSE DefaultUnit, e)
      IN  /\ rank[r].result[f].values[q] = row(f)
          /\ Features[f].weighted => rank[r].result[f].weight[q] = row(WeightEntry(f))
=============================================================================
