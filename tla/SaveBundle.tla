----------------------------- MODULE SaveBundle -----------------------------
(***************************************************************************)
(* The ranks of a job save the sparse parameters of one checkpoint into one *)
(* directory (csrc/serialize/save_bundle.cc, saver.cc).  Files are the only *)
(* way the ranks learn of each other: rank 0 polls for the files the other  *)
(* shards publish, reads and deletes them, and writes the merged files.     *)
(*                                                                          *)
(* A file is published by a rename of a private temporary one, so writing   *)
(* it is one step; the content of a file is the attempt that wrote it.  A   *)
(* crash ends every rank and leaves the directory as it is: the next        *)
(* attempt, or a second save of the same checkpoint, starts from there.     *)
(***************************************************************************)
EXTENDS Integers

CONSTANTS
    ShardNum,    \* shard_num_: ranks that save
    Parallel,    \* parallel_: table writers of one rank
    BlockNum,    \* BlockNum[s]: write blocks of shard s
    MaxAttempts  \* bound on the saves into the directory

Shards == 0 .. ShardNum - 1
Writers == 0 .. Parallel - 1

ASSUME BundleAssumption ==
    /\ ShardNum \in Nat \ {0}
    /\ Parallel \in Nat \ {0}
    /\ BlockNum \in [Shards -> Nat]
    /\ MaxAttempts \in Nat

VARIABLES
    pc,          \* where each rank is in Saver::Save
    attempt,     \* the present attempt, 1, 2, ...
    data,        \* data[s][w]: the attempt that wrote the table file, 0 when absent
    json,        \* json[s][w]: the same for a writer's meta file
    shared,      \* shared[k][s]: the same for the files that rank 0 collects
    table,       \* table[s]: next writer whose files are renamed
    collected,   \* rank 0: what GetSubFileData or MergeMetaInfo has read, by shard
    index        \* the merged index: 0 when absent, else the attempt that wrote it

bundleVars == <<pc, attempt, data, json, shared, table, collected, index>>

\* The per-shard files that rank 0 merges, in this order.
Kinds == {"rank_json", "tensor_key", "meta"}

None == [s \in Shards |-> 0]

BundleInit ==
    /\ pc = [s \in Shards |-> "save_meta"]
    /\ attempt = 1
    /\ data = [s \in Shards |-> [w \in Writers |-> 0]]
    /\ json = [s \in Shards |-> [w \in Writers |-> 0]]
    /\ shared = [k \in Kinds |-> None]
    /\ table = None
    /\ collected = None
    /\ index = 0

\* Mutant: the round robin starts at the second writer.
WriterFromOne(b) == (b + 1) % Parallel

\* AddBlock: the blocks go to the writers in turn.
WriterOf(b) == b % Parallel

\* Empty: the writers that got no block.
Used(s) == {WriterOf(b) : b \in 0 .. BlockNum[s] - 1}

\* valid_num: the meta files that a shard waits for are the first valid_num.
ValidNum(s) == IF BlockNum[s] < Parallel THEN BlockNum[s] ELSE Parallel

----------------------------------------------------------------------------

\* SaveMeta: the shard's index, then its tensor keys.
SaveMeta(s) ==
    /\ pc[s] = "save_meta"
    /\ shared' = [shared EXCEPT !["meta"][s] = attempt]
    /\ pc' = [pc EXCEPT ![s] = "save_tensor_key"]
    /\ UNCHANGED <<attempt, data, json, table, collected, index>>

SaveTensorKey(s) ==
    /\ pc[s] = "save_tensor_key"
    /\ shared' = [shared EXCEPT !["tensor_key"][s] = attempt]
    /\ pc' = [pc EXCEPT ![s] = "save_tables"]
    /\ table' = [table EXCEPT ![s] = 0]
    /\ UNCHANGED <<attempt, data, json, collected, index>>

\* SaveTables after all writers are done: the renames, writer by writer.
RenameTable(s) ==
    /\ pc[s] = "save_tables"
    /\ table[s] < Parallel
    /\ table' = [table EXCEPT ![s] = @ + 1]
    /\ IF table[s] \in Used(s)
       THEN /\ data' = [data EXCEPT ![s][table[s]] = attempt]
            /\ json' = [json EXCEPT ![s][table[s]] = attempt]
       ELSE UNCHANGED <<data, json>>
    /\ UNCHANGED <<pc, attempt, shared, collected, index>>

\* MergeParallelTorchRankJson: the writers' meta files, each waited for, become
\* the shard's; rank 0 goes on to MergeJsonInfo and MergeMetaInfo.
MergeParallelTorchRankJson(s) ==
    /\ pc[s] = "save_tables"
    /\ table[s] = Parallel
    /\ \A w \in 0 .. ValidNum(s) - 1 : json[s][w] # 0
    /\ json' = [json EXCEPT ![s] = [w \in Writers |-> IF w < ValidNum(s) THEN 0 ELSE @[w]]]
    /\ shared' = [shared EXCEPT !["rank_json"][s] = attempt]
    /\ pc' = [pc EXCEPT ![s] = IF s = 0 THEN "rank_json" ELSE "barrier"]
    /\ collected' = IF s = 0 THEN None ELSE collected
    /\ UNCHANGED <<attempt, data, table, index>>

\* What rank 0 does after it merged the files of a kind, or after the last.
AfterMerge == [rank_json |-> "tensor_key", tensor_key |-> "meta", meta |-> "barrier"]

\* GenJsonInfo, or one turn of MergeMetaInfo's loop, for a file that exists.
Collect(s) ==
    /\ pc[0] \in Kinds
    /\ collected[s] = 0
    /\ shared[pc[0]][s] # 0
    /\ collected' = [collected EXCEPT ![s] = shared[pc[0]][s]]
    /\ shared' = [shared EXCEPT ![pc[0]][s] = 0]
    /\ UNCHANGED <<pc, attempt, data, json, table, index>>

\* All files of a kind are merged: rank 0 writes the result.
FinishMerge ==
    /\ pc[0] \in Kinds
    /\ \A s \in Shards : collected[s] # 0
    /\ pc' = [pc EXCEPT ![0] = AfterMerge[pc[0]]]
    /\ collected' = None
    /\ index' = IF pc[0] = "meta" THEN attempt ELSE index
    /\ UNCHANGED <<attempt, data, json, shared, table>>

\* Mutant: a rank does not wait for the others.
SyncNobody ==
    /\ \E s \in Shards : pc[s] = "barrier"
    /\ pc' = [s \in Shards |-> "done"]
    /\ UNCHANGED <<attempt, data, json, shared, table, collected, index>>

\* sync_func at the end of save_sparse_params: every rank waits for every rank.
Sync ==
    /\ \A s \in Shards : pc[s] = "barrier"
    /\ pc' = [s \in Shards |-> "done"]
    /\ UNCHANGED <<attempt, data, json, shared, table, collected, index>>

\* The job dies at any point and saves the checkpoint again after its restart,
\* or a finished checkpoint is saved a second time under the same id.
NextAttempt ==
    /\ attempt < MaxAttempts
    /\ attempt' = attempt + 1
    /\ pc' = [s \in Shards |-> "save_meta"]
    /\ UNCHANGED <<data, json, shared, table, collected, index>>

RankStep(s) ==
    \/ SaveMeta(s)
    \/ SaveTensorKey(s)
    \/ RenameTable(s)
    \/ MergeParallelTorchRankJson(s)
    \/ Collect(s)

BundleNext ==
    \/ \E s \in Shards : RankStep(s)
    \/ FinishMerge
    \/ Sync
    \/ NextAttempt

BundleSpec == BundleInit /\ [][BundleNext]_bundleVars

\* Ranks that run take their next step, and a merged file is noticed by the
\* polling loop; that the job is restarted is not assumed.
BundleFairness ==
    /\ \A s \in Shards : WF_bundleVars(RankStep(s))
    /\ WF_bundleVars(FinishMerge)
    /\ WF_bundleVars(Sync)

FairBundleSpec == BundleSpec /\ BundleFairness

----------------------------------------------------------------------------
(* Properties.                                                              *)

\* Type invariant of the directory and the ranks.
BundleTypeOK ==
    /\ pc \in [Shards -> Kinds \cup {"save_meta", "save_tensor_key", "save_tables",
                                 "barrier", "done"}]
    /\ attempt \in Nat
    /\ data \in [Shards -> [Writers -> Nat]]
    /\ json \in [Shards -> [Writers -> Nat]]
    /\ shared \in [Kinds -> [Shards -> Nat]]
    /\ table \in [Shards -> 0 .. Parallel]
    /\ collected \in [Shards -> Nat]
    /\ index \in Nat

Stored(s) == \A w \in Used(s) : data[s][w] # 0

\* A directory with an index has every table file the index names: the index
\* of a shard is published before its tables, but merged only after the
\* shard's meta, which follows the tables; leftovers of a crashed attempt,
\* which rank 0 takes for news, do not break this.
IndexMeansStored == index # 0 => \A s \in Shards : Stored(s)

\* When save_sparse_params returns on any rank, the index and every table file
\* are the present attempt's, whatever earlier attempts left behind.
ReturnMeansSaved ==
    \A r \in Shards : pc[r] = "done" =>
        /\ index = attempt
        /\ \A s \in Shards : \A w \in Used(s) : data[s][w] = attempt

\* The save keeps both promises, over crashes and repeated attempts.
SaveIsSafe == IndexMeansStored /\ ReturnMeansSaved

\* A save that has begun and is not interrupted ends on every rank: no rank
\* waits for a file that nobody will write.
SaveEnds == (\E s \in Shards : pc[s] # "save_meta") ~> (\A s \in Shards : pc[s] = "done")
=============================================================================
