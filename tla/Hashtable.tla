----------------------------- MODULE Hashtable -----------------------------
(***************************************************************************)
(* One embedding table in training: the id map, the row allocator, the slot *)
(* storage, the gradient buffers, the sparse optimizer's accumulation and   *)
(* the step filter that evicts stale ids                                    *)
(* (csrc/embedding/{hashtable,cpu_id_map,slot_group}.cc,                    *)
(* recis/nn/modules/hashtable.py, hashtable_hook_impl.py,                   *)
(* recis/hooks/filter_hook.py, recis/optim/sparse_optim.py).                *)
(*                                                                          *)
(* All operations run in the training thread; what is interleaved is the    *)
(* order of batches, evaluations, inserts, clears and filter passes.  The   *)
(* content of a row is abstracted to the set of ids that shaped it: {} is   *)
(* the initializer's value.  It stands for the embedding slot and for the   *)
(* optimizer's slots, which are reset and updated together.                 *)
(***************************************************************************)
EXTENDS IdAllocator, FiniteSets, Functions

CONSTANTS
    Ids,             \* feature ids
    BlockSize,       \* rows in one storage block
    MaxBatch,        \* distinct ids in one batch
    MaxRows,         \* rows the memory of one rank holds
    FilterStep,      \* GlobalStepFilter's filter_step
    FilterInterval,  \* HashTableFilterHook's filter_interval
    GradAccumSteps,  \* gradient_accumulation_steps
    Interleaved,     \* whether evaluations and clears happen between training steps
    MaxSteps         \* bound on the filter's step counter

ASSUME TableAssumption ==
    /\ IsFiniteSet(Ids)
    /\ BlockSize \in Nat \ {0}
    /\ MaxBatch \in Nat
    /\ MaxRows \in Nat
    /\ FilterStep \in Nat \ {0}
    /\ FilterInterval \in Nat \ {0}
    /\ GradAccumSteps \in Nat \ {0}
    /\ Interleaved \in BOOLEAN
    /\ MaxSteps \in Nat

VARIABLES
    ids_map,         \* ids_map_: the row of an id, or NullIndex
    block_num,       \* SlotGroup::block_num_
    emb,             \* per row: the ids that shaped the embedding and optimizer slots
    step_slot,       \* per row: the filter slot, the step of the last access
    saved,           \* rows saved by forward for backward, with the id looked up
    grads,           \* grad_index_, grad_: accepted and not yet cleared
    local_step,      \* SparseOptimizer._local_step modulo GradAccumSteps
    global_step,     \* the trainer's global step
    filter_now,      \* GlobalStepFilterHookImpl._global_step
    last_filter,     \* HashTableFilterHook.last_filter_step
    phase,           \* where _train_step is
    used             \* history: the filter's step at an id's last training lookup

tableVars == <<ids_map, block_num, emb, step_slot>>
trainVars == <<saved, grads, local_step, phase>>
filterVars == <<global_step, filter_now, last_filter>>
vars == <<allocVars, tableVars, trainVars, filterVars, used>>

NullIndex == -1

Capacity(n) == 0 .. n * BlockSize - 1

Batches == {batch \in SUBSET Ids : batch # {} /\ Cardinality(batch) <= MaxBatch}

Live == {id \in Ids : ids_map[id] # NullIndex}

Init ==
    /\ AllocInit
    /\ ids_map = [id \in Ids |-> NullIndex]
    /\ block_num = 0
    /\ emb = [r \in Capacity(0) |-> {}]
    /\ step_slot = [r \in Capacity(0) |-> 0]
    /\ saved = {}
    /\ grads = {}
    /\ local_step = 0
    /\ global_step = 0
    /\ filter_now = 0
    /\ last_filter = 0
    /\ phase = "idle"
    /\ used = [id \in Ids |-> 0]

----------------------------------------------------------------------------
(* Id map and storage.                                                      *)

\* Mutant: a block only when the rows do not fill the last one exactly.
ReserveBlocksTooFew(ids_num) ==
    block_num' = IF block_num > ids_num \div BlockSize THEN block_num ELSE ids_num \div BlockSize

\* ReserveBlocksForIds: there are always more cells than rows.
ReserveBlocksForIds(ids_num) ==
    LET need == (ids_num + BlockSize) \div BlockSize
    IN  block_num' = IF block_num < need THEN need ELSE block_num

\* A slot's blocks after IncrementBlock brought block_num to n: the new ones
\* hold the generator's value.
IncrementBlock(slot, n, value) ==
    [r \in DOMAIN slot \cup Capacity(n) |-> IF r \in DOMAIN slot THEN slot[r] ELSE value]

\* The ids of a batch that the search does not find.
Missing(batch) == {id \in batch : ids_map[id] = NullIndex}

\* CpuIdMap::Lookup: the ids that have no row get generated ones.  The chunks
\* of the parallel search report their missing ids in any order.
Lookup(batch) ==
    LET missing == Missing(batch)
        num     == Cardinality(missing)
    IN  /\ cur_size + NewRows(num) <= MaxRows
        /\ \E order \in Bijection(0 .. num - 1, missing) :
              ids_map' = [id \in Ids |->
                             IF id \in missing
                             THEN GeneratedRow(num, CHOOSE i \in 0 .. num - 1 : order[i] = id)
                             ELSE ids_map[id]]
        /\ GenIds(num)
        /\ ReserveBlocksForIds(cur_size')

\* Mutant: deleted rows keep the values they were trained to.
ResetRowsKeepsValues(rows) == emb

\* ResetSlotByIndex on the embedding and optimizer slots: the generator's value.
ResetRows(rows) == [r \in DOMAIN emb |-> IF r \in rows THEN {} ELSE emb[r]]

\* Hashtable::Delete of the ids in dead: the map forgets them, their rows are
\* pushed on the free stack in the order of the id map, the slots are reset.
Delete(dead) ==
    LET num == Cardinality(dead)
    IN  /\ ids_map' = [id \in Ids |-> IF id \in dead THEN NullIndex ELSE ids_map[id]]
        /\ \E order \in Bijection(0 .. num - 1, dead) :
              FreeIds(num, [i \in 0 .. num - 1 |-> ids_map[order[i]]])
        /\ emb' = ResetRows({ids_map[id] : id \in dead})
        /\ used' = [id \in Ids |-> IF id \in dead THEN 0 ELSE used[id]]

----------------------------------------------------------------------------
(* Training step.                                                           *)

\* HashTable.forward in training: the ids are made unique, looked up (or only
\* searched, with the ReadOnly admission hook), the rows saved for backward
\* and the filter slot of the rows that exist set to the filter's step.
Forward(batch, readonly) ==
    /\ phase \in {"idle", "forward"}
    /\ phase' = "forward"
    /\ IF readonly
       THEN /\ UNCHANGED <<cur_size, free_size, free_blocks, ids_map>>
            /\ ReserveBlocksForIds(cur_size)
       ELSE Lookup(batch)
    /\ emb' = IncrementBlock(emb, block_num', {})
    /\ LET rows == {ids_map'[id] : id \in batch}
       IN  step_slot' = [r \in DOMAIN emb' |->
                            IF r \in rows THEN filter_now
                            ELSE IncrementBlock(step_slot, block_num', 0)[r]]
    /\ saved' = saved \cup {[id |-> id, row |-> ids_map'[id]] : id \in batch}
    /\ used' = [id \in Ids |-> IF id \in batch /\ ids_map'[id] # NullIndex
                               THEN filter_now ELSE used[id]]
    /\ UNCHANGED <<grads, local_step, filterVars>>

\* HashTableLookupHelpFunction.backward hands the saved rows to AcceptGrad.
Backward ==
    /\ phase = "forward"
    /\ phase' = "backward"
    /\ grads' = grads \cup saved
    /\ saved' = {}
    /\ UNCHANGED <<allocVars, tableVars, local_step, filterVars, used>>

\* SparseOptimizer.step and zero_grad: the update and the clearing happen at
\* every GradAccumSteps-th step; a gradient for NullIndex is skipped.
OptimizerStep ==
    /\ phase = "backward"
    /\ phase' = "stepped"
    /\ local_step' = (local_step + 1) % GradAccumSteps
    /\ IF local_step' = 0
       THEN /\ emb' = [r \in DOMAIN emb |->
                          emb[r] \cup {g.id : g \in {h \in grads : h.row = r}}]
            /\ grads' = {}
       ELSE UNCHANGED <<emb, grads>>
    /\ UNCHANGED <<allocVars, ids_map, block_num, step_slot, saved, filterVars, used>>

\* Mutant: features as old as the threshold are evicted too.
StaleTooEarly(now) == {id \in Live : step_slot[ids_map[id]] <= now - FilterStep}

\* GlobalStepFilterHookImpl.filter: the ids whose slot is below the threshold.
Stale(now) == {id \in Live : step_slot[ids_map[id]] < now - FilterStep}

\* HashTableFilterHook.after_step, after a training or an evaluation step with
\* the trainer's step at gstep: the filter's step advances, and when the
\* interval has passed the stale ids are deleted, their filter slot preserved.
FilterAfterStep(gstep) ==
    LET last == IF last_filter = 0 THEN gstep ELSE last_filter
    IN  /\ filter_now' = filter_now + 1
        /\ IF gstep - last >= FilterInterval
           THEN /\ Delete(Stale(filter_now + 1))
                /\ last_filter' = gstep
           ELSE /\ last_filter' = last
                /\ UNCHANGED <<allocVars, ids_map, emb, used>>
        /\ UNCHANGED <<block_num, step_slot>>

\* The hooks after a training step: CheckpointSaveHook counts the step, the
\* filter hook follows.
AfterTrainStep ==
    /\ phase = "stepped"
    /\ phase' = "idle"
    /\ filter_now < MaxSteps
    /\ global_step' = global_step + 1
    /\ FilterAfterStep(global_step + 1)
    /\ UNCHANGED <<saved, grads, local_step>>

----------------------------------------------------------------------------
(* Between training steps.                                                  *)

\* An evaluation step: a read-only lookup, which at most allocates the first
\* storage block.
EvalForward ==
    /\ Interleaved
    /\ phase = "idle"
    /\ phase' = "evaluated"
    /\ ReserveBlocksForIds(cur_size)
    /\ emb' = IncrementBlock(emb, block_num', {})
    /\ step_slot' = IncrementBlock(step_slot, block_num', 0)
    /\ UNCHANGED <<allocVars, ids_map, saved, grads, local_step, filterVars, used>>

\* The hooks after an evaluation step: the same filter hook runs, with the
\* trainer's step unchanged.
AfterEvalStep ==
    /\ phase = "evaluated"
    /\ phase' = "idle"
    /\ filter_now < MaxSteps
    /\ FilterAfterStep(global_step)
    /\ UNCHANGED <<global_step, saved, grads, local_step>>

\* Hashtable::Insert of given embeddings; the filter slot is not touched.
Insert(batch) ==
    /\ phase = "idle"
    /\ Lookup(batch)
    /\ emb' = [r \in DOMAIN IncrementBlock(emb, block_num', {}) |->
                  IF \E id \in batch : ids_map'[id] = r
                  THEN {id \in batch : ids_map'[id] = r}
                  ELSE IncrementBlock(emb, block_num', {})[r]]
    /\ step_slot' = IncrementBlock(step_slot, block_num', 0)
    /\ UNCHANGED <<trainVars, filterVars, used>>

\* Hashtable::Clear, which checkpoint updates run before a window or a step:
\* every id is deleted and every slot reset, the filter's too.
Clear ==
    /\ Interleaved
    /\ phase = "idle"
    /\ Live # {}
    /\ Delete(Live)
    /\ step_slot' = [r \in DOMAIN step_slot |->
                        IF r \in {ids_map[id] : id \in Live} THEN 0 ELSE step_slot[r]]
    /\ UNCHANGED <<block_num, trainVars, filterVars>>

Next ==
    \/ \E batch \in Batches : \E readonly \in BOOLEAN : Forward(batch, readonly)
    \/ Backward
    \/ OptimizerStep
    \/ AfterTrainStep
    \/ EvalForward
    \/ AfterEvalStep
    \/ \E batch \in Batches : Insert(batch)
    \/ Clear

Spec == Init /\ [][Next]_vars

----------------------------------------------------------------------------
(* Properties.                                                              *)

Rows == 0 .. MaxRows - 1

\* Type invariant of the table, the allocator and the training state; every
\* slot has exactly the cells of the allocated blocks.
TypeOK ==
    /\ cur_size \in 0 .. MaxRows
    /\ free_size \in 0 .. MaxRows
    /\ free_blocks \in [Cells(free_size) -> Rows \cup {Uninit}]
    /\ ids_map \in [Ids -> Rows \cup {NullIndex}]
    /\ block_num \in Nat
    /\ emb \in [Capacity(block_num) -> SUBSET Ids]
    /\ step_slot \in [Capacity(block_num) -> 0 .. MaxSteps]
    /\ saved \subseteq [id : Ids, row : Rows \cup {NullIndex}]
    /\ grads \subseteq [id : Ids, row : Rows \cup {NullIndex}]
    /\ local_step \in 0 .. GradAccumSteps - 1
    /\ global_step \in 0 .. MaxSteps
    /\ filter_now \in 0 .. MaxSteps
    /\ last_filter \in 0 .. MaxSteps
    /\ phase \in {"idle", "forward", "backward", "stepped", "evaluated"}
    /\ used \in [Ids -> 0 .. MaxSteps]

\* Every row ever handed out belongs to exactly one id or is exactly once on
\* the free stack: lookups, evictions and clears never share a row between
\* ids, free a row twice or lose one.
RowsPartitioned ==
    /\ \A i, j \in Live : ids_map[i] = ids_map[j] => i = j
    /\ \A k, l \in 0 .. free_size - 1 : free_blocks[k] = free_blocks[l] => k = l
    /\ \A id \in Live : ids_map[id] \notin FreeRows
    /\ 0 .. cur_size - 1 = {ids_map[id] : id \in Live} \cup FreeRows

\* The TORCH_CHECK of Ids, Index and SnapShot never fails: the id map has as
\* many entries as the allocator has rows in use.
ActiveSizeMatches == Cardinality(Live) = ActiveSize

\* Every row that was handed out lies in an allocated block, so that gathers,
\* updates and filters of a row never leave the storage.
StorageCoversRows == cur_size = 0 \/ cur_size - 1 \in Capacity(block_num)

\* A row holds what its present owner was trained to and nothing else: after
\* an eviction, a clear and a reuse of the row, neither values nor late
\* gradients of the earlier id are left in it, and a free row is fresh.
RowsHoldOwnValues == \A r \in DOMAIN emb : emb[r] \subseteq {id \in Ids : ids_map[id] = r}

\* A filter pass evicts an id only when more than FilterStep steps of the
\* filter's own clock (update_step) lie between the id's last training lookup
\* and the pass: whatever row the id got, whoever had the row before and
\* however often the filter slot was overwritten, cleared or kept.  The clock
\* advances after evaluation steps too.
EvictsOnlyStale ==
    [][\A id \in Live : phase # "idle" /\ ids_map'[id] = NullIndex
          => filter_now' - used[id] > FilterStep]_vars

\* The rows are accounted for: each belongs to one id or is free once, the id
\* map and the allocator agree on how many are in use (the TORCH_CHECK of Ids,
\* Index and SnapShot), and every one of them lies in allocated storage.
RowsAccounted == RowsPartitioned /\ ActiveSizeMatches /\ StorageCoversRows
=============================================================================
