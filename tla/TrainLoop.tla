----------------------------- MODULE TrainLoop -----------------------------
(***************************************************************************)
(* The loops of recis/framework/trainer.py over window datasets, on all    *)
(* ranks: every rank takes windows and batches from its own part of the    *)
(* data, and the ranks meet in collectives.  Before each window and each   *)
(* batch they agree on whether one of them has none left.  The checkpoint  *)
(* hook saves after a window; rank 0 writes its own offsets for all.       *)
(***************************************************************************)
EXTENDS WindowIO, FiniteSets

CONSTANTS
    Epochs,        \* train_epoch
    MaxSteps,      \* train_steps and eval_steps of a window, or None
    WindowIters,   \* values of window_iter to look at, None among them
    SaveWindows,   \* save_windows
    SharedClass,   \* both datasets are of one class of make_odps_window_io
    LoopKinds,     \* kinds of dataset to look at
    Modes,         \* loops to look at
    BatchSize,     \* batch_size of the datasets
    MaxLives       \* bound on the starts of the job

None == -1
Ranks == 0 .. WorkerNum - 1

ASSUME LoopAssumption ==
    /\ {Epochs, SaveWindows, BatchSize, MaxLives} \subseteq Nat \ {0}
    /\ MaxSteps \in Nat \cup {None}
    /\ WindowIters \subseteq Nat \cup {None}
    /\ SharedClass \in BOOLEAN
    /\ LoopKinds \subseteq Kinds
    /\ Modes \subseteq {"train", "eval", "train_eval"}
    /\ ProportionsValid

VARIABLES
    kind, mode, limit,  \* the job: its dataset, its loop, its window_iter
    data,       \* data[r]: the windows of rank r, each with its rows
    pc,         \* where each rank is
    ds,         \* the dataset it is reading
    offset,     \* _read_offset of its datasets, in windows
    reset,      \* its training dataset has been reset in this life
    size,       \* _batch_size of its datasets
    cut,        \* its datasets have their _window_paths
    rest,       \* batches left in its iterator
    flag,       \* what it brings to sync_exit_flag
    lstep,      \* steps in this window
    windows,    \* windows of this epoch
    saves,      \* windows counted by the checkpoint hook
    epoch,      \* its _epoch
    seen,       \* seen[e][row]: how often the weights saw a row in epoch e
    ckpt,       \* the last checkpoint
    lives       \* starts of the job

job == <<kind, mode, limit, data>>
local == <<ds, offset, reset, size, cut, rest, flag, lstep, windows, saves, epoch>>
vars == <<job, pc, local, seen, ckpt, lives>>

Rows == [table : DOMAIN Tables, row : 0 .. Max(LakeTimes \cup ToSet(Tables))]
EpochSet == 0 .. Epochs - 1
Collective == {"window_flag", "step_flag", "work", "save"}
FirstDataset == IF mode = "eval" THEN "eval" ELSE "train"

\* The cell that holds a dataset's offset.  The tensor of the class serves
\* all its datasets until load_state_dict gives each one its own.
Cell(d) == IF SharedClass /\ lives = 1 THEN "train" ELSE d

AtAll(p) == \A r \in Ranks : pc[r] = p

ForAll(v) == [r \in Ranks |-> v]

NoOffset == [d \in {"train", "eval"} |-> 0]

Configured == [d \in {"train", "eval"} |-> BatchSize]

Uncut == [d \in {"train", "eval"} |-> FALSE]

Unseen == [e \in EpochSet |-> [x \in Rows |-> 0]]

LoopInit ==
    /\ kind \in LoopKinds /\ mode \in Modes /\ limit \in WindowIters
    /\ kind = "lake" => limit /= None
    /\ data = [r \in Ranks |-> Windows(kind, r)]
    /\ pc = ForAll("window")
    /\ ds = ForAll(FirstDataset)
    /\ offset = ForAll(NoOffset)
    /\ reset = ForAll(FALSE) /\ flag = ForAll(FALSE)
    /\ size = ForAll(Configured) /\ cut = ForAll(Uncut)
    /\ rest = ForAll(<<>>)
    /\ lstep = ForAll(0) /\ windows = ForAll(0) /\ saves = ForAll(0) /\ epoch = ForAll(0)
    /\ seen = Unseen
    /\ ckpt = [seen |-> Unseen, epoch |-> 0, offset |-> NoOffset]
    /\ lives = 1

\* The loop has done its number of windows, and ends without asking others.
AtLimit(r) == limit /= None /\ ds[r] = FirstDataset /\ windows[r] >= limit

WindowLimit(r) ==
    /\ pc[r] = "window" /\ AtLimit(r)
    /\ pc' = [pc EXCEPT ![r] = "epoch_end"]
    /\ UNCHANGED <<job, local, seen, ckpt, lives>>

\* A dataset that cannot be read after a reset raises; the job is lost.
NextWindowRaises(r) ==
    /\ pc[r] = "window" /\ ~AtLimit(r)
    /\ reset[r] /\ ~ReusableAfterReset(kind)
    /\ pc' = ForAll("failed")
    /\ UNCHANGED <<job, local, seen, ckpt, lives>>

\* _shard_window_paths runs when a dataset has no _window_paths, after a start
\* and after a reset.  Each time it divides the batch size it finds.
SizeOfWindow(r) ==
    LET d == ds[r] IN IF kind = "lake" \/ cut[r][d] THEN size[r][d] ELSE CeilDiv(size[r][d], Total)

\* pack: the rows of a window in batches, the last one smaller.  A batch is the
\* set of its rows.
Batches(rows, n) ==
    [k \in 1 .. CeilDiv(Len(rows), n) |-> {rows[i] : i \in {j \in DOMAIN rows : (j - 1) \div n = k - 1}}]

\* get_new_window_iter: skips windows without data, then opens one.  A lake
\* stream has no end: the loop stays in it until there is data.
NextWindow(r) ==
    /\ pc[r] = "window" /\ ~AtLimit(r)
    /\ reset[r] => ReusableAfterReset(kind)
    /\ LET n == FirstWindow(kind, data[r], offset[r][Cell(ds[r])] + 1)
           out == n > Len(data[r])
       IN  /\ out => kind /= "lake"
           /\ flag' = [flag EXCEPT ![r] = out]
           /\ offset' = [offset EXCEPT ![r][Cell(ds[r])] = IF out THEN Len(data[r]) ELSE n]
           /\ rest' = [rest EXCEPT ![r] = IF out THEN <<>> ELSE Batches(data[r][n], SizeOfWindow(r))]
    /\ size' = [size EXCEPT ![r][ds[r]] = SizeOfWindow(r)]
    /\ cut' = [cut EXCEPT ![r][ds[r]] = TRUE]
    /\ lstep' = [lstep EXCEPT ![r] = 0]
    /\ pc' = [pc EXCEPT ![r] = "window_flag"]
    /\ UNCHANGED <<job, ds, reset, windows, saves, epoch, seen, ckpt, lives>>

\* The loop over the batches: sync_exit_flag takes the maximum.
ExitFlag == \E r \in Ranks : flag[r]

\* The ranks agree on whether to read this window.  After a window of training
\* in train_and_evaluate the hooks of that window run only now.
SyncWindow ==
    /\ AtAll("window_flag")
    /\ pc' = IF ExitFlag THEN ForAll("epoch_end")
             ELSE [r \in Ranks |-> IF mode = "train_eval" /\ ds[r] = "eval" THEN "after_window" ELSE "step"]
    /\ UNCHANGED <<job, local, seen, ckpt, lives>>

\* Mutant: a rank without data leaves on its own.
NextBatchAlone(r) ==
    /\ pc[r] = "step" /\ (MaxSteps = None \/ lstep[r] < MaxSteps)
    /\ flag' = [flag EXCEPT ![r] = FALSE]
    /\ pc' = [pc EXCEPT ![r] = IF rest[r] = <<>> THEN "window_end" ELSE "step_flag"]
    /\ UNCHANGED <<job, ds, offset, reset, size, cut, rest, lstep, windows, saves, epoch, seen, ckpt, lives>>

\* next() of the end-marking iterator: a batch, or the mark that there is none.
NextBatch(r) ==
    /\ pc[r] = "step" /\ (MaxSteps = None \/ lstep[r] < MaxSteps)
    /\ flag' = [flag EXCEPT ![r] = rest[r] = <<>>]
    /\ pc' = [pc EXCEPT ![r] = "step_flag"]
    /\ UNCHANGED <<job, ds, offset, reset, size, cut, rest, lstep, windows, saves, epoch, seen, ckpt, lives>>

\* Mutant: the limit on steps is passed by one.
StepLimitLate(r) ==
    /\ pc[r] = "step" /\ MaxSteps /= None /\ lstep[r] > MaxSteps
    /\ pc' = [pc EXCEPT ![r] = "window_end"]
    /\ UNCHANGED <<job, local, seen, ckpt, lives>>

StepLimit(r) ==
    /\ pc[r] = "step" /\ MaxSteps /= None /\ lstep[r] >= MaxSteps
    /\ pc' = [pc EXCEPT ![r] = "window_end"]
    /\ UNCHANGED <<job, local, seen, ckpt, lives>>

SyncStep ==
    /\ AtAll("step_flag")
    /\ pc' = ForAll(IF ExitFlag THEN "window_end" ELSE "work")
    /\ UNCHANGED <<job, local, seen, ckpt, lives>>

\* Forward, and in training backward and the optimizers: the ranks exchange
\* rows and gradients, and all weights see the batches of all ranks.
Work ==
    /\ AtAll("work")
    /\ seen' = [e \in EpochSet |-> [x \in Rows |->
                  seen[e][x] + Cardinality({r \in Ranks : ds[r] = "train" /\ epoch[r] = e /\ x \in Head(rest[r])})]]
    /\ rest' = [r \in Ranks |-> Tail(rest[r])]
    /\ lstep' = [r \in Ranks |-> lstep[r] + 1]
    /\ pc' = ForAll("step")
    /\ UNCHANGED <<job, ds, offset, reset, size, cut, flag, windows, saves, epoch, ckpt, lives>>

\* The loop over a window's batches has ended.
WindowEnd(r) ==
    /\ pc[r] = "window_end"
    /\ pc' = [pc EXCEPT ![r] = IF mode = "train" THEN "after_window" ELSE "window"]
    /\ ds' = [ds EXCEPT ![r] = IF mode = "train_eval" /\ ds[r] = "train" THEN "eval" ELSE FirstDataset]
    /\ windows' = [windows EXCEPT ![r] = IF ds[r] = "eval" THEN @ + 1 ELSE @]
    /\ UNCHANGED <<job, offset, reset, size, cut, rest, flag, lstep, saves, epoch, seen, ckpt, lives>>

\* Where a rank goes on after the hooks of a window of training.
AfterHooks(r) == IF mode = "train_eval" THEN "step" ELSE "window"

\* after_window of the checkpoint hook, and the count of windows.
AfterWindow(r) ==
    /\ pc[r] = "after_window"
    /\ saves' = [saves EXCEPT ![r] = @ + 1]
    /\ windows' = [windows EXCEPT ![r] = IF mode = "train" THEN @ + 1 ELSE @]
    /\ pc' = [pc EXCEPT ![r] = IF saves'[r] % SaveWindows = 0 THEN "save" ELSE AfterHooks(r)]
    /\ UNCHANGED <<job, ds, offset, reset, size, cut, rest, flag, lstep, epoch, seen, ckpt, lives>>

\* Mutant: the save leaves the offset of the training windows out.
SaveWithoutOffset ==
    /\ AtAll("save")
    /\ ckpt' = [seen |-> seen, epoch |-> epoch[0], offset |-> ckpt.offset]
    /\ pc' = [r \in Ranks |-> AfterHooks(r)]
    /\ UNCHANGED <<job, local, seen, lives>>

\* Saver.save on all ranks; the offsets in extra.pt are those of rank 0.
Save ==
    /\ AtAll("save")
    /\ ckpt' = [seen |-> seen, epoch |-> epoch[0],
                offset |-> [d \in {"train", "eval"} |-> offset[0][Cell(d)]]]
    /\ pc' = [r \in Ranks |-> AfterHooks(r)]
    /\ UNCHANGED <<job, local, seen, lives>>

\* The end of an epoch: the datasets are reset, the hooks count the epoch.
EpochEnd(r) ==
    /\ pc[r] = "epoch_end" /\ mode /= "eval"
    /\ offset' = [offset EXCEPT ![r] =
                    [d \in {"train", "eval"} |-> IF d = "train" \/ mode = "train_eval" THEN 0 ELSE @[d]]]
    /\ cut' = [cut EXCEPT ![r] =
                 [d \in {"train", "eval"} |-> IF d = "train" \/ mode = "train_eval" THEN FALSE ELSE @[d]]]
    /\ reset' = [reset EXCEPT ![r] = TRUE]
    /\ epoch' = [epoch EXCEPT ![r] = @ + 1]
    /\ windows' = [windows EXCEPT ![r] = 0]
    /\ ds' = [ds EXCEPT ![r] = "train"]
    /\ pc' = [pc EXCEPT ![r] = IF epoch'[r] < Epochs THEN "window" ELSE "done"]
    /\ UNCHANGED <<job, size, rest, flag, lstep, saves, seen, ckpt, lives>>

EvaluationEnd(r) ==
    /\ pc[r] = "epoch_end" /\ mode = "eval"
    /\ pc' = [pc EXCEPT ![r] = "done"]
    /\ UNCHANGED <<job, local, seen, ckpt, lives>>

Crash ==
    /\ lives < MaxLives /\ ~AtAll("done") /\ ~AtAll("failed") /\ ~AtAll("down")
    /\ pc' = ForAll("down")
    /\ UNCHANGED <<job, local, seen, ckpt, lives>>

\* A new start of all ranks from the last checkpoint.
Resume ==
    /\ AtAll("down")
    /\ UNCHANGED <<job, ckpt>>
    /\ lives' = lives + 1
    /\ seen' = ckpt.seen
    /\ ds' = ForAll(FirstDataset)
    /\ offset' = ForAll(ckpt.offset)
    /\ reset' = ForAll(FALSE) /\ flag' = ForAll(FALSE)
    /\ size' = ForAll(Configured) /\ cut' = ForAll(Uncut)
    /\ rest' = ForAll(<<>>)
    /\ lstep' = ForAll(0) /\ windows' = ForAll(0) /\ saves' = ForAll(0) /\ epoch' = ForAll(ckpt.epoch)
    /\ pc' = ForAll(IF ckpt.epoch < Epochs THEN "window" ELSE "done")

RankStep(r) ==
    \/ WindowLimit(r) \/ NextWindowRaises(r) \/ NextWindow(r) \/ NextBatch(r) \/ StepLimit(r)
    \/ WindowEnd(r) \/ AfterWindow(r) \/ EpochEnd(r) \/ EvaluationEnd(r)

Together == SyncWindow \/ SyncStep \/ Work \/ Save

LoopNext == (\E r \in Ranks : RankStep(r)) \/ Together \/ Crash \/ Resume

LoopSpec ==
    /\ LoopInit /\ [][LoopNext]_vars
    /\ \A r \in Ranks : WF_vars(RankStep(r))
    /\ WF_vars(Together) /\ WF_vars(Resume)

----------------------------------------------------------------------------
(* Properties.                                                              *)

\* Ranks never meet in different collectives, and none has left for good while
\* another waits for it: whichever rank runs out of windows or of batches
\* first, and whatever it skipped, all leave each loop at the same point.
CollectivesMatch ==
    \A r, q \in Ranks :
        pc[r] \in Collective /\ pc[q] \in Collective \cup {"done"} => pc[r] = pc[q]

\* The rows of the tables, the rows of a rank, and where a row is held.
HeldRows == {x \in Rows : x.row < Tables[x.table]}
RowsOf(r) == FlattenSeq(data[r])
HeldAt(x) == {h \in Ranks \X (1 .. Cardinality(HeldRows)) :
                 h[2] <= Len(RowsOf(h[1])) /\ RowsOf(h[1])[h[2]] = x}

\* Between them the windows of all ranks, their threads and their subprocesses
\* hold every row of every table once, and all ranks have as many windows.
WindowsPartitionTables ==
    kind /= "lake" =>
        /\ \A r \in Ranks : Len(data[r]) = Len(data[0]) /\ Len(RowsOf(r)) <= Cardinality(HeldRows)
        /\ \A x \in HeldRows : Cardinality(HeldAt(x)) = 1
        /\ \A r \in Ranks : ToSet(RowsOf(r)) \subseteq HeldRows

\* The plan: every window in batches of the size that the first sharding
\* leaves, and as many steps as the rank with the fewest batches has.
FirstSize == CeilDiv(BatchSize, Total)
PlannedBatches(r, n) == Batches(data[r][n], FirstSize)
PlannedSteps(n) ==
    Min({Len(PlannedBatches(r, n)) : r \in Ranks} \cup (IF MaxSteps = None THEN {} ELSE {MaxSteps}))

\* What is trained on in the first windows.
PlannedOf(n) == UNION {UNION {PlannedBatches(r, n)[i] : i \in 1 .. PlannedSteps(n)} : r \in Ranks}
PlannedRows(last) == UNION {PlannedOf(n) : n \in 1 .. last}

\* Between windows the weights have seen, in this epoch, exactly the planned
\* rows of the windows before the offset, once each, and in earlier epochs
\* those of all windows: what an uninterrupted job would have seen, however
\* often this one was restarted.  It holds where the batch size stays what the
\* first sharding makes it: when the total of the proportions divides a larger
\* one again after reset(), a later epoch takes fewer rows in as many steps.
TrainedAsPlanned ==
    LET due(e) == PlannedRows(IF e < epoch[0] THEN Len(data[0]) ELSE IF e = epoch[0] THEN offset[0]["train"] ELSE 0)
        between == \/ AtAll("done")
                   \/ AtAll("window") /\ ds = ForAll("train") /\ epoch = ForAll(epoch[0])
    IN  kind \in {"split", "row"} /\ mode /= "eval" /\ limit = None /\ between =>
            \A e \in EpochSet : seen[e] = [x \in Rows |-> IF x \in due(e) THEN 1 ELSE 0]

\* The job comes to an end, with all ranks: none waits for ever for a window
\* or in a collective.
JobComesToEnd == <>(AtAll("done") \/ AtAll("failed"))
=============================================================================
