----------------------------- MODULE Checkpoint -----------------------------
(***************************************************************************)
(* The checkpoints of a training job: when the hooks save, what each rank   *)
(* writes and in which order, how rank 0 lists the checkpoint in the index  *)
(* file and evicts old ones, and how a restarted job finds its state        *)
(* (recis/framework/checkpoint_manager.py, recis/hooks/checkpoint_hooks.py, *)
(* the loop of recis/framework/trainer.py without windows).                 *)
(*                                                                          *)
(* A checkpoint's id is its step.  The content of a file is the state of    *)
(* the job that it holds: the mark of the training that led there, and the  *)
(* number of finished epochs.  The sparse parameters of a rank are one      *)
(* file, by what SaveBundle shows of them.  A crash ends every rank.        *)
(***************************************************************************)
EXTENDS Integers, Sequences, FiniteSets

CONSTANTS
    ShardNum,       \* ranks
    LastStep,       \* steps of the job
    EpochSteps,     \* steps of one pass over the data
    SaveSteps,      \* save_steps
    SaveEpochs,     \* save_epochs = 1, or None
    MaxKeep,        \* max_keep
    AtomicReplace,  \* a file opened for writing keeps its old content until closed
    MaxLives        \* bound on the starts of the job

Shards == 0 .. ShardNum - 1
Steps == 0 .. LastStep

ASSUME CheckpointAssumption ==
    /\ {ShardNum, EpochSteps, SaveSteps, MaxKeep, MaxLives} \subseteq Nat \ {0}
    /\ LastStep \in Nat
    /\ LastStep % EpochSteps = 0
    /\ {SaveEpochs, AtomicReplace} \subseteq BOOLEAN

VARIABLES
    hook,        \* the hook of the loop that is running, or the loop itself
    pc,          \* where each rank is in Saver.save
    step,        \* global_step
    state,       \* what the ranks would write: [mark, epoch]
    marks,       \* marks handed out so far
    versions,    \* _checkpoint_version_list of rank 0
    buffer,      \* rank 0: lines to be written to the index
    index,       \* the lines of the index file "checkpoint"
    file,        \* file[c][f]: content of file f of checkpoint c
    lives        \* starts of the job

vars == <<hook, pc, step, state, marks, versions, buffer, index, file, lives>>

Absent == [mark |-> 0, epoch |-> 0]

\* The files of a directory, in the order in which a rank writes them; those
\* after the first two are rank 0's.
Kinds == {"sparse", "io_state", "model", "extra", "io_state_count"}
Files == ({"sparse", "io_state"} \X Shards)
         \cup {<<k, 0>> : k \in {"model", "extra", "io_state_count"}}
Weights == Files \ ({"io_state"} \X Shards)

NoFiles == [f \in Files |-> Absent]

Newest(lines) == lines[Len(lines)]

Init ==
    /\ hook = "train"
    /\ pc = [s \in Shards |-> "idle"]
    /\ step = 0
    /\ state = [mark |-> 1, epoch |-> 0]
    /\ marks = 1
    /\ versions = <<>>
    /\ buffer = <<>>
    /\ index = <<>>
    /\ file = [c \in Steps |-> NoFiles]
    /\ lives = 1

Everyone(where) == pc = [s \in Shards |-> where]

----------------------------------------------------------------------------
(* The loop and its hooks.                                                  *)

\* What the loop turns to after a hook returned.
NextHook(h, n) ==
    CASE h = "after_step" /\ n % EpochSteps = 0 -> "reset"
      [] h = "after_epoch" /\ n = LastStep      -> "end"
      [] h = "end"                              -> "done"
      [] OTHER                                  -> "train"

\* Does CheckpointSaveHook save?
Due(h) ==
    \/ h = "after_step" /\ step % SaveSteps = 0
    \/ h = "after_epoch" /\ SaveEpochs
    \/ h = "end"

\* One turn of _train_loop_internal.
Train ==
    /\ hook = "train" /\ Everyone("idle")
    /\ step < LastStep
    /\ step' = step + 1
    /\ marks' = marks + 1
    /\ state' = [state EXCEPT !.mark = marks']
    /\ hook' = "after_step"
    /\ UNCHANGED <<pc, versions, buffer, index, file, lives>>

\* The data of an epoch is used up: the dataset is reset, and the hook's
\* after_epoch counts the epoch.
EndEpoch ==
    /\ hook = "reset" /\ Everyone("idle")
    /\ state' = [state EXCEPT !.epoch = @ + 1]
    /\ hook' = "after_epoch"
    /\ UNCHANGED <<pc, step, marks, versions, buffer, index, file, lives>>

\* A hook that saves, and one that does not.
StartSave ==
    /\ Due(hook) /\ Everyone("idle")
    /\ pc' = [s \in Shards |-> "sparse"]
    /\ UNCHANGED <<hook, step, state, marks, versions, buffer, index, file, lives>>

SkipSave ==
    /\ hook \in {"after_step", "after_epoch"} /\ ~Due(hook) /\ Everyone("idle")
    /\ hook' = NextHook(hook, step)
    /\ UNCHANGED <<pc, step, state, marks, versions, buffer, index, file, lives>>

----------------------------------------------------------------------------
(* Saver.save.                                                              *)

\* Mutant: rank 0 lists the checkpoint before its own files.
AfterWriteListFirst(s) ==
    [sparse         |-> "sparse_sync",
     io_state       |-> IF s = 0 THEN "open_index" ELSE "sync",
     model          |-> "extra",
     extra          |-> "io_state_count",
     io_state_count |-> "open_index"]

\* Where a rank goes after it wrote a file.
AfterWrite(s) ==
    [sparse         |-> "sparse_sync",
     io_state       |-> IF s = 0 THEN "model" ELSE "sync",
     model          |-> "extra",
     extra          |-> "io_state_count",
     io_state_count |-> "open_index"]

\* Rank s writes its next file: save_sparse_params, the io state, and on rank
\* 0 _save_rank0_states.
WriteFile(s) ==
    /\ pc[s] \in Kinds
    /\ file' = [file EXCEPT ![step][<<pc[s], s>>] = state]
    /\ pc' = [pc EXCEPT ![s] = AfterWrite(s)[pc[s]]]
    /\ UNCHANGED <<hook, step, state, marks, versions, buffer, index, lives>>

\* Mutant: only rank 0 keeps its position in the data.
SyncSparseRank0 ==
    /\ Everyone("sparse_sync")
    /\ pc' = [s \in Shards |-> IF s = 0 THEN "io_state" ELSE "sync"]
    /\ UNCHANGED <<hook, step, state, marks, versions, buffer, index, file, lives>>

\* sync_func at the end of save_sparse_params.
SyncSparse ==
    /\ Everyone("sparse_sync")
    /\ pc' = [s \in Shards |-> "io_state"]
    /\ UNCHANGED <<hook, step, state, marks, versions, buffer, index, file, lives>>

\* The index file opened for writing: its lines are gone unless the file
\* system keeps them until the new ones are there.
Truncated(lines) == IF AtomicReplace THEN lines ELSE <<>>

\* _update_ckpt_index: read, open and write the index.
OpenIndex ==
    /\ pc[0] = "open_index"
    /\ buffer' = Append(index, step)
    /\ index' = Truncated(index)
    /\ pc' = [pc EXCEPT ![0] = "write_index"]
    /\ UNCHANGED <<hook, step, state, marks, versions, file, lives>>

WriteIndex ==
    /\ pc[0] = "write_index"
    /\ index' = buffer
    /\ versions' = Append(versions, step)
    /\ pc' = [pc EXCEPT ![0] = IF Len(versions') > MaxKeep THEN "remove" ELSE "sync"]
    /\ UNCHANGED <<hook, step, state, marks, buffer, file, lives>>

\* _evict_old_ckpt: remove the directory, then read, open and write the index.
Remove ==
    /\ pc[0] = "remove"
    /\ file' = [file EXCEPT ![Head(versions)] = NoFiles]
    /\ pc' = [pc EXCEPT ![0] = "open_evicted"]
    /\ UNCHANGED <<hook, step, state, marks, versions, buffer, index, lives>>

\* The lines other than c, in their order.
Without(lines, c) ==
    LET kept == {i \in DOMAIN lines : lines[i] # c}
    IN  [j \in 1 .. Cardinality(kept) |->
           lines[CHOOSE i \in kept : Cardinality({k \in kept : k <= i}) = j]]

\* Mutant: the newest line is the one dropped.
OpenEvictedNewest ==
    /\ pc[0] = "open_evicted"
    /\ buffer' = Without(index, Newest(versions))
    /\ index' = Truncated(index)
    /\ pc' = [pc EXCEPT ![0] = "write_evicted"]
    /\ UNCHANGED <<hook, step, state, marks, versions, file, lives>>

OpenEvicted ==
    /\ pc[0] = "open_evicted"
    /\ buffer' = Without(index, Head(versions))
    /\ index' = Truncated(index)
    /\ pc' = [pc EXCEPT ![0] = "write_evicted"]
    /\ UNCHANGED <<hook, step, state, marks, versions, file, lives>>

WriteEvicted ==
    /\ pc[0] = "write_evicted"
    /\ index' = buffer
    /\ versions' = Tail(versions)
    /\ pc' = [pc EXCEPT ![0] = "sync"]
    /\ UNCHANGED <<hook, step, state, marks, buffer, file, lives>>

\* Mutant: rank 0 goes on without the others.
SyncSaveAlone ==
    /\ pc[0] = "sync"
    /\ pc' = [s \in Shards |-> IF pc[s] = "sync" THEN "idle" ELSE pc[s]]
    /\ hook' = NextHook(hook, step)
    /\ UNCHANGED <<step, state, marks, versions, buffer, index, file, lives>>

\* The last sync_func of save: the hook returns on every rank.
SyncSave ==
    /\ Everyone("sync")
    /\ pc' = [s \in Shards |-> "idle"]
    /\ hook' = NextHook(hook, step)
    /\ UNCHANGED <<step, state, marks, versions, buffer, index, file, lives>>

----------------------------------------------------------------------------
(* Crash and restart.                                                       *)

Crash ==
    /\ hook # "done" /\ \A w \in {"down", "failed", "astray"} : ~Everyone(w)
    /\ lives < MaxLives
    /\ pc' = [s \in Shards |-> "down"]
    /\ UNCHANGED <<hook, step, state, marks, versions, buffer, index, file, lives>>

\* maybe_get_latest_version finds no line: the job starts from scratch.
StartOver ==
    /\ Everyone("down") /\ index = <<>>
    /\ lives' = lives + 1
    /\ step' = 0
    /\ state' = [mark |-> 1, epoch |-> 0]
    /\ hook' = "train"
    /\ pc' = [s \in Shards |-> "idle"]
    /\ versions' = <<>>
    /\ UNCHANGED <<marks, buffer, index, file>>

Complete(c) == \A f \in Files : file[c][f] # Absent

\* The position in the data that each rank kept is one in the epoch that
\* extra.pt counts.
PositionFits(c) == \A s \in Shards : file[c][<<"io_state", s>>].epoch = file[c][<<"extra", 0>>].epoch

\* Saver.restore of the last line, on every rank.  The step and the number of
\* epochs come from extra.pt: an epoch whose end the checkpoint has not seen
\* ends again, since its data is used up.
Restore ==
    /\ Everyone("down") /\ index # <<>>
    /\ LET c == Newest(index)
           extra == file[c][<<"extra", 0>>]
       IN /\ Complete(c) /\ PositionFits(c)
          /\ step' = c
          /\ state' = extra
          /\ hook' = NextHook(IF c = extra.epoch * EpochSteps THEN "after_epoch" ELSE "after_step", c)
    /\ lives' = lives + 1
    /\ pc' = [s \in Shards |-> "idle"]
    /\ versions' = <<>>
    /\ UNCHANGED <<marks, buffer, index, file>>

\* A rank's position is one of another epoch: it starts in the wrong place of
\* its data, and the end of the epoch no longer falls on the steps that this
\* module knows.  Such a job is not followed further.
RestoreAstray ==
    /\ Everyone("down") /\ index # <<>>
    /\ LET c == Newest(index)
       IN /\ Complete(c) /\ ~PositionFits(c)
          /\ step' = c
          /\ state' = file[c][<<"extra", 0>>]
    /\ lives' = lives + 1
    /\ pc' = [s \in Shards |-> "astray"]
    /\ versions' = <<>>
    /\ UNCHANGED <<hook, marks, buffer, index, file>>

\* _load_extra_params does not find a file and raises.
RestoreFails ==
    /\ Everyone("down") /\ index # <<>> /\ ~Complete(Newest(index))
    /\ pc' = [s \in Shards |-> "failed"]
    /\ UNCHANGED <<hook, step, state, marks, versions, buffer, index, file, lives>>

Rank0Index == OpenIndex \/ WriteIndex \/ Remove \/ OpenEvicted \/ WriteEvicted
Loop == Train \/ EndEpoch \/ StartSave \/ SkipSave
Syncs == SyncSparse \/ SyncSave
Restart == StartOver \/ Restore \/ RestoreAstray \/ RestoreFails

Next ==
    \/ Loop
    \/ \E s \in Shards : WriteFile(s)
    \/ Syncs
    \/ Rank0Index
    \/ Crash
    \/ Restart

Spec == Init /\ [][Next]_vars

\* A job that runs goes on, and a dead one is restarted by its scheduler.
Fairness ==
    /\ WF_vars(Loop) /\ WF_vars(Syncs) /\ WF_vars(Rank0Index) /\ WF_vars(Restart)
    /\ \A s \in Shards : WF_vars(WriteFile(s))

FairSpec == Spec /\ Fairness

----------------------------------------------------------------------------
(* Properties.                                                              *)

Contents == [mark : Nat, epoch : Nat]

\* Type invariant of the job and its directory.
TypeOK ==
    /\ hook \in {"train", "after_step", "reset", "after_epoch", "end", "done"}
    /\ pc \in [Shards -> Kinds \cup {"idle", "sparse_sync", "open_index", "write_index", "remove",
                                     "open_evicted", "write_evicted", "sync", "down", "failed", "astray"}]
    /\ step \in Steps
    /\ state \in Contents
    /\ marks \in Nat
    /\ versions \in Seq(Steps) /\ Len(versions) <= MaxKeep + 1
    /\ buffer \in Seq(Steps)
    /\ index \in Seq(Steps)
    /\ file \in [Steps -> [Files -> Contents]]
    /\ lives \in Nat

\* save_steps falls on the end of an epoch: after_step and after_epoch (or the
\* end of the job) save under one id, the one before the epoch is counted, the
\* other behind it.
Twice(c) == c % EpochSteps = 0 /\ c % SaveSteps = 0

\* The weights of one checkpoint are there and of one moment of one training,
\* although the ranks write them one by one and crashed jobs leave pieces.
OneMoment(c) ==
    \E m \in 1 .. marks : \A f \in Weights : file[c][f].mark = m

\* Whatever was being saved or evicted when a job died, the newest line of the
\* index names weights that are there and of one moment, and a reader's
\* position, in a file of its own, belongs to the epochs that were counted,
\* but for a step that is saved twice: a job that dies in the second of these
\* saves leaves files of both.  While nothing is being saved no file is missing:
\* only a job that dies between rank 0's line and the positions of the others
\* leaves one out.
NewestIsWhole ==
    index # <<>> =>
        LET c == Newest(index) IN
        /\ OneMoment(c)
        /\ ~Twice(c) =>
              \A s \in Shards : file[c][<<"io_state", s>>] # Absent =>
                 file[c][<<"io_state", s>>].epoch = file[c][<<"extra", 0>>].epoch
        /\ Everyone("idle") => Complete(c)

\* The job ends with its last step as the last checkpoint, or a restart gives
\* up because a file is missing, or goes astray after a step that was saved
\* twice: nobody waits for ever at a barrier, and no eviction takes away what
\* the end of the job saved.
JobEndsSaved ==
    <>(\/ hook = "done" /\ index # <<>> /\ Newest(index) = LastStep
       \/ Everyone("failed")
       \/ Everyone("astray") /\ Twice(step))

Fresh == [step |-> 0, mark |-> 1]

Store == INSTANCE CheckpointStore WITH
    Atomic    <- AtomicReplace,
    now       <- [step |-> step, mark |-> state.mark],
    latest    <- IF index = <<>> THEN Fresh
                 ELSE [step |-> Newest(index), mark |-> file[Newest(index)][<<"model", 0>>].mark],
    replacing <- pc[0] \in {"write_index", "write_evicted"}

\* The checkpoints keep what CheckpointStore promises: the durable state is in
\* doubt only between the opening of the index and its new lines.
ImplementsStore == Store!Spec
=============================================================================
