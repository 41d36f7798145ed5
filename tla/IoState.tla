------------------------------ MODULE IoState ------------------------------
(***************************************************************************)
(* How one rank's reader survives a restart: the dataset's io state, which *)
(* is flushed into every checkpoint and loaded from it (recis/io/          *)
(* dataset_base.py, recis/io/state_dataset.py), under the epochs of the    *)
(* training loop and in front of a prefetcher that reads ahead.            *)
(*                                                                         *)
(* The weights are what they were trained on: for each epoch and batch, how *)
(* often.  A checkpoint is taken as a whole here; Checkpoint has its parts. *)
(***************************************************************************)
EXTENDS Integers, FiniteSets

CONSTANTS
    Batches,    \* batches of one pass over the rank's data
    Epochs,     \* train_epoch
    Ahead,      \* batches that prefetching takes from the reader before they
                \* are trained on: 0 without it
    MaxLives    \* bound on the starts of the job

ASSUME IoStateAssumption ==
    /\ {Batches, Epochs, MaxLives} \subseteq Nat \ {0}
    /\ Ahead \in Nat

VARIABLES
    place,        \* where the training loop is
    epoch,        \* epochs ended
    pos,          \* the reader's position: batches it has handed out
    next,         \* the batch that the loop takes next
    seen,         \* seen[e][b]: how often the weights saw batch b in epoch e
    io_state,     \* _io_state: a position, or empty
    load_states,  \* _load_states: a position, or None
    ckpt,         \* the checkpoint a restart uses
    lives         \* starts of the job

ioVars == <<place, epoch, pos, next, seen, io_state, load_states, ckpt, lives>>

Empty == -1
Positions == 0 .. Batches
EpochSet == 0 .. Epochs - 1
BatchSet == 0 .. Batches - 1

Unseen == [e \in EpochSet |-> [b \in BatchSet |-> 0]]

IoInit ==
    /\ place = "iter"
    /\ epoch = 0
    /\ pos = 0 /\ next = 0
    /\ seen = Unseen
    /\ io_state = Empty /\ load_states = Empty
    /\ ckpt = [seen |-> Unseen, epoch |-> 0, io |-> Empty]
    /\ lives = 1

\* iter(dataset): a new reader, moved to the loaded position if there is one.
Iter ==
    /\ place = "iter"
    /\ pos' = IF load_states = Empty THEN 0 ELSE load_states
    /\ next' = pos'
    /\ io_state' = pos'
    /\ place' = "loop"
    /\ UNCHANGED <<epoch, seen, load_states, ckpt, lives>>

\* Mutant: the prefetcher takes one batch more than it may hold.
ReadAheadTooFar ==
    /\ place \in {"loop", "after_step"}
    /\ pos < Batches /\ pos - next <= Ahead
    /\ pos' = pos + 1
    /\ UNCHANGED <<place, epoch, next, seen, io_state, load_states, ckpt, lives>>

\* The prefetcher takes a batch from the reader, at any time.
ReadAhead ==
    /\ place \in {"loop", "after_step"}
    /\ pos < Batches /\ pos - next < Ahead
    /\ pos' = pos + 1
    /\ UNCHANGED <<place, epoch, next, seen, io_state, load_states, ckpt, lives>>

\* One step of training, on a batch read ahead or read now.
TrainStep ==
    /\ place = "loop" /\ next < Batches
    /\ seen' = [seen EXCEPT ![epoch][next] = @ + 1]
    /\ next' = next + 1
    /\ pos' = IF pos = next THEN pos + 1 ELSE pos
    /\ place' = "after_step"
    /\ UNCHANGED <<epoch, io_state, load_states, ckpt, lives>>

\* The checkpoint that holds a given io state.
Snapshot(io) == [seen |-> seen, epoch |-> epoch, io |-> io]

\* Mutant: the io state is saved without the flush.
SaveAfterStepStale ==
    /\ place = "after_step"
    /\ ckpt' = Snapshot(io_state)
    /\ place' = "loop"
    /\ UNCHANGED <<epoch, pos, next, seen, io_state, load_states, lives>>

\* after_step with a save: the reader's live position is flushed first.
SaveAfterStep ==
    /\ place = "after_step"
    /\ io_state' = pos
    /\ ckpt' = Snapshot(io_state')
    /\ place' = "loop"
    /\ UNCHANGED <<epoch, pos, next, seen, load_states, lives>>

SkipAfterStep ==
    /\ place = "after_step"
    /\ place' = "loop"
    /\ UNCHANGED <<epoch, pos, next, seen, io_state, load_states, ckpt, lives>>

\* The data is used up: reset() drops the io state, and the epoch is counted.
EndEpoch ==
    /\ place = "loop" /\ next = Batches
    /\ io_state' = Empty
    /\ epoch' = epoch + 1
    /\ place' = "after_epoch"
    /\ UNCHANGED <<pos, next, seen, load_states, ckpt, lives>>

AfterEpoch == IF epoch < Epochs THEN "iter" ELSE "end"

\* after_epoch with a save: the flush goes to the dictionary that reset() has
\* replaced, so that the io state stays empty.
SaveAfterEpoch ==
    /\ place = "after_epoch"
    /\ ckpt' = Snapshot(io_state)
    /\ place' = AfterEpoch
    /\ UNCHANGED <<epoch, pos, next, seen, io_state, load_states, lives>>

SkipAfterEpoch ==
    /\ place = "after_epoch"
    /\ place' = AfterEpoch
    /\ UNCHANGED <<epoch, pos, next, seen, io_state, load_states, ckpt, lives>>

\* end: a last save.
SaveAtEnd ==
    /\ place = "end"
    /\ ckpt' = Snapshot(io_state)
    /\ place' = "done"
    /\ UNCHANGED <<epoch, pos, next, seen, io_state, load_states, lives>>

Crash ==
    /\ place \notin {"down", "done"} /\ lives < MaxLives
    /\ place' = "down"
    /\ UNCHANGED <<epoch, pos, next, seen, io_state, load_states, ckpt, lives>>

\* A new process restores the weights, the epochs and, if there is one, the
\* position.
Resume ==
    /\ place = "down"
    /\ lives' = lives + 1
    /\ seen' = ckpt.seen
    /\ epoch' = ckpt.epoch
    /\ load_states' = ckpt.io
    /\ io_state' = Empty
    /\ pos' = 0 /\ next' = 0
    /\ place' = IF ckpt.epoch < Epochs THEN "iter" ELSE "end"
    /\ UNCHANGED ckpt

IoNext ==
    \/ Iter \/ ReadAhead \/ TrainStep \/ SaveAfterStep \/ SkipAfterStep
    \/ EndEpoch \/ SaveAfterEpoch \/ SkipAfterEpoch \/ SaveAtEnd
    \/ Crash \/ Resume

IoSpec == IoInit /\ [][IoNext]_ioVars

----------------------------------------------------------------------------
(* Properties.                                                              *)

Weights == [EpochSet -> [BatchSet -> Nat]]

\* Type invariant of the reader and the loop.
IoTypeOK ==
    /\ place \in {"iter", "loop", "after_step", "after_epoch", "end", "done", "down"}
    /\ epoch \in 0 .. Epochs
    /\ pos \in Positions /\ next \in Positions /\ pos - next \in 0 .. Ahead
    /\ seen \in Weights
    /\ io_state \in Positions \cup {Empty}
    /\ load_states \in Positions \cup {Empty}
    /\ ckpt \in [seen : Weights, epoch : 0 .. Epochs, io : Positions \cup {Empty}]
    /\ lives \in Nat

\* The weights never saw a batch twice in one epoch, whatever was saved when
\* and however often the job was restarted.
NeverTwice == \A e \in EpochSet : \A b \in BatchSet : seen[e][b] <= 1

\* The batches of any epoch that the loop has passed without training, behind
\* one of that epoch that was trained on.
Passed(e, b) ==
    \/ e < epoch
    \/ e = epoch /\ place \in {"loop", "after_step"} /\ b < next

Skipped ==
    {m \in EpochSet \X BatchSet :
        /\ Passed(m[1], m[2]) /\ seen[m[1]][m[2]] = 0
        /\ \E b \in 0 .. m[2] - 1 : seen[m[1]][b] > 0}

\* Over all epochs of the job, the batches that are skipped in the middle of an
\* epoch are no more than what each restart had read ahead.  The front of an
\* epoch is another matter: see ResetReusesData.
LossBounded == place # "down" => Cardinality(Skipped) <= (lives - 1) * Ahead

\* reset() "resets the io state, allowing the dataset to be reused from the
\* beginning": a reader made after the data was used up starts at the first
\* batch.  It keeps _load_states, so that each later epoch of a resumed job
\* starts at the position the job was resumed from.
ResetReusesData == [][Iter /\ pos # 0 => pos' = 0]_ioVars

\* A job that has ended has trained on all of its data in every epoch, as if
\* it had never been interrupted.
EveryBatchTrained ==
    place = "done" => \A e \in EpochSet : \A b \in BatchSet : seen[e][b] = 1
=============================================================================
