--------------------------- MODULE CheckpointStore ---------------------------
(***************************************************************************)
(* What the checkpoints promise the training job, and nothing of how: a job *)
(* that dies goes on from the durable state, which changes only when a save *)
(* replaces it by the present one, while the job stands still.  A job that  *)
(* dies in between finds the state before the replacement, or none where    *)
(* the storage does not replace at once.  A state is a step and the mark of *)
(* the training that led to it, so that two runs through the same step are  *)
(* told apart.                                                              *)
(***************************************************************************)
EXTENDS Naturals

CONSTANTS
    Fresh,   \* the state before the first step
    Atomic   \* the storage keeps the old state until it has the new one

VARIABLES
    now,       \* the state in memory
    latest,    \* the durable state
    replacing  \* a save is replacing the durable state

vars == <<now, latest, replacing>>

Init == now = Fresh /\ latest = Fresh /\ replacing = FALSE

\* Training takes the job one step on.
Train == ~replacing /\ now'.step = now.step + 1 /\ UNCHANGED <<latest, replacing>>

\* A save begins to replace the durable state.
Begin ==
    /\ ~replacing /\ replacing' = TRUE
    /\ latest' = IF Atomic THEN latest ELSE Fresh
    /\ UNCHANGED now

\* The present state is the durable one.
Publish == replacing /\ replacing' = FALSE /\ latest' = now /\ UNCHANGED now

\* The job dies while it replaces the durable state.
Fail == replacing /\ replacing' = FALSE /\ UNCHANGED <<now, latest>>

\* A restarted job is in the durable state.
Resume == ~replacing /\ now' = latest /\ UNCHANGED <<latest, replacing>>

Next == Train \/ Begin \/ Publish \/ Fail \/ Resume

Spec == Init /\ [][Next]_vars
=============================================================================
