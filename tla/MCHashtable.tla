----------------------------- MODULE MCHashtable -----------------------------
(***************************************************************************)
(* One table under the two settings in which it is safe: gradients that    *)
(* are accumulated over several steps, and no evaluation or clear between  *)
(* them; or evaluations and clears anywhere, and no accumulation.          *)
(***************************************************************************)
EXTENDS Hashtable, TLC

VARIABLE setting   \* "accumulated" or "interleaved"

Between == INSTANCE Hashtable WITH GradAccumSteps <- 1, Interleaved <- TRUE

MCInit == Init /\ setting \in {"accumulated", "interleaved"}

Accumulated ==
    \/ \E batch \in Batches : \E readonly \in BOOLEAN : Forward(batch, readonly)
    \/ Backward \/ OptimizerStep \/ AfterTrainStep
    \/ \E batch \in Batches : Insert(batch)

MCNext ==
    /\ \/ setting = "accumulated" /\ Accumulated
       \/ setting = "interleaved" /\ Between!Next
    /\ UNCHANGED setting

\* Ids are interchangeable.
Symmetry == Permutations(Ids)

MCSpec == MCInit /\ [][MCNext]_<<vars, setting>>
=============================================================================
