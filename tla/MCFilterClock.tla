---------------------------- MODULE MCFilterClock ----------------------------
(***************************************************************************)
(* The step filter where evaluations come between the training steps, with  *)
(* the step counted as its documentation counts it: the trainer's global    *)
(* step.                                                                    *)
(***************************************************************************)
EXTENDS Hashtable, TLC

VARIABLE looked_up   \* history: the global step of an id's last training lookup

ClockInit == Init /\ looked_up = [id \in Ids |-> 0]

\* The rows that forward saves are those of the ids it looks up.
ClockNext ==
    /\ Next
    /\ looked_up' = [id \in Ids |->
                        IF \E s \in saved' : s.id = id /\ s.row # NullIndex
                        THEN global_step ELSE looked_up[id]]

ClockSpec == ClockInit /\ [][ClockNext]_<<vars, looked_up>>

\* The rule of GlobalStepFilterHookImpl's documentation: an entry is stale when
\* current_global_step - last_update_step > filter_step.  Evaluation steps
\* advance _global_step of the hook as well (HashTableFilterHook.after_step).
StaleByGlobalStep ==
    [][\A id \in Live : phase # "idle" /\ ids_map'[id] = NullIndex
          => global_step' - looked_up[id] > FilterStep]_vars

\* Ids are interchangeable.
Symmetry == Permutations(Ids)
=============================================================================
