---------------------------- MODULE MCTrainLoop ----------------------------
(* Two tables of 5 and 3 rows for two ranks, each half of a batch, so that   *)
(* the shares are uneven; a lake stream with a window that is empty for one  *)
(* of the ranks.                                                             *)
EXTENDS TrainLoop

MCTables == <<5, 3>>
MCProportions == <<<<1, 2>>, <<1, 2>>>>
MCWindowIters == {None, 1, 2}
MCLakeTimes == (0 .. 27) \ {6, 7}
============================================================================
