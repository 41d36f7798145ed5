\* Every plan, two calls of the engine, two indexings of every result; one
\* training step and an evaluation with another number of ranks, each for
\* batches with all features in two orders and with all but the first.
SPECIFICATION Spec
CONSTANTS
  Plans <- ThePlans
  Batches <- TheBatches
  MaxForwards = 2
  IndexKeys <- TheKeys
  MaxIndexings = 2
  SliceSize = 4
  IdBound = 8
  Unit = 12
  Configs <- MCConfigs
  Inputs <- MCInputs
  Worlds = {2, 3}
  Loads <- MCLoads
INVARIANTS
  
  IndexedAsNestedList
  PaddedIndexFindsSource
  LookupIsExact
  GradientsAreExact
  RowsWhereLookedFor
CHECK_DEADLOCK FALSE
