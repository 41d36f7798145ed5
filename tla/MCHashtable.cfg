SPECIFICATION MCSpec
CONSTANTS
  FreeBlockSize = 2
  IntMax = 7
  Ids = {a, b, c}
  BlockSize = 2
  MaxBatch = 3
  MaxRows = 3
  FilterStep = 1
  FilterInterval = 1
  GradAccumSteps = 2
  Interleaved = FALSE
  MaxSteps = 4
SYMMETRY Symmetry
INVARIANTS RowsAccounted RowsHoldOwnValues
PROPERTY EvictsOnlyStale
CHECK_DEADLOCK FALSE
