SPECIFICATION ClockSpec
CONSTANTS
  FreeBlockSize = 2
  IntMax = 7
  Ids = {a, b}
  BlockSize = 2
  MaxBatch = 2
  MaxRows = 3
  FilterStep = 2
  FilterInterval = 1
  GradAccumSteps = 1
  Interleaved = TRUE
  MaxSteps = 5
SYMMETRY Symmetry
PROPERTY StaleByGlobalStep
CHECK_DEADLOCK FALSE
