SPECIFICATION CudaSpec
CONSTANTS
  MaxBatches = 2
  BufferSize = 1
INVARIANTS StorageHeld OutcomeIsTrue
PROPERTY NothingWaitsForever
CHECK_DEADLOCK FALSE
