SPECIFICATION IoSpec
CONSTANTS
    Batches = 3
    Epochs = 1
    Ahead = 1
    MaxLives = 2
INVARIANTS EveryBatchTrained
CHECK_DEADLOCK FALSE
