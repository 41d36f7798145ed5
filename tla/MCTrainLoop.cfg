SPECIFICATION LoopSpec
CONSTANTS
    WorkerNum = 2
    Tables <- MCTables
    Proportions <- MCProportions
    ReadThreadsNum = 1
    SplitNum = 2
    RowNum = 2
    SubNum = 2
    LakeTimes <- MCLakeTimes
    LakeInterval = 4
    LakeStep = 4
    LakeRepeat = 2
    Epochs = 2
    MaxSteps = 2
    WindowIters <- MCWindowIters
    SaveWindows = 1
    SharedClass = FALSE
    LoopKinds = {"split", "row", "combo", "lake"}
    Modes = {"train", "eval", "train_eval"}
    BatchSize = 2
    MaxLives = 3
INVARIANT WindowsPartitionTables
INVARIANT CollectivesMatch
INVARIANT TrainedAsPlanned
PROPERTY JobComesToEnd
CHECK_DEADLOCK FALSE
