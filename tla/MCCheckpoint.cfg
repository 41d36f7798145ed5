SPECIFICATION FairSpec
CONSTANTS
    ShardNum = 2
    LastStep = 6
    EpochSteps = 3
    SaveSteps = 2
    SaveEpochs = TRUE
    MaxKeep = 3
    AtomicReplace = FALSE
    MaxLives = 3
INVARIANT NewestIsWhole
PROPERTIES JobEndsSaved ImplementsStore
CHECK_DEADLOCK FALSE
