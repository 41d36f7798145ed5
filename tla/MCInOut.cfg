SPECIFICATION JobSpec
CONSTANTS
  MaxItems = 4
  BufferSize = 2
  Batches = 4
  Epochs = 2
  Ahead = 2
  MaxLives = 3
  ShardNum = 2
  Parallel = 2
  BlockNum <- MCBlockNum
  MaxAttempts = 3
  Tables = {"t1", "t2"}
  Slots = {"emb", "avg"}
  Params = {"d1", "d2"}
  Tensors = {}
  Coalesced <- MCCoalesced
  Runtime <- MCRuntime
  StartsWith <- MCStartsWith
  Banks <- MCBanks
  OutputDir = "out"
  Holds <- MCHolds
  IdsOf <- MCIdsOf
  Uneven = {"D"}
  MaxVersion = 2
  MaxUpdates = 2
INVARIANTS InputNotShared ClosedIsQuiescent NeverTwice LossBounded SaveIsSafe BankPrecedence OptimizerFollows
PROPERTIES RefinesStream CallsReturn SaveEnds UpdateTouchesOnlyDynamic
CHECK_DEADLOCK FALSE
