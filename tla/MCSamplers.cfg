SPECIFICATION Spec
CONSTANTS
  Clients = {c1, c2}
  Loader = c1
  Threads = {t1, t2}
  Tables <- MCTables
  Columns <- MCColumns
  Batches <- MCBatches
  DefaultId = 0
  PutBack = TRUE
  AvoidAll = FALSE
  MaxTimeouts = 1
  World = 2
  Shards <- MCShards
  Features <- MCFeatures
  Width <- MCWidth
  Queries <- MCQueries
  DefaultUnit = 0
  MaxPacks = 3
INVARIANT ReadersKeepTheirTable
INVARIANT BatchesAreRight
INVARIANT ShardsAnswerExactly
PROPERTY CallsServed
CHECK_DEADLOCK FALSE
