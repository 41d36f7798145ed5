SPECIFICATION Spec
CONSTANTS
  Parts = {"trace"}
  Teams <- MCTeams
  Steps = 3
  RetryCount = 2
  MaxFaults = 0
  MaxSlow = 1
  Pids = {1, 2, 3}
  LogRanks = {0}
  SockRanks = {1}
  Jobs <- MCNoJob
  MaxRotations = 1
  BodyCap = 1
  Peak <- MCPeak
  PeakUnit = 4
  MinCoverage = 99
  EvalRatio <- MCEvalRatio
  SampleSteps = 2
  UserNames <- MCUserNames
  Setups <- MCNoSetup
  SkipSteps = 1
  WarmupSteps = 1
  AutoSchedule <- MCAuto
  UserSchedule <- MCUser
  MaxSteps = 8
PROPERTY PutReturns
CHECK_DEADLOCK FALSE
