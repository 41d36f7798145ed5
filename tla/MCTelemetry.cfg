SPECIFICATION Spec
CONSTANTS
  Parts = {"trace", "collector", "observers"}
  Teams <- MCTeams
  Steps = 3
  RetryCount = 2
  MaxFaults = 2
  MaxSlow = 1
  Pids = {1, 2, 3}
  LogRanks = {0}
  SockRanks = {1}
  Jobs <- MCJobs
  MaxRotations = 1
  BodyCap = 1
  Peak <- MCPeak
  PeakUnit = 4
  MinCoverage = 99
  EvalRatio <- MCEvalRatio
  SampleSteps = 2
  UserNames <- MCUserNames
  Setups <- MCSetups
  SkipSteps = 1
  WarmupSteps = 1
  AutoSchedule <- MCAuto
  UserSchedule <- MCUser
  MaxSteps = 8
INVARIANT TraceAccounted
INVARIANT OneCollector
INVARIANT ReportedAsWritten
INVARIANT StartupSettled
INVARIANT MfuIsLowerBound
PROPERTY TraceEnds
CHECK_DEADLOCK FALSE
