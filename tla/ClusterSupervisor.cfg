SPECIFICATION FairSpec
CONSTANTS
  NumWorkers = 2
  CrashLoopMax = 2
  MaxCrashes = 3
  MaxForkFailures = 1
INVARIANTS
  TypeOK
  OneLeaderSlot
  LeaderlessIsLoud
  DegradedKeepsLeader
  PoolAccounted
  StopIsOrderly
  NoOrphans
PROPERTIES
  StopIsFinal
  ImplementsLeadership
  StopEnds
  LeaderReturns
CHECK_DEADLOCK FALSE
