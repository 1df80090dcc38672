\* Parameters by part, in the order of the module.
CONSTANTS
  MaxRuns = 3
  MaxCrashes = 1
  UncleanMax = 1
  MaxRows = 5
  FlushMax = 2
  AuditMax = 3
  MaxInsertFailures = 2
  ConfirmPolls = 2
  MaxPolls = 6
  MaxAcks = 2
  MaxLeaders = 2
  MaxEvents = 4
  BufferMax = 2
  MaxPerHour = 1
  Callers = {"c1", "c2"}
  PoolMax = 1
  MaxAttempts = 2
  MaxRetries = 1
  MaxFailures = 2
  MaxChecks = 2
  MaxSequence = 1
  NonceRange = 3
  MaxTime = 2
  MaxFalls = 1
  MaxIds = 5
  LoginWorkers = {"v1", "v2"}
  Accounts = {"a1", "a2"}
  MaxLogins = 3
  MaxTries = 1
  MaxCycles = 2
  Duration = 1
  Multiplier = 2
  Decrement = 1
  Incremental = TRUE
  MaxKeys = 1
  EntryTtl = 3
  LockTime = 4
  Viewers = {"u1", "u2"}
  QueueMax = 1
  FileMax = 1
  RowsMax = 1
  MaxErrors = 1
  Rolls = 1
  MaxLines = 3
  MaxStreams = 2
  MaxFaults = 1
  RateWorkers = {"v1"}
  Requests = {1, 2, 3}
  Limit = 2
  Window = 3
  RateTime = 7
SPECIFICATION MCSpec
INVARIANTS
  RunsAreKnown
  LogsAreWhole
  EscalationIsMailed
  AlertsAccounted
  LimitIsExact
  PoolIsSound
  QueryMeansPipeline
  IdsAreFresh
PROPERTIES
  LockHolds
CHECK_DEADLOCK FALSE
