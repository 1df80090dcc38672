CONSTANTS
  Workers = {1, 2, 3}
  Spares = {3}
  Families = {"k1", "k2"}
  Lifetime = 3
  Threshold = 2
  Slack = 1
  MaxDelay = 1
  MaxEntries = 1
  MaxReports = 3
  MaxClock = 5
  EndedKeys = {"k2"}
  MaxEnds = 2
  Voters = {1, 2, 3}
  VoteCalls = 5
  Accounts = {"a1", "a2"}
  AdminCalls = {1, 2}
  Roles = {"SUPER_ADMIN", "USER"}
  Ops = {"role", "flags", "delete", "revoke", "reset", "change", "upgrade", "sign", "add"}
  MaxTokens = 1
  PurgeKeys = {1}
  PageSize = 1
  PurgeCalls = {1, 2, 3}
  MaxPk = 3
  MaxVersion = 2
  MaxBackups = 1
  Tabs = {"b1"}
  MaxFlips = 2
  MaxStops = 1
  MaxCuts = 1
  Views = {"p1"}
  PageKeys = {"k1", "k2"}
  ReadOnly = {"k2"}
  NoKey = "none"
  MaxOpen = 2
  MaxWrites = 2
  Stores = {1, 2}
  Makers = {1}
  BackupTables = {"t1"}
  Kinds = {"SCHEDULED"}
  FullEvery = 3
  MaxRuns = 3
  MaxSeconds = 1
  MaxChanges = 1
  MaxFaults = 1
  MaxDeletes = 1
  Backups = {"c1", "c2"}
  Brief = {"c1"}
  Limits = {2, 3}
  GuardLimit = 2
  Cap = 3
  StaleAfter = 5
  StallFactor = 1
  MaxStalls = 1
SPECIFICATION Spec
INVARIANTS
  MirrorsAgree
  ChainIsWhole
  MajorityRules
  AdminsGuarded
  
  CutsAreSound
  ScreensAreRight
CHECK_DEADLOCK FALSE
