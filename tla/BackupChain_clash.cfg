SPECIFICATION Spec
CONSTANTS
  Procs = {1, 2}
  Tables = {"t1"}
  Triggers = {"MANUAL"}
  FullEvery = 3
  MaxRuns = 3
  MaxTime = 1
  MaxChanges = 1
  MaxFaults = 0
  MaxDeletes = 1
INVARIANTS PointersAreOneHop
CHECK_DEADLOCK FALSE
