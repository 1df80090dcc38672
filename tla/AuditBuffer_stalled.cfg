SPECIFICATION Spec
CONSTANTS
  MaxRows = 5
  FlushMax = 2
  PendingMax = 3
  MaxFailures = 2
INVARIANTS BufferedIsScheduled
CHECK_DEADLOCK FALSE
