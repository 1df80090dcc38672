SPECIFICATION Spec
CONSTANTS
  Admins = {1, 2, 3}
  MaxCalls = 5
INVARIANTS MajorityIsExecuted
CHECK_DEADLOCK FALSE
