\* The parameters of the response cache are in the module.
SPECIFICATION AFairSpec
CONSTANTS
  Procs = {p1, p2, p3}
  p1 = p1
  p2 = p2
  p3 = p3
  MaxAcquires = 1
  MaxCrashes = 1
  Workers = {w1, w2}
  w1 = w1
  w2 = w2
  Reads = {r1, r2}
  r1 = r1
  r2 = r2
  Nobody = Nobody
INVARIANTS
  TypeOK
  MutualExclusion
PROPERTIES
  WaiterServed
  ReadsEnd
  StaleEnds
CHECK_DEADLOCK FALSE
