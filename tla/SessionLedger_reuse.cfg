SPECIFICATION Spec
CONSTANTS
  Workers = {w1, w2}
  w1 = w1
  w2 = w2
  Reqs = {r1, r2}
  r1 = r1
  r2 = r2
  MaxTokens = 4
  MaxEntries = 4
  MaxFaults = 0
SYMMETRY Perms
INVARIANTS
  ReuseEndsFamily
CHECK_DEADLOCK FALSE
