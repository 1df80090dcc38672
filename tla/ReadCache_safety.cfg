SPECIFICATION Spec
CONSTANTS
  Workers = {w1, w2}
  w1 = w1
  w2 = w2
  Reads = {r1, r2, r3}
  r1 = r1
  r2 = r2
  r3 = r3
  None = None
  Fills = TRUE
  MaxVersion = 2
  MaxLost = 1
SYMMETRY Perms
INVARIANTS
  CacheIsSound
  LoadsAreShared
CHECK_DEADLOCK FALSE
