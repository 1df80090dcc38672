SPECIFICATION Spec
CONSTANTS
  Workers = {w1, w2}
  w1 = w1
  w2 = w2
  Reqs = {r1, r2, r3}
  r1 = r1
  r2 = r2
  r3 = r3
  MaxTokens = 4
  MaxEntries = 3
  MaxFaults = 1
SYMMETRY Perms
INVARIANTS
  TokensAreSound
PROPERTIES
  RevokedNeverRotates
  OldCredentialIsCutOff
  ReuseIsReal
CHECK_DEADLOCK FALSE
