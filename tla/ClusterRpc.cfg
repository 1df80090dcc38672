SPECIFICATION MCSpec
CONSTANTS
  Workers = {w1, w2, w3}
  Spares = {w3}
  Reqs = {r1, r2}
  w1 = w1
  w2 = w2
  w3 = w3
  r1 = r1
  r2 = r2
  NoWorker = NoWorker
  MaxPending = 1
  MaxLeaderCalls = 1
  MaxGathers = 1
INVARIANTS HubAccounted
PROPERTIES CallsEnd
CHECK_DEADLOCK FALSE
