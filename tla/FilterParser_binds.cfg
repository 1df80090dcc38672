CONSTANT InMax = 2
SPECIFICATION Spec
INVARIANT MatchesKeepTheirBinds
CHECK_DEADLOCK FALSE
