--------------------------- MODULE MCSessionLedger ---------------------------
(* SessionLedger for TLC: interchangeable requests and workers.            *)
EXTENDS SessionLedger, TLC
Perms == Permutations(Reqs) \cup Permutations(Workers)
=============================================================================
