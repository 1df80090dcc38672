----------------------------- MODULE MCReadCache -----------------------------
(* ReadCache for TLC: interchangeable reads and workers.                   *)
EXTENDS ReadCache, TLC
Perms == Permutations(Workers) \cup Permutations(Reads)
=============================================================================
