---------------------------- MODULE MCClusterRpc ----------------------------
(***************************************************************************)
(* ClusterRpc for TLC.  Workers are interchangeable, and so are calls: the *)
(* first leader is called w1 and the first call r1.  The liveness property *)
(* rules SYMMETRY out, so the names are fixed by hand.                     *)
(***************************************************************************)
EXTENDS ClusterRpc

CONSTANTS w1, r1

FirstCall == outcome'[r1] = "new" => outcome' = outcome

MCInit == Init /\ leader = w1
MCSpec == MCInit /\ [][Next /\ FirstCall]_vars /\ Fairness
=============================================================================
