--------------------------- MODULE MCProcessState ---------------------------
(***************************************************************************)
(* ProcessState, and as one more part the query that a process builds      *)
(* (FilterParser).  That part is for the model checker only, as its        *)
(* definitions are recursive.                                              *)
(***************************************************************************)
EXTENDS ProcessState

VARIABLES
  pipeline, stages, ctes, binds, names, built

query == <<pipeline, stages, ctes, binds, names, built>>

Build == INSTANCE FilterParser WITH
  InMax <- 2,
  asked <- pipeline, count <- names, phase <- built

NoQuery ==
  /\ pipeline = <<>> /\ stages = <<>> /\ ctes = <<>> /\ binds = <<>>
  /\ names = 0 /\ built = "done"

MCInit ==
  /\ Init
  /\ \/ focus = "query" /\ Build!Init
     \/ focus # "query" /\ NoQuery

MCNext ==
  \/ Next /\ UNCHANGED query
  \/ focus = "query" /\ Build!Next /\ UNCHANGED vars

MCSpec == MCInit /\ [][MCNext]_<<vars, query>>

\* A query takes the rows that the filters of its pipeline take (FilterParser).
QueryMeansPipeline == focus = "query" => Build!QueryMeansPipeline
=============================================================================
