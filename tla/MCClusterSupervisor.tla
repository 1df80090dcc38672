------------------------ MODULE MCClusterSupervisor ------------------------
(* ClusterSupervisor on small clusters, and its refinement of              *)
(* CronLeadership.                                                         *)
EXTENDS ClusterSupervisor

\* The leader id, whether a leader's respawn is pending, and whether forks
\* are still allowed.
Leadership == INSTANCE CronLeadership WITH
  MaxLeader <- NumWorkers + MaxCrashes,
  leader    <- cronLeaderId,
  owed      <- \E r \in pendingRespawns : r.wasLeader,
  open      <- ~stopping /\ ~fatal

\* Leaders follow one another through an empty slot, are never elected while
\* one lives or after the cluster closed: ClusterSupervisor implements
\* CronLeadership.
ImplementsLeadership == Leadership!LSpec
=============================================================================
