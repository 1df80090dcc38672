------------------------------ MODULE MCWaiters ------------------------------
(***************************************************************************)
(* Who waits is served, one part at a time: processes that wait for the    *)
(* lease file (FileLease) and reads that wait for a leader or a flight     *)
(* (ReadCache).  The parts have no variable in common; a behaviour is      *)
(* about the one that focus names, and the other one, in which nobody has  *)
(* begun anything, has no fair action to take.                             *)
(***************************************************************************)
EXTENDS FileLease, TLC

CONSTANTS
  Workers, Reads,
  Nobody           \* no read, no worker

VARIABLES
  focus,
  http, db, cache, full, inflight, flight, todo, transit, lost, read

reads   == <<http, db, cache, full, inflight, flight, todo, transit, lost, read>>
allVars == <<focus, vars, reads>>

Cache == INSTANCE ReadCache WITH
  None <- Nobody, Fills <- FALSE, MaxVersion <- 2, MaxLost <- 0

AnInit ==
  /\ focus \in {"lease", "reads"}
  /\ Init /\ Cache!Init
  /\ focus = "lease" => http

ANext ==
  \/ focus = "lease" /\ Next /\ UNCHANGED <<focus, reads>>
  \/ focus = "reads" /\ Cache!Next /\ UNCHANGED <<focus, vars>>

\* Fairness of both parts, each for its own behaviours.
AFairness ==
  /\ \A p \in Procs : WF_vars(focus = "lease" /\ Step(p)) /\ WF_vars(focus = "lease" /\ Release(p))
  /\ \A i \in Inodes : WF_vars(focus = "lease" /\ Ages(i))
  /\ \A r \in Reads : WF_reads(focus = "reads" /\ Cache!Goes(r))
  /\ \A w \in Workers : /\ WF_reads(focus = "reads" /\ Cache!Invalidate(w))
                         /\ WF_reads(focus = "reads" /\ Cache!RelayApplies(w))

AFairSpec == AnInit /\ [][ANext]_allVars /\ AFairness

\* Every read ends, whatever becomes of what it waits for (ReadCache).
ReadsEnd == Cache!ReadsEnd

\* A stale copy goes, and so do the relays (ReadCache).
StaleEnds == Cache!StaleEnds
=============================================================================
