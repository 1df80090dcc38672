----------------------- MODULE ClusterSupervisorProofs -----------------------
(***************************************************************************)
(* Proofs about ClusterSupervisor, for every number of workers, crashes    *)
(* and failed forks: type correctness, the single leader slot, the loud    *)
(* leaderless cluster, the leader of a degraded cluster, no orphan         *)
(* processes, the finality of a stop, the refinement of CronLeadership,    *)
(* the slots of the pool, and the verdict of an orderly stop.              *)
(***************************************************************************)
EXTENDS MCClusterSupervisor, FiniteSetTheorems, TLAPS

\* The cap is met only by the exit that trips it.
ExitWindow == recentExits < CrashLoopMax \/ fatal

TypeInv == TypeOK /\ ExitWindow

\* Respawning is over once a stop or a fatal began.
NoRespawnDue == stopping \/ fatal => pendingRespawns = {}

\* Where the primary is in its own stop.
StopPhases ==
  /\ finished => stopping \/ fatal
  /\ verdict # NoCode => finished
  /\ exited => verdict # NoCode
  /\ failsafeArmed => stopping
  /\ ~started =>
       /\ live = {} /\ pendingRespawns = {} /\ bootFatals = {}
       /\ proc = [w \in Workers |-> "unborn"] /\ ~stopping /\ ~fatal

\* A running process is always a live worker, and none outlives _finish.
RunningIsLive ==
  \A w \in Workers : Running(w) => w \in live /\ ~finished

-----------------------------------------------------------------------------
USE NumWorkersAssumption, CrashLoopMaxAssumption, MaxCrashesAssumption,
    MaxForkFailuresAssumption

\* Every worker id is a positive number, so NoWorker is none of them, and the
\* workers of the first fork are workers.
LEMMA WorkersFacts ==
  /\ NoWorker \notin Workers
  /\ 1 \in Workers
  /\ 1..NumWorkers \subseteq Workers
  BY DEF Workers, NoWorker

\* electionHealth has three verdicts; no stamp at all is the leaderless one.
LEMMA VerdictType ==
  ASSUME NEW S
  PROVE  ElectionVerdict(S) \in {"ok", "noLeader", "manyLeaders"}
  BY DEF ElectionVerdict

LEMMA VerdictEmpty == ElectionVerdict({}) = "noLeader"
  BY FS_EmptySet DEF ElectionVerdict

-----------------------------------------------------------------------------
(* Type correctness.                                                       *)

LEMMA TypeInit == Init => TypeInv
<1> SUFFICES ASSUME Init PROVE TypeInv
  OBVIOUS
<1>1. proc \in [Workers -> ProcStates] /\ exitStatus \in [Workers -> ExitStatuses]
  BY DEF Init, ProcStates, ExitStatuses
<1>2. /\ recentExits \in 0..CrashLoopMax /\ forks \in 0..(NumWorkers + MaxCrashes)
      /\ crashes \in 0..MaxCrashes /\ forkFailures \in 0..MaxForkFailures
      /\ ExitWindow
  BY DEF Init, ExitWindow
<1> QED
  BY <1>1, <1>2 DEF Init, TypeInv, TypeOK

LEMMA TypeStart == TypeInv /\ Start => TypeInv'
  BY WorkersFacts, VerdictType
  DEF TypeInv, TypeOK, ExitWindow, Start, VerifyLeaderInvariant, Workers,
      ProcStates

\* What shutdown() leaves behind, whichever handler calls it.
LEMMA TypeShutdown ==
  ASSUME TypeOK, NEW min \in {0, 1}, NEW up \in SUBSET Workers,
         ShutdownCluster(min, up)
  PROVE  /\ stopping' \in BOOLEAN /\ pendingRespawns' \subseteq Respawns
         /\ minExitCode' \in {0, 1} /\ downlink' \subseteq Workers
         /\ failsafeArmed' \in BOOLEAN /\ finished' \in BOOLEAN
         /\ verdict' \in {0, 1, NoCode} /\ liveAtStop' \subseteq Workers
  BY DEF TypeOK, ShutdownCluster, FinishWith, Max2

LEMMA TypeOnExit ==
  ASSUME TypeInv, NEW w \in Workers, OnExit(w)
  PROVE  TypeInv'
<1> DEFINE up == live \ {w}
           leaderUp == w # cronLeaderId /\ cronLeaderId \in up
<1> TypeOK
  BY DEF TypeInv
<1> up \in SUBSET Workers
  BY DEF TypeOK
<1> USE DEF OnExit, workerVars, TypeInv, ExitWindow
<1>1. CASE stopping \/ fatal
  <2> OnExitNoRespawn(w, up)
    BY <1>1
  <2>1. CASE up = {}
    BY <1>1, <2>1 DEF TypeOK, OnExitNoRespawn, FinishWith, Max2, ExitCode
  <2>2. CASE up # {} /\ fatal /\ ~stopping /\ w = cronLeaderId
    <3>1. ShutdownCluster(1, up)
      BY <2>2 DEF OnExitNoRespawn
    <3> QED
      BY <1>1, <2>2, <3>1, TypeShutdown
      DEF TypeOK, OnExitNoRespawn, Max2, ExitCode
  <2>3. CASE up # {} /\ ~(fatal /\ ~stopping /\ w = cronLeaderId)
    BY <1>1, <2>3 DEF TypeOK, OnExitNoRespawn, stopVars, Max2, ExitCode
  <2> QED BY <2>1, <2>2, <2>3
<1>2. CASE ~(stopping \/ fatal) /\ CrashLoopTripped(recentExits + 1)
  <2>0. TripCrashLoop(up, leaderUp)
    BY <1>2
  <2>1. recentExits' \in 0..CrashLoopMax
    BY <1>2 DEF TypeOK
  <2>2. CASE up # {} /\ ~leaderUp
    <3>1. ShutdownCluster(1, up)
      BY <2>0, <2>2 DEF TripCrashLoop
    <3> QED
      BY <1>2, <2>0, <2>1, <2>2, <3>1, TypeShutdown DEF TypeOK, TripCrashLoop
  <2>3. CASE up = {} \/ leaderUp
    BY <1>2, <2>0, <2>1, <2>3 DEF TypeOK, TripCrashLoop, FinishWith, stopVars
  <2> QED BY <2>2, <2>3
<1>3. CASE ~(stopping \/ fatal) /\ ~CrashLoopTripped(recentExits + 1)
  <2>1. [of |-> w, wasLeader |-> w = cronLeaderId] \in Respawns
    BY DEF Respawns
  <2>2. pendingRespawns' \subseteq Respawns
    BY <1>3, <2>1 DEF TypeOK, ScheduleRespawn
  <2>3. recentExits' \in 0..CrashLoopMax /\ recentExits' < CrashLoopMax
    BY <1>3 DEF TypeOK, CrashLoopTripped
  <2> QED
    BY <1>3, <2>2, <2>3 DEF TypeOK, ScheduleRespawn, stopVars
<1> QED BY <1>1, <1>2, <1>3

LEMMA TypeOnBootFatal ==
  ASSUME TypeInv, NEW w \in Workers, OnBootFatal(w)
  PROVE  TypeInv'
<1> TypeOK
  BY DEF TypeInv
<1>1. CASE fatal \/ w \in listening
  BY <1>1 DEF TypeInv, TypeOK, ExitWindow, OnBootFatal, stopVars
<1>2. CASE ~(fatal \/ w \in listening) /\ stopping
  BY <1>2 DEF TypeInv, TypeOK, ExitWindow, OnBootFatal
<1>3. CASE ~(fatal \/ w \in listening) /\ ~stopping
  <2>1. ShutdownCluster(1, live) /\ live \in SUBSET Workers
    BY <1>3 DEF OnBootFatal, TypeOK
  <2> QED
    BY <1>3, <2>1, TypeShutdown DEF TypeInv, TypeOK, ExitWindow, OnBootFatal
<1> QED BY <1>1, <1>2, <1>3

LEMMA TypeNext == TypeInv /\ [Next]_vars => TypeInv'
<1> SUFFICES ASSUME TypeInv, [Next]_vars PROVE TypeInv'
  OBVIOUS
<1> TypeOK
  BY DEF TypeInv
<1> USE DEF TypeInv, TypeOK, ExitWindow, primaryVars, workerVars, envVars
<1>1. CASE Start
  BY <1>1, TypeStart
<1>2. CASE OnSignal
  <2>1. ShutdownCluster(0, live) /\ live \in SUBSET Workers
    BY <1>2 DEF OnSignal
  <2> QED BY <1>2, <2>1, TypeShutdown DEF OnSignal
<1>3. CASE ForceExit
  BY <1>3 DEF ForceExit, NoCode, ProcStates, ExitStatuses
<1>4. CASE ProcessExit
  BY <1>4 DEF ProcessExit
<1>5. CASE ExitAges
  BY <1>5 DEF ExitAges
<1>6. ASSUME NEW w \in Workers, OnListening(w) PROVE TypeInv'
  BY <1>6 DEF OnListening, ProcStates
<1>7. ASSUME NEW w \in Workers, OnExit(w) PROVE TypeInv'
  BY <1>7, TypeOnExit
<1>8. ASSUME NEW w \in Workers, OnBootFatal(w) PROVE TypeInv'
  BY <1>8, TypeOnBootFatal
<1>9. ASSUME NEW r \in Respawns, RespawnForks(r) PROVE TypeInv'
  BY <1>9, VerdictType DEF RespawnForks, VerifyLeaderInvariant, Workers, ProcStates
<1>10. ASSUME NEW r \in Respawns, RespawnFails(r) PROVE TypeInv'
  BY <1>10, VerdictType DEF RespawnFails, VerifyLeaderInvariant
<1>11. ASSUME NEW w \in Workers, WorkerReportsBootFatal(w) PROVE TypeInv'
  BY <1>11 DEF WorkerReportsBootFatal, ProcStates
<1>12. ASSUME NEW w \in Workers, WorkerHangs(w) PROVE TypeInv'
  BY <1>12 DEF WorkerHangs, ProcStates
<1>13. ASSUME NEW w \in Workers, WorkerCrashes(w) PROVE TypeInv'
  BY <1>13 DEF WorkerCrashes, ProcStates, ExitStatuses
<1>14. ASSUME NEW w \in Workers, WorkerReceivesShutdown(w) PROVE TypeInv'
  BY <1>14 DEF WorkerReceivesShutdown, ProcStates
<1>15. ASSUME NEW w \in Workers, WorkerExits(w) PROVE TypeInv'
  BY <1>15 DEF WorkerExits, ProcStates, ExitStatuses
<1>16. CASE UNCHANGED vars
  BY <1>16 DEF vars
<1> QED
  BY <1>1, <1>2, <1>3, <1>4, <1>5, <1>6, <1>7, <1>8, <1>9, <1>10, <1>11,
     <1>12, <1>13, <1>14, <1>15, <1>16
  DEF Next, PrimaryNext, WorkerNext

\* The primary's variables keep their types in every run, and the crash-loop
\* window never holds more than CRASH_LOOP_MAX exits.
THEOREM TypeCorrect == Spec => []TypeOK
<1>1. TypeInv => TypeOK
  BY DEF TypeInv
<1> QED BY TypeInit, TypeNext, <1>1, PTL DEF Spec

-----------------------------------------------------------------------------
(* The leader slot.                                                        *)

\* shutdown() touches neither the leader nor the workers, and drops every
\* pending respawn unless a stop had already begun.
LEMMA ShutdownEffect ==
  ASSUME NEW min, NEW up, ShutdownCluster(min, up)
  PROVE  /\ stopping \in BOOLEAN => stopping'
         /\ pendingRespawns' = IF stopping THEN pendingRespawns ELSE {}
         /\ verdict' # NoCode /\ verdict = NoCode => finished'
         /\ finished => finished'
         /\ verdict = NoCode \/ finished => (verdict # NoCode => verdict' = verdict)
  BY DEF ShutdownCluster, FinishWith

\* What every _onExit does to the pending respawns: one more while the
\* cluster runs on, none left when the exit itself begins a stop or a fatal.
LEMMA OnExitEffect ==
  ASSUME TypeOK, finished => stopping \/ fatal, NEW w \in Workers, OnExit(w)
  PROVE  /\ ~stopping' /\ ~fatal' =>
              /\ ~stopping /\ ~fatal
              /\ pendingRespawns' = pendingRespawns \cup
                    {[of |-> w, wasLeader |-> w = cronLeaderId]}
              /\ alarm' = alarm
         /\ stopping' \/ fatal' =>
              \/ pendingRespawns' = {}
              \/ (stopping \/ fatal) /\ pendingRespawns' = pendingRespawns
         /\ (stopping => stopping') /\ (fatal => fatal')
         /\ finished' => stopping' \/ fatal'
         /\ fatal' /\ ~stopping' /\ ~finished' =>
              cronLeaderId' = cronLeaderId /\ (fatal \/ cronLeaderId \in live')
         /\ (verdict # NoCode => finished) =>
              /\ verdict' # NoCode => finished'
              /\ verdict # NoCode => verdict' = verdict
         /\ finished => finished'
         /\ finished' => finished \/ live' = {}
         /\ failsafeArmed' => failsafeArmed \/ stopping'
<1> DEFINE up == live \ {w}
           leaderUp == w # cronLeaderId /\ cronLeaderId \in up
<1> stopping \in BOOLEAN /\ fatal \in BOOLEAN /\ finished \in BOOLEAN
  BY DEF TypeOK
<1> live' = up /\ cronLeaderId' = IF w = cronLeaderId THEN NoWorker ELSE cronLeaderId
  BY DEF OnExit
<1> USE DEF OnExit
<1>1. CASE stopping \/ fatal
  <2>1. OnExitNoRespawn(w, up)
    BY <1>1
  <2>2. CASE up # {} /\ fatal /\ ~stopping /\ w = cronLeaderId
    <3>1. ShutdownCluster(1, up)
      BY <2>1, <2>2 DEF OnExitNoRespawn
    <3> QED
      <4>1. /\ stopping' = TRUE /\ pendingRespawns' = {} /\ fatal' = fatal
            /\ finished' = finished /\ verdict' = verdict
        BY <2>1, <2>2, <3>1 DEF OnExitNoRespawn, ShutdownCluster
      <4> QED BY <1>1, <2>2, <4>1
  <2>3. CASE up = {}
    BY <1>1, <2>1, <2>3 DEF TypeOK, OnExitNoRespawn, FinishWith
  <2>4. CASE up # {} /\ ~(fatal /\ ~stopping /\ w = cronLeaderId)
    BY <1>1, <2>1, <2>4 DEF TypeOK, OnExitNoRespawn, stopVars
  <2> QED BY <2>2, <2>3, <2>4
<1>2. CASE ~(stopping \/ fatal) /\ CrashLoopTripped(recentExits + 1)
  <2>1. TripCrashLoop(up, leaderUp)
    BY <1>2
  <2>2. CASE up # {} /\ ~leaderUp
    <3>1. ShutdownCluster(1, up)
      BY <2>1, <2>2 DEF TripCrashLoop
    <3> QED
      <4>1. /\ stopping' = TRUE /\ pendingRespawns' = {} /\ fatal' = TRUE
            /\ finished' = finished /\ verdict' = verdict
        BY <1>2, <2>1, <2>2, <3>1 DEF TripCrashLoop, ShutdownCluster
      <4> QED BY <1>2, <2>2, <4>1
  <2>3. CASE up = {}
    <3>1. /\ pendingRespawns' = {} /\ fatal' = TRUE /\ finished' = TRUE
          /\ stopping' = stopping
          /\ verdict' = IF finished THEN verdict ELSE 1
          /\ failsafeArmed' => failsafeArmed
      BY <2>1, <2>3 DEF TripCrashLoop, FinishWith
    <3> QED BY <1>2, <2>3, <3>1 DEF NoCode
  <2>4. CASE up # {} /\ leaderUp
    <3>1. /\ pendingRespawns' = {} /\ fatal' = TRUE /\ finished' = finished
          /\ stopping' = stopping /\ verdict' = verdict
          /\ failsafeArmed' = failsafeArmed
      BY <2>1, <2>4 DEF TripCrashLoop, stopVars
    <3> QED BY <1>2, <2>4, <3>1
  <2> QED BY <2>2, <2>3, <2>4
<1>3. CASE ~(stopping \/ fatal) /\ ~CrashLoopTripped(recentExits + 1)
  BY <1>3 DEF ScheduleRespawn, stopVars
<1> QED BY <1>1, <1>2, <1>3

-----------------------------------------------------------------------------
(* The slot, the alarm and the phases of a stop, together inductive.       *)

SlotInv ==
  /\ OneLeaderSlot /\ NoRespawnDue /\ StopPhases
  /\ LeaderlessIsLoud /\ DegradedKeepsLeader

LEMMA SlotInit == Init => SlotInv
  BY DEF Init, SlotInv, OneLeaderSlot, NoRespawnDue, StopPhases,
         LeaderlessIsLoud, DegradedKeepsLeader

LEMMA SlotOnExit ==
  ASSUME TypeOK, SlotInv, NEW w \in Workers, OnExit(w)
  PROVE  SlotInv'
<1> USE DEF SlotInv
<1>0. /\ live' = live \ {w} /\ leaderEnv' = leaderEnv \ {w} /\ w \in live
      /\ cronLeaderId' = IF w = cronLeaderId THEN NoWorker ELSE cronLeaderId
      /\ started' = started /\ exited' = exited /\ ~exited /\ proc' = proc
  BY DEF OnExit, workerVars
<1>1. finished => stopping \/ fatal
  BY DEF StopPhases
<1>3. OneLeaderSlot'
  BY <1>0, <1>1, OnExitEffect, WorkersFacts DEF OneLeaderSlot, TypeOK, NoRespawnDue
<1>4. NoRespawnDue'
  BY <1>1, OnExitEffect DEF NoRespawnDue, TypeOK
<1>5. StopPhases'
  BY <1>0, <1>1, OnExitEffect DEF StopPhases
<1>6. LeaderlessIsLoud'
  BY <1>0, <1>1, OnExitEffect DEF LeaderlessIsLoud
<1>7. DegradedKeepsLeader'
  <2> SUFFICES ASSUME fatal', ~stopping', ~finished'
               PROVE  cronLeaderId' # NoWorker
    BY <1>3 DEF DegradedKeepsLeader, OneLeaderSlot
  <2>1. cronLeaderId' = cronLeaderId /\ (fatal \/ cronLeaderId \in live')
    BY <1>1, OnExitEffect
  <2>2. CASE cronLeaderId \in live'
    BY <1>0, <2>1, <2>2, WorkersFacts DEF TypeOK
  <2>3. CASE fatal
    <3>1. ~stopping /\ ~finished
      BY <1>1, OnExitEffect
    <3> QED BY <2>1, <2>3, <3>1 DEF DegradedKeepsLeader, OneLeaderSlot
  <2> QED BY <2>1, <2>2, <2>3
<1> QED BY <1>3, <1>4, <1>5, <1>6, <1>7

\* shutdown() with workers up, or without, keeps the slot and its phases.
LEMMA SlotShutdown ==
  ASSUME TypeOK, SlotInv, started, NEW min \in {0, 1}, ShutdownCluster(min, live),
         UNCHANGED <<started, live, leaderEnv, cronLeaderId, alarm, exited, proc>>,
         fatal' \in {fatal, TRUE}
  PROVE  SlotInv'
<1> USE DEF SlotInv
<1>1. stopping' = TRUE /\ pendingRespawns' \in {pendingRespawns, {}}
      /\ (~stopping => pendingRespawns' = {})
  BY DEF ShutdownCluster, TypeOK
<1>2. /\ finished => finished'
      /\ (verdict' = verdict) \/ finished'
      /\ verdict # NoCode => verdict' # NoCode
  BY DEF ShutdownCluster, FinishWith, StopPhases, TypeOK, Max2, NoCode
<1>3. OneLeaderSlot' /\ NoRespawnDue'
  BY <1>1 DEF OneLeaderSlot, NoRespawnDue
<1>4. StopPhases'
  BY <1>1, <1>2 DEF StopPhases, TypeOK
<1>5. LeaderlessIsLoud' /\ DegradedKeepsLeader'
  BY <1>1 DEF LeaderlessIsLoud, DegradedKeepsLeader
<1> QED BY <1>3, <1>4, <1>5

LEMMA SlotOnBootFatal ==
  ASSUME TypeOK, SlotInv, NEW w \in Workers, OnBootFatal(w)
  PROVE  SlotInv'
<1>0. UNCHANGED <<started, live, leaderEnv, cronLeaderId, alarm, exited, proc>>
      /\ started
  BY DEF OnBootFatal, SlotInv, StopPhases
<1>1. CASE fatal \/ w \in listening
  BY <1>0, <1>1
  DEF OnBootFatal, stopVars, SlotInv, OneLeaderSlot, NoRespawnDue, StopPhases,
      LeaderlessIsLoud, DegradedKeepsLeader
<1>2. CASE ~(fatal \/ w \in listening) /\ stopping
  BY <1>0, <1>2
  DEF OnBootFatal, SlotInv, OneLeaderSlot, NoRespawnDue, StopPhases,
      LeaderlessIsLoud, DegradedKeepsLeader
<1>3. CASE ~(fatal \/ w \in listening) /\ ~stopping
  <2>1. ShutdownCluster(1, live) /\ fatal' = TRUE
    BY <1>3 DEF OnBootFatal
  <2> QED BY <1>0, <2>1, SlotShutdown
<1> QED BY <1>1, <1>2, <1>3

LEMMA SlotRespawnForks ==
  ASSUME TypeOK, SlotInv, NEW r \in Respawns, RespawnForks(r)
  PROVE  SlotInv'
<1> DEFINE w == forks + 1
<1> USE DEF SlotInv
<1>1. w \in Workers /\ w # NoWorker
  BY WorkersFacts DEF RespawnForks
<1>2. OneLeaderSlot'
  <2>1. CASE r.wasLeader
    BY <1>1, <2>1 DEF RespawnForks, OneLeaderSlot
  <2>2. CASE ~r.wasLeader
    BY <2>2 DEF RespawnForks, OneLeaderSlot
  <2> QED BY <2>1, <2>2
<1>3. NoRespawnDue'
  BY DEF RespawnForks, NoRespawnDue
<1>4. StopPhases'
  BY DEF RespawnForks, StopPhases, OneLeaderSlot
<1>5. LeaderlessIsLoud'
  BY VerdictEmpty DEF RespawnForks, VerifyLeaderInvariant, LeaderlessIsLoud
<1>6. DegradedKeepsLeader'
  BY DEF RespawnForks, DegradedKeepsLeader
<1> QED BY <1>2, <1>3, <1>4, <1>5, <1>6

LEMMA SlotNext == TypeOK /\ SlotInv /\ [Next]_vars => SlotInv'
<1> SUFFICES ASSUME TypeOK, SlotInv, [Next]_vars PROVE SlotInv'
  OBVIOUS
<1> USE DEF SlotInv
<1>1. CASE Start
  BY <1>1, WorkersFacts
  DEF Start, VerifyLeaderInvariant, OneLeaderSlot, NoRespawnDue, StopPhases,
      LeaderlessIsLoud, DegradedKeepsLeader
<1>2. CASE OnSignal
  <2>1. ShutdownCluster(0, live) /\ fatal' = fatal
    BY <1>2 DEF OnSignal
  <2>2. /\ UNCHANGED <<started, live, leaderEnv, cronLeaderId, alarm, exited, proc>>
        /\ started
    BY <1>2 DEF OnSignal, workerVars
  <2> QED BY <2>1, <2>2, SlotShutdown
<1>3. CASE ForceExit
  BY <1>3 DEF ForceExit, NoCode, OneLeaderSlot, NoRespawnDue, StopPhases,
              LeaderlessIsLoud, DegradedKeepsLeader
<1> USE DEF OneLeaderSlot, NoRespawnDue, StopPhases, LeaderlessIsLoud,
            DegradedKeepsLeader
<1>4. CASE ProcessExit
  BY <1>4 DEF ProcessExit, workerVars
<1>5. CASE ExitAges
  BY <1>5 DEF ExitAges, workerVars
<1>6. ASSUME NEW w \in Workers, OnListening(w) PROVE SlotInv'
  BY <1>6 DEF OnListening
<1>7. ASSUME NEW w \in Workers, OnExit(w) PROVE SlotInv'
  BY <1>7, SlotOnExit
<1>8. ASSUME NEW w \in Workers, OnBootFatal(w) PROVE SlotInv'
  BY <1>8, SlotOnBootFatal
<1>9. ASSUME NEW r \in Respawns, RespawnForks(r) PROVE SlotInv'
  BY <1>9, SlotRespawnForks
<1>10. ASSUME NEW r \in Respawns, RespawnFails(r) PROVE SlotInv'
  BY <1>10, VerdictEmpty DEF RespawnFails, VerifyLeaderInvariant, workerVars
<1>11. ASSUME NEW w \in Workers,
              \/ WorkerReportsBootFatal(w) \/ WorkerHangs(w) \/ WorkerCrashes(w)
              \/ WorkerReceivesShutdown(w) \/ WorkerExits(w)
       PROVE  SlotInv'
  <2>1. UNCHANGED primaryVars /\ proc[w] # "unborn"
    BY <1>11 DEF WorkerReportsBootFatal, WorkerHangs, WorkerCrashes,
                 WorkerReceivesShutdown, WorkerExits
  <2>2. started
    BY <2>1
  <2> QED BY <2>1, <2>2 DEF primaryVars
<1>12. CASE UNCHANGED vars
  BY <1>12 DEF vars, primaryVars, workerVars
<1> QED
  BY <1>1, <1>2, <1>3, <1>4, <1>5, <1>6, <1>7, <1>8, <1>9, <1>10, <1>11, <1>12
  DEF Next, PrimaryNext, WorkerNext

\* One leader slot: the stamp is on one live worker, or owed to one respawn,
\* or nowhere, however workers die and timers fire.
THEOREM LeaderSlotIsUnique == Spec => []OneLeaderSlot
<1>1. SlotInv => OneLeaderSlot
  BY DEF SlotInv
<1> QED BY SlotInit, SlotNext, TypeCorrect, <1>1, PTL DEF Spec

\* A running cluster without leader and without respawn has raised the alarm.
THEOREM LeaderlessClusterIsLoud == Spec => []LeaderlessIsLoud
<1>1. SlotInv => LeaderlessIsLoud
  BY DEF SlotInv
<1> QED BY SlotInit, SlotNext, TypeCorrect, <1>1, PTL DEF Spec

\* A crash-looped cluster that keeps serving has kept its leader.
THEOREM DegradedClusterHasLeader == Spec => []DegradedKeepsLeader
<1>1. SlotInv => DegradedKeepsLeader
  BY DEF SlotInv
<1> QED BY SlotInit, SlotNext, TypeCorrect, <1>1, PTL DEF Spec

-----------------------------------------------------------------------------
(* Processes and their stop.                                               *)

LEMMA RunningInit == Init => RunningIsLive
  BY DEF Init, RunningIsLive, Running

LEMMA RunningNext ==
  TypeOK /\ SlotInv /\ RunningIsLive /\ [Next]_vars => RunningIsLive'
<1> SUFFICES ASSUME TypeOK, SlotInv, RunningIsLive, [Next]_vars
             PROVE  RunningIsLive'
  OBVIOUS
<1> USE DEF RunningIsLive, Running
<1>0. finished => stopping \/ fatal
  BY DEF SlotInv, StopPhases
<1>1. CASE Start
  <2>1. ~finished /\ finished' = finished /\ live' = 1..NumWorkers
    BY <1>0, <1>1 DEF Start, SlotInv, StopPhases
  <2>2. \A w \in Workers : proc'[w] = IF w <= NumWorkers THEN "booting" ELSE "unborn"
    BY <1>1 DEF Start
  <2> QED BY <2>1, <2>2 DEF Workers
<1>2. CASE OnSignal
  <2>1. finished' => finished \/ live = {}
    BY <1>2 DEF OnSignal, ShutdownCluster
  <2> QED BY <1>2, <2>1 DEF OnSignal, workerVars
<1>3. CASE ForceExit
  BY <1>3 DEF ForceExit
<1>4. CASE ProcessExit
  BY <1>4 DEF ProcessExit, workerVars
<1>5. CASE ExitAges
  BY <1>5 DEF ExitAges, workerVars
<1>6. ASSUME NEW w \in Workers, OnListening(w) PROVE RunningIsLive'
  BY <1>6 DEF OnListening, TypeOK
<1>7. ASSUME NEW w \in Workers, OnExit(w) PROVE RunningIsLive'
  <2>1. finished' => finished \/ live' = {}
    BY <1>0, <1>7, OnExitEffect
  <2>2. live' = live \ {w} /\ proc' = proc /\ proc[w] = "dead"
    BY <1>7 DEF OnExit, workerVars
  <2> QED BY <2>1, <2>2
<1>8. ASSUME NEW w \in Workers, OnBootFatal(w) PROVE RunningIsLive'
  <2>1. finished' => finished \/ live = {}
    BY <1>8 DEF OnBootFatal, ShutdownCluster, stopVars
  <2> QED BY <1>8, <2>1 DEF OnBootFatal
<1>9. ASSUME NEW r \in Respawns, RespawnForks(r) PROVE RunningIsLive'
  BY <1>0, <1>9 DEF RespawnForks, TypeOK
<1>10. ASSUME NEW r \in Respawns, RespawnFails(r) PROVE RunningIsLive'
  BY <1>10 DEF RespawnFails, workerVars
<1>11. ASSUME NEW w \in Workers,
              \/ WorkerReportsBootFatal(w) \/ WorkerHangs(w) \/ WorkerCrashes(w)
              \/ WorkerReceivesShutdown(w) \/ WorkerExits(w)
       PROVE  RunningIsLive'
  BY <1>11 DEF WorkerReportsBootFatal, WorkerHangs, WorkerCrashes,
               WorkerReceivesShutdown, WorkerExits, primaryVars, TypeOK
<1>12. CASE UNCHANGED vars
  BY <1>12 DEF vars, primaryVars, workerVars
<1> QED
  BY <1>1, <1>2, <1>3, <1>4, <1>5, <1>6, <1>7, <1>8, <1>9, <1>10, <1>11, <1>12
  DEF Next, PrimaryNext, WorkerNext

\* The primary never exits over a running worker process.
THEOREM NoOrphanWorkers == Spec => []NoOrphans
<1>1. SlotInv /\ RunningIsLive => NoOrphans
  BY DEF SlotInv, StopPhases, RunningIsLive, NoOrphans
<1> QED
  BY SlotInit, SlotNext, RunningInit, RunningNext, TypeCorrect, <1>1, PTL
  DEF Spec

\* Once a stop or a fatal has begun nothing is forked and no respawn is left
\* pending, and an exit code once decided stays.
THEOREM StopIsFinalTheorem == Spec => StopIsFinal
<1> DEFINE A == /\ (stopping \/ fatal => forks' = forks /\ pendingRespawns' = {})
                /\ (verdict # NoCode => verdict' = verdict)
<1>1. ASSUME TypeOK, SlotInv, Next PROVE A
  <2> USE DEF SlotInv
  <2>0. /\ finished => stopping \/ fatal
        /\ verdict # NoCode => finished
        /\ stopping \/ fatal => pendingRespawns = {} /\ started
    BY <1>1 DEF StopPhases, NoRespawnDue
  <2>1. CASE Start
    BY <2>0, <2>1 DEF Start
  <2>2. CASE OnSignal
    BY <2>0, <2>2 DEF OnSignal, ShutdownCluster, FinishWith
  <2>3. CASE ForceExit
    BY <2>0, <2>3 DEF ForceExit, envVars
  <2>4. CASE ProcessExit \/ ExitAges
    BY <2>0, <2>4 DEF ProcessExit, ExitAges, envVars
  <2>5. ASSUME NEW w \in Workers, OnListening(w) PROVE A
    BY <2>0, <2>5 DEF OnListening, envVars
  <2>6. ASSUME NEW w \in Workers, OnExit(w) PROVE A
    <3>1. forks' = forks
      BY <2>6 DEF OnExit
    <3> QED BY <1>1, <2>0, <2>6, <3>1, OnExitEffect
  <2>7. ASSUME NEW w \in Workers, OnBootFatal(w) PROVE A
    <3>1. forks' = forks
      BY <2>7 DEF OnBootFatal
    <3> QED
      BY <2>0, <2>7, <3>1 DEF OnBootFatal, ShutdownCluster, FinishWith, stopVars
  <2>8. ASSUME NEW r \in Respawns, RespawnForks(r) \/ RespawnFails(r) PROVE A
    BY <2>8 DEF RespawnForks, RespawnFails
  <2>9. ASSUME NEW w \in Workers,
               \/ WorkerReportsBootFatal(w) \/ WorkerHangs(w) \/ WorkerCrashes(w)
               \/ WorkerReceivesShutdown(w) \/ WorkerExits(w)
        PROVE  A
    BY <2>0, <2>9 DEF WorkerReportsBootFatal, WorkerHangs, WorkerCrashes,
                 WorkerReceivesShutdown, WorkerExits, primaryVars, envVars
  <2> QED
    BY <1>1, <2>1, <2>2, <2>3, <2>4, <2>5, <2>6, <2>7, <2>8, <2>9
    DEF Next, PrimaryNext, WorkerNext
<1>2. TypeOK /\ SlotInv /\ [Next]_vars => [A]_vars
  BY <1>1
<1> QED
  BY SlotInit, SlotNext, TypeCorrect, <1>2, PTL DEF Spec, StopIsFinal

-----------------------------------------------------------------------------
(* Refinement of CronLeadership.                                           *)

Owed == \E r \in pendingRespawns : r.wasLeader
Open == ~stopping /\ ~fatal

\* What each step of the primary is for the leader slot: nothing, or one step
\* of CronLeadership.
LEMMA LeadershipStep ==
  ASSUME TypeOK, SlotInv, Next
  PROVE  \/ cronLeaderId' = cronLeaderId /\ Owed' = Owed /\ Open' = Open
         \/ Leadership!LNext
<1> USE DEF SlotInv
<1> DEFINE Same == cronLeaderId' = cronLeaderId /\ Owed' = Owed /\ Open' = Open
<1>0. /\ stopping \/ fatal => ~Owed /\ started
      /\ cronLeaderId # NoWorker => ~Owed
      /\ ~started => ~Owed /\ Open /\ cronLeaderId = NoWorker
  BY WorkersFacts DEF StopPhases, NoRespawnDue, OneLeaderSlot, Owed, Open, TypeOK
<1>1. CASE Start
  <2>1. Leadership!First
    BY <1>0, <1>1 DEF Start, Leadership!First, Owed, Open, NoWorker
  <2> QED BY <2>1 DEF Leadership!LNext
<1>2. ASSUME ShutdownCluster(0, live), cronLeaderId' = cronLeaderId, fatal' = fatal
      PROVE  Same \/ Leadership!Close
  <2>1. CASE Open
    BY <1>2, <2>1 DEF ShutdownCluster, Leadership!Close, Owed, Open
  <2>2. CASE ~Open
    BY <1>0, <1>2, <2>2 DEF ShutdownCluster, Owed, Open, NoRespawnDue
  <2> QED BY <2>1, <2>2
<1>3. CASE OnSignal
  BY <1>2, <1>3 DEF OnSignal, Leadership!LNext
<1>4. CASE ForceExit \/ ProcessExit \/ ExitAges
  BY <1>4 DEF ForceExit, ProcessExit, ExitAges, Owed, Open
<1>5. ASSUME NEW w \in Workers, OnListening(w) PROVE Same
  BY <1>5 DEF OnListening, Owed, Open
<1>6. ASSUME NEW w \in Workers, OnExit(w) PROVE Same \/ Leadership!LNext
  <2>1. finished => stopping \/ fatal
    BY DEF StopPhases
  <2>2. cronLeaderId' = IF w = cronLeaderId THEN NoWorker ELSE cronLeaderId
    BY <1>6 DEF OnExit
  <2>3. w # NoWorker
    BY WorkersFacts
  <2>4. CASE Open'
    <3>1. /\ Open
          /\ pendingRespawns' = pendingRespawns \cup
                {[of |-> w, wasLeader |-> w = cronLeaderId]}
      BY <1>6, <2>1, <2>4, OnExitEffect DEF Open
    <3>2. CASE w = cronLeaderId
      <4>1. Owed'
        <5> DEFINE r == [of |-> w, wasLeader |-> w = cronLeaderId]
        <5>1. r.wasLeader = TRUE /\ r \in pendingRespawns'
          BY <3>1, <3>2
        <5> QED BY <5>1 DEF Owed
      <4>2. Leadership!Lose
        BY <2>2, <2>3, <2>4, <3>1, <3>2, <4>1
        DEF Leadership!Lose, Owed, Open, NoWorker
      <4> QED BY <4>2 DEF Leadership!LNext
    <3>3. CASE w # cronLeaderId
      <4> DEFINE q == [of |-> w, wasLeader |-> w = cronLeaderId]
      <4>1. q.wasLeader = FALSE /\ pendingRespawns' = pendingRespawns \cup {q}
        BY <3>1, <3>3
      <4>2. Owed' = Owed
        BY <4>1 DEF Owed
      <4> QED BY <2>2, <2>4, <3>1, <3>3, <4>2 DEF Open
    <3> QED BY <3>2, <3>3
  <2>5. CASE ~Open'
    <3>1. ~Owed'
      BY <1>0, <1>6, <2>1, <2>5, OnExitEffect DEF Owed, Open
    <3>2. CASE w = cronLeaderId
      <4>1. Leadership!Lose
        BY <2>2, <2>3, <2>5, <3>1, <3>2 DEF Leadership!Lose, Owed, Open, NoWorker
      <4> QED BY <4>1 DEF Leadership!LNext
    <3>3. CASE w # cronLeaderId /\ Open
      <4>1. Leadership!Close
        BY <2>2, <2>5, <3>1, <3>3 DEF Leadership!Close, Owed, Open
      <4> QED BY <4>1 DEF Leadership!LNext
    <3>4. CASE w # cronLeaderId /\ ~Open
      BY <1>0, <2>2, <2>5, <3>1, <3>4 DEF Owed, Open
    <3> QED BY <3>2, <3>3, <3>4
  <2> QED BY <2>4, <2>5
<1>7. ASSUME NEW w \in Workers, OnBootFatal(w) PROVE Same \/ Leadership!LNext
  <2>1. cronLeaderId' = cronLeaderId
    BY <1>7 DEF OnBootFatal
  <2>2. CASE fatal \/ w \in listening
    BY <1>7, <2>2 DEF OnBootFatal, stopVars, Owed, Open
  <2>3. CASE ~(fatal \/ w \in listening)
    <3>1. fatal' = TRUE /\ pendingRespawns' = {}
      BY <1>7, <2>3 DEF OnBootFatal, ShutdownCluster
    <3>2. CASE Open
      <4>1. Leadership!Close
        BY <2>1, <3>1, <3>2 DEF Leadership!Close, Owed, Open
      <4> QED BY <4>1 DEF Leadership!LNext
    <3>3. CASE ~Open
      BY <1>0, <2>1, <3>1, <3>3 DEF Owed, Open
    <3> QED BY <3>2, <3>3
  <2> QED BY <2>2, <2>3
<1>8. ASSUME NEW r \in Respawns, RespawnForks(r) PROVE Same \/ Leadership!LNext
  <2>1. r \in pendingRespawns /\ pendingRespawns' = pendingRespawns \ {r}
        /\ Open' = Open /\ Open /\ forks + 1 \in Workers
    BY <1>8 DEF RespawnForks, Open
  <2>2. CASE r.wasLeader
    <3>1. Owed /\ ~Owed' /\ cronLeaderId = NoWorker /\ cronLeaderId' = forks + 1
      BY <1>8, <2>1, <2>2 DEF RespawnForks, Owed, OneLeaderSlot
    <3>2. Leadership!Elect(forks + 1)
      BY <2>1, <3>1 DEF Leadership!Elect, Owed, Open, NoWorker
    <3>3. forks + 1 \in 1..(NumWorkers + MaxCrashes)
      BY <2>1 DEF Workers
    <3>4. \E w \in 1..(NumWorkers + MaxCrashes) : Leadership!Elect(w)
      BY <3>2, <3>3 DEF Leadership!Elect, Owed, Open
    <3> QED BY <3>4 DEF Leadership!LNext
  <2>3. CASE ~r.wasLeader
    BY <1>8, <2>1, <2>3 DEF RespawnForks, Owed
  <2> QED BY <2>2, <2>3
<1>9. ASSUME NEW r \in Respawns, RespawnFails(r) PROVE Same \/ Leadership!LNext
  <2>1. r \in pendingRespawns /\ pendingRespawns' = pendingRespawns \ {r}
        /\ Open' = Open /\ cronLeaderId' = cronLeaderId
    BY <1>9 DEF RespawnFails, Open
  <2>2. CASE r.wasLeader
    <3>1. Owed /\ ~Owed'
      BY <2>1, <2>2 DEF Owed, OneLeaderSlot
    <3>2. Leadership!Abandon
      BY <2>1, <3>1 DEF Leadership!Abandon, Owed, Open
    <3> QED BY <3>2 DEF Leadership!LNext
  <2>3. CASE ~r.wasLeader
    BY <2>1, <2>3 DEF Owed
  <2> QED BY <2>2, <2>3
<1>10. ASSUME NEW w \in Workers,
              \/ WorkerReportsBootFatal(w) \/ WorkerHangs(w) \/ WorkerCrashes(w)
              \/ WorkerReceivesShutdown(w) \/ WorkerExits(w)
       PROVE  Same
  BY <1>10 DEF WorkerReportsBootFatal, WorkerHangs, WorkerCrashes,
               WorkerReceivesShutdown, WorkerExits, primaryVars, Owed, Open
<1> QED
  BY <1>1, <1>3, <1>4, <1>5, <1>6, <1>7, <1>8, <1>9, <1>10
  DEF Next, PrimaryNext, WorkerNext

\* ClusterSupervisor implements CronLeadership: leaders follow one another
\* through an empty slot and none is elected after the cluster closed.
THEOREM LeadershipRefinement == Spec => ImplementsLeadership
<1>1. Init => Leadership!LInit
  BY DEF Init, Leadership!LInit, NoWorker
<1>2. TypeOK /\ SlotInv /\ [Next]_vars => [Leadership!LNext]_(Leadership!lvars)
  <2> SUFFICES ASSUME TypeOK, SlotInv, [Next]_vars
               PROVE  [Leadership!LNext]_(Leadership!lvars)
    OBVIOUS
  <2>1. CASE Next
    BY <2>1, LeadershipStep DEF Leadership!lvars, Owed, Open
  <2>2. CASE UNCHANGED vars
    BY <2>2 DEF vars, primaryVars, Leadership!lvars
  <2> QED BY <2>1, <2>2
<1> QED
  BY SlotInit, SlotNext, TypeCorrect, <1>1, <1>2, PTL
  DEF Spec, ImplementsLeadership, Leadership!LSpec

-----------------------------------------------------------------------------
(* The slots of the pool.                                                  *)

\* Worker ids grow, and a respawn is owed for a worker that is gone.
PoolInv ==
  /\ \A w \in live : w <= forks
  /\ \A r \in pendingRespawns : r.of <= forks /\ r.of \notin live
  /\ IsFiniteSet(pendingRespawns)
  /\ ~started => forkFailures = 0
  /\ PoolAccounted

LEMMA LiveIsFinite == ASSUME TypeOK PROVE IsFiniteSet(live) /\ Cardinality(live) \in Nat
<1>1. IsFiniteSet(Workers)
  BY FS_Interval DEF Workers
<1> QED BY <1>1, FS_Subset, FS_CardinalityType DEF TypeOK

LEMMA PoolInit == Init => PoolInv
  BY FS_EmptySet DEF Init, PoolInv, PoolAccounted

\* A handler that leaves workers and timers alone, or drops the timers for good.
LEMMA PoolKept ==
  ASSUME PoolInv, UNCHANGED <<started, live, forks, forkFailures>>,
         \/ UNCHANGED <<pendingRespawns, stopping, fatal>>
         \/ pendingRespawns' = {} /\ (stopping' \/ fatal')
         \/ pendingRespawns' = pendingRespawns /\ (stopping' \/ fatal')
  PROVE  PoolInv'
  BY FS_EmptySet DEF PoolInv, PoolAccounted

LEMMA PoolOnExit ==
  ASSUME TypeOK, SlotInv, PoolInv, NEW w \in Workers, OnExit(w)
  PROVE  PoolInv'
<1> DEFINE r == [of |-> w, wasLeader |-> w = cronLeaderId]
<1>1. /\ live' = live \ {w} /\ w \in live /\ UNCHANGED <<started, forks, forkFailures>>
  BY DEF OnExit
<1>2. finished => stopping \/ fatal
  BY DEF SlotInv, StopPhases
<1>3. \/ pendingRespawns' = {} /\ (stopping' \/ fatal')
      \/ pendingRespawns' = pendingRespawns /\ (stopping' \/ fatal')
      \/ /\ ~stopping /\ ~fatal /\ ~stopping' /\ ~fatal'
         /\ pendingRespawns' = pendingRespawns \cup {r}
  BY <1>2, OnExitEffect
<1>4. r.of = w /\ r \notin pendingRespawns
  BY <1>1 DEF PoolInv
<1>5. IsFiniteSet(pendingRespawns')
  <2>1. IsFiniteSet({}) /\ IsFiniteSet(pendingRespawns) /\ IsFiniteSet(pendingRespawns \cup {r})
    BY FS_EmptySet, FS_AddElement DEF PoolInv
  <2> QED BY <1>3, <2>1
<1>6. /\ \A v \in live' : v <= forks'
      /\ \A q \in pendingRespawns' : q.of <= forks' /\ q.of \notin live'
  BY <1>1, <1>3, <1>4 DEF PoolInv
<1>7. PoolAccounted'
  <2> SUFFICES ASSUME started', ~stopping', ~fatal'
               PROVE  Cardinality(live') + Cardinality(pendingRespawns') + forkFailures' = NumWorkers
    BY DEF PoolAccounted
  <2>1. pendingRespawns' = pendingRespawns \cup {r} /\ started /\ ~stopping /\ ~fatal
    BY <1>1, <1>3
  <2>2. Cardinality(pendingRespawns') = Cardinality(pendingRespawns) + 1
    BY <1>4, <2>1, FS_AddElement DEF PoolInv
  <2>3. Cardinality(live') = Cardinality(live) - 1
    BY <1>1, LiveIsFinite, FS_RemoveElement
  <2>4. Cardinality(pendingRespawns) \in Nat /\ Cardinality(live) \in Nat /\ forkFailures \in Nat
    BY LiveIsFinite, FS_CardinalityType DEF PoolInv, TypeOK
  <2>5. Cardinality(live) + Cardinality(pendingRespawns) + forkFailures = NumWorkers
    BY <2>1 DEF PoolInv, PoolAccounted
  <2> QED BY <1>1, <2>2, <2>3, <2>4, <2>5
<1> QED BY <1>1, <1>5, <1>6, <1>7 DEF PoolInv

LEMMA PoolRespawn ==
  ASSUME TypeOK, SlotInv, PoolInv, NEW r \in Respawns, RespawnForks(r) \/ RespawnFails(r)
  PROVE  PoolInv'
<1>1. /\ r \in pendingRespawns /\ pendingRespawns' = pendingRespawns \ {r}
      /\ ~stopping /\ ~fatal /\ UNCHANGED <<started, stopping, fatal>>
  BY DEF RespawnForks, RespawnFails
<1>2. /\ IsFiniteSet(pendingRespawns')
      /\ Cardinality(pendingRespawns') = Cardinality(pendingRespawns) - 1
      /\ Cardinality(pendingRespawns) \in Nat /\ Cardinality(live) \in Nat
      /\ forkFailures \in Nat /\ forks \in Nat
  BY <1>1, FS_RemoveElement, FS_CardinalityType, LiveIsFinite DEF PoolInv, TypeOK
<1>3. started => Cardinality(live) + Cardinality(pendingRespawns) + forkFailures = NumWorkers
  BY <1>1 DEF PoolInv, PoolAccounted
<1>4. live \subseteq Nat /\ (\A q \in pendingRespawns : q.of \in Nat) /\ started /\ started'
  BY <1>1 DEF TypeOK, Workers, Respawns, SlotInv, StopPhases
<1>5. CASE RespawnForks(r)
  <2>1. forks' = forks + 1 /\ live' = live \cup {forks + 1} /\ forkFailures' = forkFailures
    BY <1>5 DEF RespawnForks
  <2>2. forks + 1 \notin live /\ \A q \in pendingRespawns : q.of # forks + 1
    BY <1>2, <1>4 DEF PoolInv
  <2>3. Cardinality(live') = Cardinality(live) + 1
    BY <2>1, <2>2, LiveIsFinite, FS_AddElement
  <2>4. PoolAccounted'
    BY <1>1, <1>2, <1>3, <2>1, <2>3 DEF PoolAccounted
  <2>5. /\ \A w \in live' : w <= forks'
        /\ \A q \in pendingRespawns' : q.of <= forks' /\ q.of \notin live'
    <3>1. \A w \in live : w <= forks + 1
      BY <1>2, <1>4 DEF PoolInv
    <3>2. \A q \in pendingRespawns : q.of <= forks + 1 /\ q.of \notin live'
      BY <1>2, <1>4, <2>1, <2>2 DEF PoolInv
    <3> QED BY <1>1, <1>2, <2>1, <3>1, <3>2
  <2> QED BY <1>2, <1>4, <2>4, <2>5 DEF PoolInv
<1>6. CASE RespawnFails(r)
  <2>1. UNCHANGED <<live, forks>> /\ forkFailures' = forkFailures + 1
    BY <1>6 DEF RespawnFails
  <2>2. PoolAccounted'
    BY <1>1, <1>2, <1>3, <2>1 DEF PoolAccounted
  <2> QED BY <1>1, <1>2, <1>4, <2>1, <2>2 DEF PoolInv
<1> QED BY <1>5, <1>6

LEMMA PoolNext == TypeOK /\ SlotInv /\ PoolInv /\ [Next]_vars => PoolInv'
<1> SUFFICES ASSUME TypeOK, SlotInv, PoolInv, [Next]_vars PROVE PoolInv'
  OBVIOUS
<1>1. CASE Start
  <2>1. pendingRespawns = {} /\ live = {} /\ forkFailures' = forkFailures
        /\ live' = 1..NumWorkers /\ pendingRespawns' = {} /\ forks' = NumWorkers
    BY <1>1 DEF Start, SlotInv, StopPhases
  <2>2. Cardinality(live') = NumWorkers /\ Cardinality(pendingRespawns') = 0
    BY <2>1, FS_Interval, FS_EmptySet
  <2>3. forkFailures = 0
    BY <1>1 DEF Start, PoolInv
  <2>4. PoolAccounted'
    BY <2>1, <2>2, <2>3 DEF PoolAccounted
  <2> QED BY <1>1, <2>1, <2>4, FS_EmptySet DEF PoolInv, Start
<1>2. CASE OnSignal
  <2>1. stopping' /\ (pendingRespawns' = {} \/ pendingRespawns' = pendingRespawns)
    BY <1>2 DEF OnSignal, ShutdownCluster, TypeOK
  <2> QED BY <1>2, <2>1, PoolKept DEF OnSignal
<1>3. CASE ForceExit \/ ProcessExit \/ ExitAges
  BY <1>3, PoolKept DEF ForceExit, ProcessExit, ExitAges, envVars
<1>4. ASSUME NEW w \in Workers, OnListening(w) PROVE PoolInv'
  BY <1>4, PoolKept DEF OnListening, envVars
<1>5. ASSUME NEW w \in Workers, OnBootFatal(w) PROVE PoolInv'
  <2>1. CASE fatal \/ w \in listening
    BY <1>5, <2>1, PoolKept DEF OnBootFatal, stopVars
  <2>2. CASE ~(fatal \/ w \in listening)
    <3>1. fatal' /\ (pendingRespawns' = {} \/ pendingRespawns' = pendingRespawns)
      BY <1>5, <2>2 DEF OnBootFatal, ShutdownCluster
    <3> QED BY <1>5, <3>1, PoolKept DEF OnBootFatal
  <2> QED BY <2>1, <2>2
<1>6. ASSUME NEW w \in Workers,
             \/ WorkerReportsBootFatal(w) \/ WorkerHangs(w) \/ WorkerCrashes(w)
             \/ WorkerReceivesShutdown(w) \/ WorkerExits(w)
      PROVE  PoolInv'
  BY <1>6, PoolKept DEF WorkerReportsBootFatal, WorkerHangs, WorkerCrashes,
     WorkerReceivesShutdown, WorkerExits, primaryVars, envVars
<1>7. CASE UNCHANGED vars
  BY <1>7, PoolKept DEF vars, primaryVars, envVars
<1> QED
  BY <1>1, <1>2, <1>3, <1>4, <1>5, <1>6, <1>7, PoolOnExit, PoolRespawn
  DEF Next, PrimaryNext, WorkerNext

\* The pool neither leaks nor gains a slot: every worker of the first fork is
\* live, owed to a timer, or lost to a fork that threw (ClusterSupervisor.js
\* #live, #pendingRespawns).
THEOREM PoolIsAccounted == Spec => []PoolAccounted
<1>1. PoolInv => PoolAccounted
  BY DEF PoolInv
<1> QED
  BY PoolInit, PoolNext, SlotInit, SlotNext, TypeCorrect, <1>1, PTL DEF Spec

-----------------------------------------------------------------------------
(* A stop reaches everyone and reports how it went.                        *)

\* A worker that was live when the stop began is still live, or its end has
\* been collected; and a clean verdict was given with nobody left.
StopInv ==
  /\ StopReachesEveryWorker
  /\ ~stopping => liveAtStop = {}
  /\ \A w \in liveAtStop :
       w \notin live => proc[w] = "dead" /\ (maxExitCode = 0 => exitStatus[w] = "code0")
  /\ verdict = 0 => stopping /\ live = {} /\ maxExitCode = 0

\* shutdown() with the exit codes collected so far.
StopBegun(up, code) ==
  \/ /\ stopping
     /\ UNCHANGED <<stopping, downlink, finished, verdict, liveAtStop>>
  \/ /\ ~stopping /\ stopping' = TRUE
     /\ downlink' = downlink \cup up /\ liveAtStop' = up
     /\ verdict' = verdict \/ (up = {} /\ (verdict' = 0 => code = 0))

LEMMA ShutdownBegins ==
  ASSUME TypeOK, NEW min \in {0, 1}, NEW up, ShutdownCluster(min, up)
  PROVE  StopBegun(up, maxExitCode)
<1>1. stopping \in BOOLEAN /\ maxExitCode \in {0, 1} /\ minExitCode \in {0, 1}
  BY DEF TypeOK
<1>2. Max2(maxExitCode, Max2(minExitCode, min)) = 0 => maxExitCode = 0
  BY <1>1 DEF Max2
<1> QED BY <1>1, <1>2 DEF ShutdownCluster, FinishWith, StopBegun

LEMMA StopInit == Init => StopInv
  BY DEF Init, StopInv, StopReachesEveryWorker, NoCode

\* A step that begins a stop, or does not touch it, and leaves the workers alone.
LEMMA StopKept ==
  ASSUME TypeOK, StopInv, UNCHANGED <<live, maxExitCode, proc, exitStatus>>,
         \/ UNCHANGED <<stopping, downlink, finished, verdict, liveAtStop>>
         \/ StopBegun(live, maxExitCode)
  PROVE  StopInv'
<1> USE DEF StopInv, StopReachesEveryWorker
<1>1. CASE UNCHANGED <<stopping, downlink, finished, verdict, liveAtStop>>
  BY <1>1
<1>2. CASE StopBegun(live, maxExitCode)
  <2>1. verdict # 0 \/ stopping
    BY DEF TypeOK
  <2> QED BY <1>2, <2>1 DEF StopBegun
<1> QED BY <1>1, <1>2

LEMMA StopOnExit ==
  ASSUME TypeOK, SlotInv, StopInv, NEW w \in Workers, OnExit(w)
  PROVE  StopInv'
<1> DEFINE up == live \ {w}
           leaderUp == w # cronLeaderId /\ cronLeaderId \in up
           code == Max2(maxExitCode, ExitCode(exitStatus[w]))
<1>1. /\ w \in live /\ proc[w] = "dead" /\ live' = up
      /\ UNCHANGED <<proc, exitStatus>>
  BY DEF OnExit, workerVars
<1>2. /\ finished => stopping \/ fatal
      /\ verdict # NoCode => finished
      /\ verdict # 0
      /\ stopping \in BOOLEAN /\ fatal \in BOOLEAN
      /\ maxExitCode \in {0, 1} /\ minExitCode \in {0, 1}
  BY <1>1 DEF SlotInv, StopPhases, TypeOK, StopInv
<1>3. code \in {0, 1} /\ (code = 0 => maxExitCode = 0 /\ exitStatus[w] = "code0")
      /\ (Max2(code, minExitCode) = 0 => code = 0)
  BY <1>2 DEF Max2, ExitCode
<1> HIDE DEF up, code
<1>4. CASE stopping
  <2>1. /\ maxExitCode' = code /\ stopping' = stopping
        /\ UNCHANGED <<downlink, liveAtStop>>
        /\ \/ up # {} /\ verdict' = verdict /\ finished' = finished
           \/ up = {} /\ finished' /\ (verdict' = verdict \/ verdict' = Max2(code, minExitCode))
    BY <1>4 DEF OnExit, OnExitNoRespawn, FinishWith, stopVars, up, code
  <2>2. StopReachesEveryWorker'
    BY <1>1, <2>1 DEF StopInv, StopReachesEveryWorker, up
  <2>3. \A v \in liveAtStop' :
          v \notin live' => proc'[v] = "dead" /\ (maxExitCode' = 0 => exitStatus'[v] = "code0")
    BY <1>1, <1>3, <2>1 DEF StopInv, up
  <2>4. verdict' = 0 => stopping' /\ live' = {} /\ maxExitCode' = 0
    BY <1>1, <1>2, <1>3, <1>4, <2>1
  <2> QED BY <1>4, <2>1, <2>2, <2>3, <2>4 DEF StopInv
<1>5. CASE ~stopping
  <2>1. liveAtStop = {}
    BY <1>5 DEF StopInv
  <2>2. ASSUME NEW c, StopBegun(up, c), up # {} PROVE StopInv'
    <3>1. /\ stopping' /\ liveAtStop' = up /\ downlink' = downlink \cup up /\ verdict' = verdict
      BY <1>5, <2>2 DEF StopBegun
    <3> QED BY <1>1, <1>2, <3>1 DEF StopInv, StopReachesEveryWorker
  <2>3. ASSUME UNCHANGED <<stopping, liveAtStop>>, verdict' = verdict \/ verdict' = 1
        PROVE  StopInv'
    BY <1>2, <1>5, <2>1, <2>3 DEF StopInv, StopReachesEveryWorker
  <2>4. ASSUME ShutdownCluster(1, up), up # {} PROVE StopInv'
    BY <2>2, <2>4, ShutdownBegins
  <2>5. CASE fatal
    <3>1. \/ up = {} /\ FinishWith(1) /\ UNCHANGED <<stopping, liveAtStop>>
          \/ up # {} /\ ShutdownCluster(1, up)
          \/ UNCHANGED stopVars
      BY <1>5, <2>5 DEF OnExit, OnExitNoRespawn, up
    <3> QED BY <2>3, <2>4, <3>1 DEF FinishWith, stopVars
  <2>6. CASE ~fatal
    <3>1. \/ up = {} /\ FinishWith(1) /\ UNCHANGED <<stopping, liveAtStop>>
          \/ up # {} /\ ShutdownCluster(1, up)
          \/ UNCHANGED stopVars
      BY <1>5, <2>6 DEF OnExit, TripCrashLoop, ScheduleRespawn, up
    <3> QED BY <2>3, <2>4, <3>1 DEF FinishWith, stopVars
  <2> QED BY <1>2, <2>5, <2>6
<1> QED BY <1>2, <1>4, <1>5

LEMMA StopNext == TypeOK /\ SlotInv /\ RunningIsLive /\ StopInv /\ [Next]_vars => StopInv'
<1> SUFFICES ASSUME TypeOK, SlotInv, RunningIsLive, StopInv, [Next]_vars PROVE StopInv'
  OBVIOUS
<1>1. CASE Start
  <2>1. ~stopping /\ verdict # 0
    BY <1>1 DEF Start, SlotInv, StopPhases, StopInv
  <2> QED BY <1>1, <2>1 DEF Start, StopInv, StopReachesEveryWorker
<1>2. CASE OnSignal
  <2>1. StopBegun(live, maxExitCode)
    BY <1>2, ShutdownBegins DEF OnSignal
  <2> QED BY <1>2, <2>1, StopKept DEF OnSignal, workerVars
<1>3. CASE ForceExit
  <2>1. /\ finished' /\ verdict' = 1 /\ UNCHANGED <<stopping, live, maxExitCode, liveAtStop>>
        /\ \A v \in Workers : v \notin live => proc'[v] = proc[v] /\ exitStatus'[v] = exitStatus[v]
    BY <1>3 DEF ForceExit, envVars
  <2>2. liveAtStop \subseteq Workers
    BY DEF TypeOK
  <2> QED BY <2>1, <2>2 DEF StopInv, StopReachesEveryWorker
<1>4. CASE ProcessExit \/ ExitAges
  BY <1>4, StopKept DEF ProcessExit, ExitAges, workerVars, envVars
<1>5. ASSUME NEW w \in Workers, OnBootFatal(w) PROVE StopInv'
  <2>1. UNCHANGED <<live, maxExitCode, proc, exitStatus>>
    BY <1>5 DEF OnBootFatal
  <2>2. \/ UNCHANGED <<stopping, downlink, finished, verdict, liveAtStop>>
        \/ StopBegun(live, maxExitCode)
    BY <1>5, ShutdownBegins DEF OnBootFatal, stopVars
  <2> QED BY <2>1, <2>2, StopKept
<1>6. ASSUME NEW r \in Respawns, RespawnForks(r) PROVE StopInv'
  BY <1>6 DEF RespawnForks, StopInv, StopReachesEveryWorker
<1>7. ASSUME NEW r \in Respawns, RespawnFails(r) PROVE StopInv'
  BY <1>7, StopKept DEF RespawnFails, workerVars
\* A worker process changes only itself, and never once it is dead.
<1>8. ASSUME NEW w \in Workers, proc[w] # "dead", UNCHANGED primaryVars, liveAtStop' = liveAtStop,
             \A v \in Workers \ {w} : proc'[v] = proc[v] /\ exitStatus'[v] = exitStatus[v],
             \/ downlink' = downlink /\ proc'[w] = proc[w]
             \/ downlink' = downlink /\ proc'[w] \in {"failing", "dead"}
             \/ downlink' = downlink /\ proc[w] \notin {"stopping", "failing"}
             \/ downlink' = downlink \ {w} /\ proc'[w] \in {"stopping", "failing"}
      PROVE  StopInv'
  <2>1. UNCHANGED <<stopping, finished, live, maxExitCode, verdict>>
    BY <1>8 DEF primaryVars
  <2>2. liveAtStop \subseteq Workers /\ live \subseteq Workers
    BY DEF TypeOK
  <2>3. StopReachesEveryWorker'
    BY <1>8, <2>1, <2>2 DEF StopInv, StopReachesEveryWorker
  <2> QED BY <1>8, <2>1, <2>2, <2>3 DEF StopInv
<1>9. ASSUME NEW w \in Workers, OnListening(w) PROVE StopInv'
  <2>1. /\ UNCHANGED <<stopping, finished, live, maxExitCode, verdict, downlink, liveAtStop, exitStatus>>
        /\ proc[w] = "booting" /\ proc' = [proc EXCEPT ![w] = "serving"]
    BY <1>9 DEF OnListening, envVars
  <2>2. proc \in [Workers -> ProcStates] /\ liveAtStop \subseteq Workers /\ live \subseteq Workers
    BY DEF TypeOK
  <2> QED BY <2>1, <2>2 DEF StopInv, StopReachesEveryWorker
<1>10. ASSUME NEW w \in Workers,
              \/ WorkerReportsBootFatal(w) \/ WorkerHangs(w) \/ WorkerCrashes(w)
              \/ WorkerReceivesShutdown(w) \/ WorkerExits(w)
       PROVE  StopInv'
  <2>1. proc \in [Workers -> ProcStates] /\ exitStatus \in [Workers -> ExitStatuses]
    BY DEF TypeOK
  <2>2. CASE WorkerReportsBootFatal(w)
    BY <1>8, <2>1, <2>2 DEF WorkerReportsBootFatal
  <2>3. CASE WorkerHangs(w)
    BY <1>8, <2>1, <2>3 DEF WorkerHangs, envVars
  <2>4. CASE WorkerCrashes(w)
    BY <1>8, <2>1, <2>4 DEF WorkerCrashes
  <2>5. CASE WorkerReceivesShutdown(w)
    BY <1>8, <2>1, <2>5 DEF WorkerReceivesShutdown
  <2>6. CASE WorkerExits(w)
    <3>1. PICK status \in {"code0", "code1"} : exitStatus' = [exitStatus EXCEPT ![w] = status]
      BY <2>6 DEF WorkerExits
    <3> QED BY <1>8, <2>1, <2>6, <3>1 DEF WorkerExits, envVars
  <2> QED BY <1>10, <2>2, <2>3, <2>4, <2>5, <2>6
<1>11. CASE UNCHANGED vars
  BY <1>11, StopKept DEF vars, primaryVars, workerVars, envVars
<1> QED
  BY <1>1, <1>2, <1>3, <1>4, <1>5, <1>6, <1>7, <1>9, <1>10, <1>11, StopOnExit
  DEF Next, PrimaryNext, WorkerNext

\* A stop reaches every live worker, the booting ones included, and exit code 0
\* means that every one of them ended with code 0 (ClusterSupervisor.js
\* shutdown, _onExit, _finish).
THEOREM StopIsOrderlyTheorem == Spec => []StopIsOrderly
<1>1. StopInv => StopIsOrderly
  BY DEF StopInv, StopIsOrderly, CleanExitIsClean
<1> QED
  BY StopInit, StopNext, SlotInit, SlotNext, RunningInit, RunningNext, TypeCorrect, <1>1, PTL
  DEF Spec

=============================================================================
