------------------------- MODULE ClusterSupervisor -------------------------
(***************************************************************************)
(* The cluster primary: it forks the workers, keeps exactly one of them    *)
(* stamped as the cron leader, respawns the dead with a backoff, gives up  *)
(* when they die too often (crash loop) or cannot boot at all (boot        *)
(* fatal), and stops the whole cluster on a signal.                        *)
(*   Backend/src/utils/cluster/ClusterSupervisor.js, utils/clusterRole.js  *)
(*                                                                         *)
(* Every handler of the primary runs to its end on the event loop, so each *)
(* is one action.  The workers are the environment: processes that boot,   *)
(* serve, crash, hang, report a fatal boot and obey SHUTDOWN               *)
(* (Backend/server.js, the worker branch).  A worker's IPC messages reach  *)
(* the primary in order, but the "exit" event of its process may overtake  *)
(* them.  "listening" is handled as it is sent: whatever the worker sends   *)
(* later is handled after it.                                              *)
(***************************************************************************)
EXTENDS Naturals, FiniteSets

CONSTANTS
  NumWorkers,       \* workers forked at start
  CrashLoopMax,     \* exits within the window that disable respawning
  MaxCrashes,       \* bound: exits nobody asked for
  MaxForkFailures   \* bound: cluster.fork calls that throw

ASSUME NumWorkersAssumption      == NumWorkers \in Nat \ {0}
ASSUME CrashLoopMaxAssumption    == CrashLoopMax \in Nat \ {0}
ASSUME MaxCrashesAssumption      == MaxCrashes \in Nat
ASSUME MaxForkFailuresAssumption == MaxForkFailures \in Nat

\* cluster.fork numbers the workers 1, 2, ...; at most one fork per crash.
Workers  == 1..(NumWorkers + MaxCrashes)
NoWorker == 0
NoCode   == 2

VARIABLES
  started,          \* #started
  live,             \* keys of #live
  leaderEnv,        \* workers whose #workerLeaderEnv entry is "true"
  cronLeaderId,     \* #cronLeaderId, NoWorker for null
  pendingRespawns,  \* #pendingRespawns: [of |-> worker replaced, wasLeader |-> ...]
  listening,        \* #listening
  stopping,         \* #stopping
  fatal,            \* #fatal
  maxExitCode,      \* #maxExitCode
  minExitCode,      \* #minExitCode
  recentExits,      \* exits in #exitTimes that are still inside the window
  failsafeArmed,    \* #failsafeTimer pending
  finished,         \* #finished
  verdict,          \* code handed to _exit, NoCode before
  exited,           \* the primary process is gone
  alarm             \* last verdict of _verifyLeaderInvariant that was mailed

VARIABLES
  proc,             \* what each worker process is doing
  exitStatus,       \* how it ended: "code0", "code1" or "signal"
  bootFatals,       \* workers whose BOOT_FATAL is not yet handled
  downlink,         \* workers with a SHUTDOWN message under way
  forks,            \* worker ids given out so far
  crashes,          \* exits nobody asked for so far
  forkFailures,     \* forks that threw so far
  liveAtStop        \* history: live workers when the stop began

primaryVars == <<started, live, leaderEnv, cronLeaderId, pendingRespawns,
                 listening, stopping, fatal, maxExitCode, minExitCode,
                 recentExits, failsafeArmed, finished, verdict, exited, alarm>>
workerVars  == <<proc, exitStatus, bootFatals>>
envVars     == <<downlink, forks, crashes, forkFailures, liveAtStop>>
vars        == <<primaryVars, workerVars, envVars>>

electionVars == <<live, leaderEnv, cronLeaderId, forks, alarm>>
stopVars     == <<stopping, minExitCode, downlink, failsafeArmed, finished,
                  verdict, liveAtStop>>

Max2(a, b) == IF a >= b THEN a ELSE b

Respawns     == [of : Workers, wasLeader : BOOLEAN]
ProcStates   == {"unborn", "booting", "serving", "hung", "failing",
                 "stopping", "dead"}
Running(w)   == proc[w] \in {"booting", "serving", "hung", "failing", "stopping"}
ExitStatuses == {"none", "code0", "code1", "signal"}

\* Deviation: a worker killed by a signal counts as clean.
ExitCodeSignalIsClean(status) == IF status = "code1" THEN 1 ELSE 0

\* A worker killed by a signal (or with no code) counts as 1.
ExitCode(status) == IF status = "code0" THEN 0 ELSE 1

-----------------------------------------------------------------------------
(* The decisions of clusterRole.js and the state predicates of the class.  *)

\* electionHealth: the number of "true" stamps is the leader count.
ElectionVerdict(stamped) ==
  IF Cardinality(stamped) = 1 THEN "ok"
  ELSE IF Cardinality(stamped) = 0 THEN "noLeader" ELSE "manyLeaders"

\* Deviation: the fired timer still counts as a pending respawn.
VerifyLeaderInvariantTooEarly(stamped, pending) ==
  alarm' = IF stopping \/ fatal \/ pendingRespawns # {} THEN alarm
           ELSE ElectionVerdict(stamped)

\* _verifyLeaderInvariant, over the state the calling handler leaves behind;
\* it says nothing while stopping, after a fatal or with a respawn pending.
VerifyLeaderInvariant(stamped, pending) ==
  alarm' = IF stopping \/ fatal \/ pending # {} THEN alarm
           ELSE ElectionVerdict(stamped)

\* Deviation: one exit too many is tolerated.
CrashLoopTrippedLate(exits) == exits > CrashLoopMax

CrashLoopTripped(exits) == exits >= CrashLoopMax

-----------------------------------------------------------------------------
(* Stop plumbing, called from several handlers.                            *)

\* _finish / _finishNoWorkers: once only, the failsafe is disarmed.
FinishWith(code) ==
  /\ verdict' = IF finished THEN verdict ELSE code
  /\ finished' = TRUE
  /\ failsafeArmed' = IF finished THEN failsafeArmed ELSE FALSE

\* Deviation: only the workers past their boot are told to stop.
ShutdownListeningOnly(min, up) ==
  /\ minExitCode' = Max2(minExitCode, min)
  /\ IF stopping
       THEN UNCHANGED <<stopping, pendingRespawns, downlink, failsafeArmed,
                        finished, verdict, liveAtStop>>
       ELSE /\ stopping' = TRUE
            /\ pendingRespawns' = {}
            /\ downlink' = downlink \cup (up \cap listening)
            /\ liveAtStop' = up
            /\ failsafeArmed' = TRUE
            /\ UNCHANGED <<finished, verdict>>

\* Deviation: no failsafe behind the stop, and the respawn timers go on.
ShutdownWithoutFailsafe(min, up) ==
  /\ minExitCode' = Max2(minExitCode, min)
  /\ stopping' = TRUE
  /\ downlink' = IF stopping THEN downlink ELSE downlink \cup up
  /\ liveAtStop' = IF stopping THEN liveAtStop ELSE up
  /\ UNCHANGED <<pendingRespawns, failsafeArmed, finished, verdict>>

\* shutdown(signal, {minExitCode}), the live workers being `up`.
ShutdownCluster(min, up) ==
  /\ minExitCode' = Max2(minExitCode, min)
  /\ IF stopping
       THEN UNCHANGED <<stopping, pendingRespawns, downlink, failsafeArmed,
                        finished, verdict, liveAtStop>>
       ELSE /\ stopping' = TRUE
            /\ pendingRespawns' = {}
            /\ downlink' = downlink \cup up
            /\ liveAtStop' = up
            /\ IF up = {}
                 THEN FinishWith(Max2(maxExitCode, Max2(minExitCode, min)))
                 ELSE /\ failsafeArmed' = TRUE
                      /\ UNCHANGED <<finished, verdict>>

-----------------------------------------------------------------------------
Init ==
  /\ started = FALSE /\ stopping = FALSE /\ fatal = FALSE
  /\ live = {} /\ leaderEnv = {} /\ cronLeaderId = NoWorker
  /\ pendingRespawns = {} /\ listening = {}
  /\ maxExitCode = 0 /\ minExitCode = 0 /\ recentExits = 0
  /\ failsafeArmed = FALSE /\ finished = FALSE /\ verdict = NoCode
  /\ exited = FALSE /\ alarm = "ok"
  /\ proc = [w \in Workers |-> "unborn"]
  /\ exitStatus = [w \in Workers |-> "none"]
  /\ bootFatals = {} /\ downlink = {} /\ liveAtStop = {}
  /\ forks = 0 /\ crashes = 0 /\ forkFailures = 0

\* start(): worker 1 carries the cron schedule; then the signals are wired.
Start ==
  /\ ~started
  /\ started' = TRUE
  /\ forks' = NumWorkers
  /\ live' = 1..NumWorkers
  /\ leaderEnv' = {1}
  /\ cronLeaderId' = 1
  /\ proc' = [w \in Workers |-> IF w <= NumWorkers THEN "booting" ELSE "unborn"]
  /\ VerifyLeaderInvariant({1}, {})
  /\ UNCHANGED <<pendingRespawns, listening, stopping, fatal, maxExitCode,
                 minExitCode, recentExits, failsafeArmed, finished, verdict,
                 exited, exitStatus, bootFatals, downlink, crashes, forkFailures,
                 liveAtStop>>

\* SIGTERM, SIGINT or SIGBREAK reaches the primary, at any time, repeatedly.
OnSignal ==
  /\ started /\ ~exited
  /\ ShutdownCluster(0, live)
  /\ UNCHANGED <<started, live, leaderEnv, cronLeaderId, listening, fatal,
                 maxExitCode, recentExits, exited, alarm, workerVars, forks,
                 crashes, forkFailures>>

\* The worker's server listens: it is past its boot.
OnListening(w) ==
  /\ proc[w] = "booting" /\ ~exited
  /\ proc' = [proc EXCEPT ![w] = "serving"]
  /\ listening' = listening \cup {w}
  /\ UNCHANGED <<started, live, leaderEnv, cronLeaderId, pendingRespawns,
                 stopping, fatal, maxExitCode, minExitCode, recentExits,
                 failsafeArmed, finished, verdict, exited, alarm,
                 exitStatus, bootFatals, envVars>>

\* Deviation: one worker may still be up when the primary finishes.
OnExitFinishesEarly(w, up) ==
  /\ maxExitCode' = Max2(maxExitCode, ExitCode(exitStatus[w]))
  /\ UNCHANGED <<fatal, recentExits, alarm, pendingRespawns, stopping,
                 minExitCode, downlink, liveAtStop>>
  /\ IF Cardinality(up) <= 1 THEN FinishWith(1)
     ELSE UNCHANGED <<failsafeArmed, finished, verdict>>

\* _onExit while stopping or fatal: collect the code, stop when nobody is left.
OnExitNoRespawn(w, up) ==
  LET code == Max2(maxExitCode, ExitCode(exitStatus[w])) IN
  /\ maxExitCode' = code
  /\ UNCHANGED <<fatal, recentExits, alarm>>
  /\ \/ /\ up = {}
        /\ FinishWith(IF stopping THEN Max2(code, minExitCode) ELSE 1)
        /\ UNCHANGED <<pendingRespawns, stopping, minExitCode, downlink,
                       liveAtStop>>
     \/ /\ up # {}
        /\ IF fatal /\ ~stopping /\ w = cronLeaderId
             THEN ShutdownCluster(1, up)              \* LEADER_LOST
             ELSE UNCHANGED <<pendingRespawns, stopVars>>

\* Deviation: the siblings keep serving although the leader is gone.
TripCrashLoopServing(up, leaderUp) ==
  /\ fatal' = TRUE
  /\ pendingRespawns' = {}
  /\ UNCHANGED <<maxExitCode, alarm>>
  /\ IF up = {} THEN FinishWith(1)
     ELSE UNCHANGED <<failsafeArmed, finished, verdict>>
  /\ UNCHANGED <<stopping, minExitCode, downlink, liveAtStop>>

\* _tripCrashLoop: no fork ever again; a cluster without its leader stops.
TripCrashLoop(up, leaderUp) ==
  /\ fatal' = TRUE
  /\ UNCHANGED <<maxExitCode, alarm>>
  /\ \/ /\ up = {}
        /\ pendingRespawns' = {}
        /\ FinishWith(1)
        /\ UNCHANGED <<stopping, minExitCode, downlink, liveAtStop>>
     \/ /\ up # {} /\ ~leaderUp
        /\ ShutdownCluster(1, up)                     \* CRASH_LOOP
     \/ /\ up # {} /\ leaderUp
        /\ pendingRespawns' = {}
        /\ UNCHANGED stopVars

\* Deviation: wasLeader read after cronLeaderId was reset.
ScheduleRespawnLateRead(w) ==
  /\ pendingRespawns' = pendingRespawns \cup
        {[of |-> w, wasLeader |-> cronLeaderId \in {w, NoWorker}]}
  /\ UNCHANGED <<fatal, maxExitCode, alarm, stopVars>>

\* Deviation: only the leader's slot is refilled.
ScheduleRespawnLeaderOnly(w) ==
  /\ pendingRespawns' = IF w = cronLeaderId
       THEN pendingRespawns \cup {[of |-> w, wasLeader |-> TRUE]}
       ELSE pendingRespawns
  /\ UNCHANGED <<fatal, maxExitCode, alarm, stopVars>>

ScheduleRespawn(w) ==
  /\ pendingRespawns' = pendingRespawns \cup
                          {[of |-> w, wasLeader |-> w = cronLeaderId]}
  /\ UNCHANGED <<fatal, maxExitCode, alarm, stopVars>>

OnExit(w) ==
  LET up       == live \ {w}
      leaderUp == w # cronLeaderId /\ cronLeaderId \in up IN
  /\ ~exited
  /\ w \in live /\ proc[w] = "dead"
  /\ live' = up
  /\ leaderEnv' = leaderEnv \ {w}
  /\ listening' = listening \ {w}
  /\ cronLeaderId' = IF w = cronLeaderId THEN NoWorker ELSE cronLeaderId
  /\ IF stopping \/ fatal
       THEN OnExitNoRespawn(w, up)
       ELSE /\ recentExits' = recentExits + 1
            /\ IF CrashLoopTripped(recentExits + 1)
                 THEN TripCrashLoop(up, leaderUp)
                 ELSE ScheduleRespawn(w)
  /\ UNCHANGED <<started, exited, workerVars, forks, crashes, forkFailures>>

\* The oldest exit leaves the crash-loop window.
ExitAges ==
  /\ recentExits > 0 /\ ~stopping /\ ~fatal
  /\ recentExits' = recentExits - 1
  /\ UNCHANGED <<started, live, leaderEnv, cronLeaderId, pendingRespawns,
                 listening, stopping, fatal, maxExitCode, minExitCode,
                 failsafeArmed, finished, verdict, exited, alarm, workerVars,
                 envVars>>

\* The respawn timer fires and cluster.fork succeeds.
RespawnForks(r) ==
  LET w == forks + 1 IN
  /\ w \in Workers
  /\ r \in pendingRespawns /\ ~exited /\ ~stopping /\ ~fatal
  /\ pendingRespawns' = pendingRespawns \ {r}
  /\ forks' = w
  /\ proc' = [proc EXCEPT ![w] = "booting"]
  /\ live' = live \cup {w}
  /\ leaderEnv' = IF r.wasLeader THEN leaderEnv \cup {w} ELSE leaderEnv
  /\ cronLeaderId' = IF r.wasLeader THEN w ELSE cronLeaderId
  /\ VerifyLeaderInvariant(leaderEnv', pendingRespawns')
  /\ UNCHANGED <<started, listening, stopping, fatal, maxExitCode, minExitCode,
                 recentExits, failsafeArmed, finished, verdict, exited,
                 exitStatus, bootFatals, downlink, crashes, forkFailures,
                 liveAtStop>>

\* The respawn timer fires and cluster.fork throws: logged, never retried.
RespawnFails(r) ==
  /\ r \in pendingRespawns /\ ~exited /\ ~stopping /\ ~fatal
  /\ forkFailures < MaxForkFailures
  /\ forkFailures' = forkFailures + 1
  /\ pendingRespawns' = pendingRespawns \ {r}
  /\ VerifyLeaderInvariant(leaderEnv, pendingRespawns')
  /\ UNCHANGED <<started, live, leaderEnv, cronLeaderId, listening, stopping,
                 fatal, maxExitCode, minExitCode, recentExits, failsafeArmed,
                 finished, verdict, exited, workerVars, downlink, forks,
                 crashes, liveAtStop>>

\* BOOT_FATAL of w, handled before or after the exit of its process.
OnBootFatal(w) ==
  /\ ~exited
  /\ w \in bootFatals
  /\ bootFatals' = bootFatals \ {w}
  /\ IF fatal \/ w \in listening
       THEN UNCHANGED <<fatal, pendingRespawns, stopVars>>
       ELSE /\ fatal' = TRUE
            /\ IF stopping
                 THEN /\ pendingRespawns' = {}
                      /\ minExitCode' = 1
                      /\ UNCHANGED <<stopping, downlink, failsafeArmed,
                                     finished, verdict, liveAtStop>>
                 ELSE ShutdownCluster(1, live)
  /\ UNCHANGED <<started, live, leaderEnv, cronLeaderId, listening, maxExitCode,
                 recentExits, exited, alarm, proc, exitStatus, forks, crashes,
                 forkFailures>>

\* _forceExit: SIGKILL what is left, exit 1.
ForceExit ==
  /\ failsafeArmed /\ ~finished /\ ~exited
  /\ failsafeArmed' = FALSE
  /\ finished' = TRUE
  /\ verdict' = 1
  /\ proc' = [w \in Workers |-> IF w \in live THEN "dead" ELSE proc[w]]
  /\ exitStatus' = [w \in Workers |-> IF w \in live /\ Running(w) THEN "signal"
                                      ELSE exitStatus[w]]
  /\ UNCHANGED <<started, live, leaderEnv, cronLeaderId, pendingRespawns,
                 listening, stopping, fatal, maxExitCode, minExitCode,
                 recentExits, exited, alarm, bootFatals, envVars>>

\* _exit(code), after the log flush.
ProcessExit ==
  /\ verdict # NoCode /\ ~exited
  /\ exited' = TRUE
  /\ UNCHANGED <<started, live, leaderEnv, cronLeaderId, pendingRespawns,
                 listening, stopping, fatal, maxExitCode, minExitCode,
                 recentExits, failsafeArmed, finished, verdict, alarm,
                 workerVars, envVars>>

-----------------------------------------------------------------------------
(* The worker processes, as long as the primary lives.                     *)

\* reportBootFatal: PFX missing or port taken at boot, or an EACCES later on.
WorkerReportsBootFatal(w) ==
  /\ proc[w] \in {"booting", "serving"}
  /\ crashes < MaxCrashes
  /\ crashes' = crashes + 1
  /\ proc' = [proc EXCEPT ![w] = "failing"]
  /\ bootFatals' = bootFatals \cup {w}
  /\ UNCHANGED <<primaryVars, exitStatus, downlink, forks, forkFailures,
                 liveAtStop>>

WorkerHangs(w) ==
  /\ proc[w] = "serving"
  /\ proc' = [proc EXCEPT ![w] = "hung"]
  /\ UNCHANGED <<primaryVars, exitStatus, bootFatals, envVars>>

\* Killed from outside, out of memory, an abort: ended by a signal.
WorkerCrashes(w) ==
  /\ proc[w] \in {"booting", "serving"}
  /\ crashes < MaxCrashes
  /\ crashes' = crashes + 1
  /\ proc' = [proc EXCEPT ![w] = "dead"]
  /\ exitStatus' = [exitStatus EXCEPT ![w] = "signal"]
  /\ UNCHANGED <<primaryVars, bootFatals, downlink, forks, forkFailures,
                 liveAtStop>>

\* process.on("message") with SHUTDOWN: gracefulShutdown begins, once.
WorkerReceivesShutdown(w) ==
  /\ w \in downlink /\ proc[w] \in {"booting", "serving", "failing"}
  /\ downlink' = downlink \ {w}
  /\ proc' = [proc EXCEPT ![w] = IF proc[w] = "failing" THEN "failing"
                                 ELSE "stopping"]
  /\ UNCHANGED <<primaryVars, exitStatus, bootFatals, forks, crashes, forkFailures,
                 liveAtStop>>

\* process.exit: 0 or 1 after a graceful stop, 1 after a fatal one.
WorkerExits(w) ==
  /\ proc[w] \in {"stopping", "failing"}
  /\ \E status \in {"code0", "code1"} :
       /\ proc[w] = "failing" => status = "code1"
       /\ exitStatus' = [exitStatus EXCEPT ![w] = status]
  /\ proc' = [proc EXCEPT ![w] = "dead"]
  /\ UNCHANGED <<primaryVars, bootFatals, envVars>>

-----------------------------------------------------------------------------
PrimaryNext ==
  \/ Start \/ OnSignal \/ ForceExit \/ ProcessExit \/ ExitAges
  \/ \E w \in Workers : OnListening(w) \/ OnExit(w) \/ OnBootFatal(w)
  \/ \E r \in Respawns : RespawnForks(r) \/ RespawnFails(r)

WorkerNext ==
  /\ ~exited
  /\ \E w \in Workers :
       \/ WorkerReportsBootFatal(w) \/ WorkerHangs(w)
       \/ WorkerCrashes(w) \/ WorkerReceivesShutdown(w) \/ WorkerExits(w)

Next == PrimaryNext \/ WorkerNext

Spec == Init /\ [][Next]_vars

\* The event loop runs every handler that is due and every timer fires; a
\* worker that is stopping leaves (its own failsafe), one that is not hung
\* reads its messages.  Nobody is obliged to crash, hang or be stopped.
Fairness ==
  /\ WF_vars(Start) /\ WF_vars(ForceExit) /\ WF_vars(ProcessExit)
  /\ \A w \in Workers :
       /\ WF_vars(OnListening(w)) /\ WF_vars(OnExit(w))
       /\ WF_vars(OnBootFatal(w))
       /\ WF_vars(~exited /\ WorkerReceivesShutdown(w))
       /\ WF_vars(~exited /\ WorkerExits(w))
  /\ \A r \in Respawns : WF_vars(RespawnForks(r) \/ RespawnFails(r))

FairSpec == Spec /\ Fairness

-----------------------------------------------------------------------------
(* Properties.                                                             *)

\* Every variable keeps to the values the class gives it; the exit window
\* never holds more than CRASH_LOOP_MAX entries, as the header promises.
TypeOK ==
  /\ started \in BOOLEAN /\ stopping \in BOOLEAN /\ fatal \in BOOLEAN
  /\ failsafeArmed \in BOOLEAN /\ finished \in BOOLEAN /\ exited \in BOOLEAN
  /\ live \subseteq Workers /\ leaderEnv \subseteq Workers
  /\ listening \subseteq Workers
  /\ cronLeaderId \in Workers \cup {NoWorker}
  /\ pendingRespawns \subseteq Respawns
  /\ maxExitCode \in {0, 1} /\ minExitCode \in {0, 1}
  /\ recentExits \in 0..CrashLoopMax
  /\ verdict \in {0, 1, NoCode}
  /\ alarm \in {"ok", "noLeader", "manyLeaders"}
  /\ proc \in [Workers -> ProcStates]
  /\ exitStatus \in [Workers -> ExitStatuses]
  /\ bootFatals \subseteq Workers
  /\ downlink \subseteq Workers /\ liveAtStop \subseteq Workers
  /\ forks \in 0..(NumWorkers + MaxCrashes)
  /\ crashes \in 0..MaxCrashes /\ forkFailures \in 0..MaxForkFailures

\* "Exactly one process must run the cron jobs" (clusterRole.js): at any time
\* the leader stamp is on one live worker, or owed to one pending respawn, or
\* nowhere - never on two, and #cronLeaderId always names the stamped worker.
OneLeaderSlot ==
  /\ leaderEnv = (IF cronLeaderId = NoWorker THEN {} ELSE {cronLeaderId})
  /\ leaderEnv \subseteq live
  /\ \A r \in pendingRespawns : r.wasLeader =>
       /\ cronLeaderId = NoWorker
       /\ \A q \in pendingRespawns : q.wasLeader => q = r

\* "A zero-leader cluster is loud, not silent" (clusterRole.js): a running
\* cluster with no leader and no respawn pending has mailed the alarm.
LeaderlessIsLoud ==
  started /\ ~stopping /\ ~fatal /\ leaderEnv = {} /\ pendingRespawns = {}
    => alarm = "noLeader"

\* A crash-looped cluster that goes on serving still has its cron leader:
\* with respawning off, siblings alone would silently stop the schedule.
DegradedKeepsLeader ==
  fatal /\ ~stopping /\ ~finished => leaderEnv # {}

\* The pool never leaks or gains a slot: while respawning is on, every worker
\* forked at start is live, owed to a timer, or lost to a failed fork.
PoolAccounted ==
  started /\ ~stopping /\ ~fatal =>
    Cardinality(live) + Cardinality(pendingRespawns) + forkFailures = NumWorkers

\* A stop reaches every live worker, the ones still booting included.
StopReachesEveryWorker ==
  stopping /\ ~finished =>
    \A w \in live : w \in downlink \/ proc[w] \in {"stopping", "failing", "dead"}

\* Exit code 0 is never a lie: every worker live when the stop began ended
\* with code 0 by itself, none by a signal.
CleanExitIsClean ==
  verdict = 0 => \A w \in liveAtStop : exitStatus[w] = "code0"

\* A stop reaches everyone and reports how it went.
StopIsOrderly == StopReachesEveryWorker /\ CleanExitIsClean

\* The primary leaves no worker process running behind it.
NoOrphans == exited => \A w \in Workers : ~Running(w)

\* Once a stop or a fatal has begun nothing is forked, whatever timers were
\* under way, and the exit code once decided is never revised.
StopIsFinal ==
  [][/\ stopping \/ fatal => forks' = forks /\ pendingRespawns' = {}
     /\ verdict # NoCode => verdict' = verdict]_vars

\* A stop always ends, hung workers or not.
StopEnds == stopping ~> exited

\* "... the cluster has zero leaders until the next retry"
\* (ClusterSupervisor.js, the respawn timer): a lost leader is replaced, unless
\* the cluster exits.  (A fork that throws is exempt: nothing retries it.)
LeaderReturns ==
  started /\ cronLeaderId = NoWorker
    ~> cronLeaderId # NoWorker \/ exited \/ forkFailures > 0
=============================================================================
