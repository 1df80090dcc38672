----------------------------- MODULE OraclePool ------------------------------
(***************************************************************************)
(* One connection pool of a process: its creation, acquires, the circuit   *)
(* breaker and its monitor, and the close at shutdown.                     *)
(*   Backend/src/config/adapters/oracle.js                                 *)
(*   Backend/src/services/ReadinessService.js   the probe past the breaker *)
(*                                                                         *)
(* getConnection of the driver resolves or rejects at any time: an acquire *)
(* that timed out leaves a request behind that may still be granted.       *)
(***************************************************************************)
EXTENDS Naturals, FiniteSets, Sequences

CONSTANTS
  Callers,     \* bound: calls of withConnection
  PoolMax,     \* poolMax
  MaxAttempts, \* ACQUIRE_MAX_ATTEMPTS
  MaxRetries,  \* _createPool's MAX_RETRIES
  MaxFailures, \* _maxFailures
  MaxChecks    \* bound: health checks

VARIABLES
  entry,    \* the name's entry in poolRegistry, and the driver's pool
  tries,    \* attempts of the creation under way
  call,     \* per caller
  asked,    \* requests for a connection at the driver, [by, n]
  inUse,    \* connections checked out
  orphans,  \* of them, granted to nobody and being closed
  check,    \* the health check in flight
  nudged,   \* a nudge's timer
  fails, healthy,
  phase,    \* of closeAll
  checks,
  recent    \* history: the last checks and probes of the pool, newest first

vars == <<entry, tries, call, asked, inUse, orphans, check, nudged, fails,
          healthy, phase, checks, recent>>

Users == Callers \cup {"check"}
Idle  == [pc |-> "idle", n |-> 0, probe |-> FALSE]

Init ==
  /\ entry = "none" /\ tries = 0
  /\ call = [c \in Callers |-> Idle]
  /\ asked = {} /\ inUse = 0 /\ orphans = 0
  /\ check = "no" /\ nudged = FALSE
  /\ fails = 0 /\ healthy = TRUE
  /\ phase = "serving" /\ checks = 0 /\ recent = <<>>

-----------------------------------------------------------------------------
(* PoolHealthMonitor: what a verdict changes.                              *)

Seen(ok) == recent' = SubSeq(<<ok>> \o recent, 1,
              IF Len(recent) < MaxFailures THEN Len(recent) + 1 ELSE MaxFailures)

\* checkPool's end.
Verdict(ok) ==
  /\ check' = "no" /\ Seen(ok)
  /\ fails' = IF ok THEN 0 ELSE fails + 1
  /\ healthy' = IF ok THEN TRUE ELSE healthy /\ fails' < MaxFailures

\* Deviation: only the breaker is set, the count stays.
ProbeKeepsCount == healthy' = TRUE /\ UNCHANGED fails

\* recordProbeSuccess.
ProbeSuccess == healthy' = TRUE /\ fails' = 0

Nudge == nudged' = (nudged \/ phase = "serving")

-----------------------------------------------------------------------------
(* Pool lifecycle.                                                         *)

\* What withConnection or a check does once it has the pool.
Asks(who, at) ==
  /\ asked' = asked \cup {[by |-> c, n |-> 1] : c \in who}
  /\ call' = [c \in Callers |-> IF c \in who THEN [at[c] EXCEPT !.pc = "wait", !.n = 1] ELSE at[c]]
  /\ check' = IF "check" \in who THEN "get" ELSE check

Waiting == {c \in Callers : call[c].pc = "pool"} \cup (IF check = "pool" THEN {"check"} ELSE {})

\* _createPool succeeds: everybody who waits for the promise goes on.
Created ==
  /\ entry = "creating" /\ entry' = "ready"
  /\ Asks(Waiting, call)
  /\ UNCHANGED <<tries, inUse, orphans, nudged, fails, healthy, phase, checks, recent>>

\* An attempt fails: again, unless it was the last or the process stops.
CreateFails ==
  /\ entry = "creating"
  /\ IF tries < MaxRetries /\ phase = "serving"
     THEN tries' = tries + 1 /\ UNCHANGED <<entry, call, check, fails, healthy, recent>>
     ELSE /\ entry' = "rejected" /\ tries' = 0
          /\ call' = [c \in Callers |-> IF call[c].pc = "pool" THEN [call[c] EXCEPT !.pc = "failed"]
                                                             ELSE call[c]]
          /\ IF check = "pool" THEN Verdict(FALSE) ELSE UNCHANGED <<check, fails, healthy, recent>>
  /\ UNCHANGED <<asked, inUse, orphans, nudged, phase, checks>>

\* After POOL_CREATE_COOLDOWN_MS, or by initializePools at once.
Evict ==
  /\ entry = "rejected" /\ entry' = "none"
  /\ UNCHANGED <<tries, call, asked, inUse, orphans, check, nudged, fails, healthy, phase, checks, recent>>

-----------------------------------------------------------------------------
(* withConnection.                                                         *)

\* Up to the first await: the breaker, then _getOrCreatePool.
Begin(c, probe) ==
  /\ call[c].pc = "idle"
  /\ LET at == [call EXCEPT ![c] = [pc |-> "pool", n |-> 0, probe |-> probe]]
     IN IF (~healthy /\ ~probe) \/ phase # "serving" \/ entry = "rejected"
        THEN call' = [at EXCEPT ![c].pc = "failed"] /\ UNCHANGED <<entry, asked, check>>
        ELSE IF entry = "ready"
             THEN Asks({c}, at) /\ UNCHANGED entry
             ELSE entry' = "creating" /\ call' = at /\ UNCHANGED <<asked, check>>
  /\ UNCHANGED <<tries, inUse, orphans, nudged, fails, healthy, phase, checks, recent>>

\* Whose request it is: a caller that has moved on gets nothing.
Holds(q) == IF q.by = "check" THEN check = "get"
            ELSE call[q.by].pc = "wait" /\ call[q.by].n = q.n

\* Deviation: a connection that comes too late is not closed.
GrantedForgotten(q) ==
  /\ entry \in {"ready", "draining"} /\ inUse < PoolMax
  /\ asked' = asked \ {q} /\ inUse' = inUse + 1 /\ orphans' = orphans
  /\ call' = IF q.by # "check" /\ Holds(q) THEN [call EXCEPT ![q.by].pc = "hold"] ELSE call
  /\ check' = IF q.by = "check" THEN "ping" ELSE check
  /\ UNCHANGED <<entry, tries, nudged, fails, healthy, phase, checks, recent>>

\* getConnection resolves; the orphan guard takes what nobody waits for.
Granted(q) ==
  /\ entry \in {"ready", "draining"} /\ inUse < PoolMax
  /\ asked' = asked \ {q} /\ inUse' = inUse + 1
  /\ orphans' = IF Holds(q) THEN orphans ELSE orphans + 1
  /\ call' = IF q.by # "check" /\ Holds(q) THEN [call EXCEPT ![q.by].pc = "hold"] ELSE call
  /\ check' = IF q.by = "check" THEN "ping" ELSE check
  /\ UNCHANGED <<entry, tries, nudged, fails, healthy, phase, checks, recent>>

\* _acquireConnection's catch: again when the error is transient.
Missed(c) ==
  \/ call[c].n < MaxAttempts /\ call' = [call EXCEPT ![c].pc = "sleep"] /\ UNCHANGED nudged
  \/ /\ call' = [call EXCEPT ![c].pc = "failed"]
     /\ (IF call[c].probe THEN UNCHANGED nudged ELSE Nudge \/ UNCHANGED nudged)

\* getConnection rejects: the pool is full, out of reach, or closed.
Refused(q) ==
  /\ asked' = asked \ {q}
  /\ IF ~Holds(q) THEN UNCHANGED <<call, check, nudged, fails, healthy, recent>>
     ELSE IF q.by = "check" THEN Verdict(FALSE) /\ UNCHANGED <<call, nudged>>
     ELSE Missed(q.by) /\ UNCHANGED <<check, fails, healthy, recent>>
  /\ UNCHANGED <<entry, tries, inUse, orphans, phase, checks>>

\* connectTimeout: the race is lost, the request stays at the driver.
TimesOut(c) ==
  /\ call[c].pc = "wait" /\ Missed(c)
  /\ UNCHANGED <<entry, tries, asked, inUse, orphans, check, fails, healthy, phase, checks, recent>>

Again(c) ==
  /\ call[c].pc = "sleep"
  /\ asked' = asked \cup {[by |-> c, n |-> call[c].n + 1]}
  /\ call' = [call EXCEPT ![c].pc = "wait", ![c].n = @ + 1]
  /\ UNCHANGED <<entry, tries, inUse, orphans, check, nudged, fails, healthy, phase, checks, recent>>

OrphanCloses ==
  /\ orphans > 0 /\ orphans' = orphans - 1 /\ inUse' = inUse - 1
  /\ UNCHANGED <<entry, tries, call, asked, check, nudged, fails, healthy, phase, checks, recent>>

\* The callback ends, and the finally closes the connection.
Done(c, ok) ==
  /\ call[c].pc = "hold"
  /\ call' = [call EXCEPT ![c].pc = IF ~ok THEN "failed" ELSE
                                    IF call[c].probe THEN "passed" ELSE "ok"]
  /\ inUse' = inUse - 1
  /\ IF ok \/ call[c].probe THEN UNCHANGED nudged ELSE Nudge \/ UNCHANGED nudged
  /\ UNCHANGED <<entry, tries, asked, orphans, check, fails, healthy, phase, checks, recent>>

\* evaluate, when every pool's probe has ended: one that took too long counts as
\* down, and is not recorded.
Evaluated(c) ==
  /\ call[c].pc = "passed"
  /\ call' = [call EXCEPT ![c].pc = "ok"]
  /\ \/ ProbeSuccess /\ Seen(TRUE)
     \/ UNCHANGED <<fails, healthy, recent>>
  /\ UNCHANGED <<entry, tries, asked, inUse, orphans, check, nudged, phase, checks>>

-----------------------------------------------------------------------------
(* The monitor's checks: by the timer for a name ever asked for, by a nudge.*)

RunCheck(byNudge) ==
  /\ phase = "serving" /\ (byNudge => nudged)
  /\ nudged' = (nudged /\ ~byNudge)
  /\ IF check # "no" THEN byNudge /\ UNCHANGED <<entry, call, asked, check, fails, healthy, checks, recent>>
     ELSE /\ checks < MaxChecks /\ checks' = checks + 1
          /\ IF entry = "rejected"
             THEN Verdict(FALSE) /\ UNCHANGED <<entry, call, asked>>
             ELSE IF entry = "ready"
             THEN Asks({"check"}, call) /\ UNCHANGED <<entry, fails, healthy, recent>>
             ELSE /\ entry' = "creating" /\ check' = "pool"
                  /\ UNCHANGED <<call, asked, fails, healthy, recent>>
  /\ UNCHANGED <<tries, inUse, orphans, phase>>

\* The ping answers or rejects, and the connection goes back either way.
Pinged(ok) ==
  /\ check = "ping" /\ Verdict(ok) /\ inUse' = inUse - 1
  /\ UNCHANGED <<entry, tries, call, asked, orphans, nudged, phase, checks>>

-----------------------------------------------------------------------------
(* closeAll.                                                               *)

CloseAll ==
  /\ phase = "serving" /\ phase' = "closing"
  /\ nudged' = FALSE
  /\ entry' = IF entry = "ready" THEN "draining" ELSE entry
  /\ UNCHANGED <<tries, call, asked, inUse, orphans, check, fails, healthy, checks, recent>>

\* A creation that was under way has become a pool: it is closed as well.
CloseCreated ==
  /\ phase # "serving" /\ entry = "ready" /\ entry' = "draining"
  /\ UNCHANGED <<tries, call, asked, inUse, orphans, check, nudged, fails, healthy, phase, checks, recent>>

\* p.close(10): what is checked out after the drain time is cut.
PoolCloses ==
  /\ entry = "draining" /\ entry' = "closed"
  /\ UNCHANGED <<tries, call, asked, inUse, orphans, check, nudged, fails, healthy, phase, checks, recent>>

\* Every closure has settled, or has taken 30 s.
AllClosed ==
  /\ phase = "closing" /\ phase' = "closed"
  /\ UNCHANGED <<entry, tries, call, asked, inUse, orphans, check, nudged, fails, healthy, checks, recent>>

Next ==
  \/ Created \/ CreateFails \/ Evict
  \/ \E c \in Callers :
       \/ \E b \in BOOLEAN : Begin(c, b) \/ Done(c, b)
       \/ TimesOut(c) \/ Again(c) \/ Evaluated(c)
  \/ \E q \in asked : Granted(q) \/ Refused(q)
  \/ OrphanCloses
  \/ \E b \in BOOLEAN : RunCheck(b) \/ Pinged(b)
  \/ CloseAll \/ CloseCreated \/ PoolCloses \/ AllClosed

Spec == Init /\ [][Next]_vars

-----------------------------------------------------------------------------
(* Properties                                                              *)

Holders == {c \in Callers : call[c].pc = "hold"}

\* Every connection that is checked out has someone who gives it back, however
\* acquires, timeouts, retries and late grants fall; and nobody waits for a pool
\* that no creation will deliver.
NoConnectionLeaks ==
  /\ inUse = Cardinality(Holders) + orphans + (IF check = "ping" THEN 1 ELSE 0)
  /\ \A c \in Callers : call[c].pc = "wait" => [by |-> c, n |-> call[c].n] \in asked
  /\ Waiting # {} => entry = "creating"

\* The breaker is open only after MaxFailures failed checks in a row, with no
\* check or probe that passed between them.
BreakerIsEarned ==
  ~healthy => Len(recent) = MaxFailures /\ \A i \in DOMAIN recent : ~recent[i]

PoolIsSound == NoConnectionLeaks /\ BreakerIsEarned
=============================================================================
