---------------------------- MODULE ProcessState -----------------------------
(***************************************************************************)
(* State that one process keeps, one part at a time: the record of its run *)
(* (RunMarker), audit rows (AuditBuffer), log lines and their live tail    *)
(* (LogTail), alerts (AlertWatch, AlertDigest), a connection pool          *)
(* (OraclePool), its request ids (Snowflake); in the primary, login        *)
(* lockouts (LoginLockout) and hits of a rate limiter (RateWindow).  The   *)
(* parts have no variable in common; a behaviour is about the one that     *)
(* focus names, or about a part that MCProcessState adds.                  *)
(***************************************************************************)
EXTENDS Naturals, FiniteSets

CONSTANTS
  MaxRuns, MaxCrashes, UncleanMax,  \* RunMarker
  MaxRows, FlushMax, AuditMax, MaxInsertFailures,  \* AuditBuffer
  ConfirmPolls, MaxPolls, MaxAcks, MaxLeaders,  \* AlertWatch
  MaxEvents, BufferMax, MaxPerHour,  \* AlertDigest
  Callers, PoolMax, MaxAttempts, MaxRetries, MaxFailures, MaxChecks,  \* OraclePool
  MaxSequence, NonceRange, MaxTime, MaxFalls, MaxIds,  \* Snowflake
  LoginWorkers, Accounts, MaxLogins, MaxTries, MaxCycles, Duration, Multiplier,
  Decrement, Incremental, MaxKeys, EntryTtl, LockTime,  \* LoginLockout
  Viewers, QueueMax, FileMax, RowsMax, MaxErrors, Rolls, MaxLines, MaxStreams,
  MaxFaults,  \* LogTail
  RateWorkers, Requests, Limit, Window, RateTime  \* RateWindow

\* The queue of audit rows has a limit.
ASSUME AuditAssumption == AuditMax \in Nat

\* So has the list of killed runs in the record.
ASSUME MarkerAssumption == UncleanMax \in Nat

\* Alerts are numbered.
ASSUME DigestAssumption == MaxEvents \in Nat

\* Callers are finitely many and none is the monitor; the breaker tolerates some
\* number of failures.
ASSUME PoolAssumption ==
  /\ IsFiniteSet(Callers) /\ "check" \notin Callers
  /\ MaxFailures \in Nat \ {0}

\* A tail has room for the ids of a millisecond (snowflake.js:69-72).
ASSUME SnowflakeAssumption ==
  /\ {MaxSequence, NonceRange, MaxTime, MaxFalls, MaxIds} \subseteq Nat
  /\ MaxSequence < NonceRange

\* Counts and times are numbers, and an entry of the table has a life
\* (LoginLockoutState.js:26).
ASSUME LockoutAssumption ==
  /\ {MaxTries, MaxCycles, Decrement} \subseteq Nat /\ EntryTtl \in Nat \ {0}

\* A queue and a file have room for a line (logger.js:171-173, :45; with a queue of 0
\* the code counts lines as dropped that are not), and a tick's rows are limited.
ASSUME LinesAssumption ==
  /\ {QueueMax, FileMax} \subseteq Nat \ {0}
  /\ {RowsMax, MaxErrors, Rolls, MaxLines, MaxStreams, MaxFaults} \subseteq Nat

\* Both settings are positive
\* (RateLimiterMiddleware.js:72-74).
ASSUME RateAssumption ==
  /\ IsFiniteSet(Requests)
  /\ {Limit, Window} \subseteq Nat \ {0} /\ RateTime \in Nat

VARIABLES
  focus,
  up, runNumber, rid, mem, record, stale, stop, mails, crashes, boot, saved,
  owed, exited,
  auditRows, pending, timer, flushing, flushes, backoff, auditStop, table,
  auditDropped, failures,
  writeQueue, writing, logDropped, logged, gone, failed, reported, logFiles,
  conns, stream, poller, offsets, tick, torn, faults,
  level, status, clear, ack, row, removing, acking, hydrating, polls, acks,
  leaders, watchTold, vouched,
  events, buffer, overflow, window, sentHour, suppressed, rowSaved, rows,
  sends, waiting, lineTold, mailed, withheld, phase,
  llNow, lockouts, order, swept, local, relays, login,
  rwNow, counts, request,
  entry, tries, poolCall, asked, inUse, orphans, check, nudged, fails,
  healthy, poolPhase, checks, recent,
  clock, falls, last, sequence, nonce, spinning, issued, ids

marker   == <<up, runNumber, rid, mem, record, stale, stop, mails, crashes,
              boot, saved, owed, exited>>
audit    == <<auditRows, pending, timer, flushing, flushes, backoff,
              auditStop, table, auditDropped, failures>>
lines    == <<writeQueue, writing, logDropped, logged, gone, failed, reported,
              logFiles, conns, stream, poller, offsets, tick, torn, faults>>
watch    == <<level, status, clear, ack, row, removing, acking, hydrating,
              polls, acks, leaders, watchTold, vouched>>
digest   == <<events, buffer, overflow, window, sentHour, suppressed,
              rowSaved, rows, sends, waiting, lineTold, mailed, withheld,
              phase>>
lockout  == <<llNow, lockouts, order, swept, local, relays, login>>
rate     == <<rwNow, counts, request>>
pool     == <<entry, tries, poolCall, asked, inUse, orphans, check, nudged,
              fails, healthy, poolPhase, checks, recent>>
tracing  == <<clock, falls, last, sequence, nonce, spinning, issued, ids>>
vars     == <<focus, marker, audit, lines, watch, digest, lockout, rate, pool,
              tracing>>

Marker == INSTANCE RunMarker WITH
  PendingMax <- UncleanMax,
  run <- runNumber, disk <- record

Audit == INSTANCE AuditBuffer WITH
  PendingMax <- AuditMax, MaxFailures <- MaxInsertFailures,
  rows <- auditRows, stop <- auditStop, dropped <- auditDropped

Lines == INSTANCE LogTail WITH
  Users <- Viewers,
  queue <- writeQueue, dropped <- logDropped, disk <- logFiles

Watch == INSTANCE AlertWatch WITH
  told <- watchTold

Digest == INSTANCE AlertDigest WITH
  told <- lineTold

Lockout == INSTANCE LoginLockout WITH
  Workers <- LoginWorkers, Logins <- 1..MaxLogins, MaxAttempts <- MaxTries,
  MaxTime <- LockTime,
  now <- llNow, table <- lockouts

Rate == INSTANCE RateWindow WITH
  Workers <- RateWorkers, MaxTime <- RateTime, now <- rwNow

Pool == INSTANCE OraclePool WITH
  call <- poolCall, phase <- poolPhase

Trace == INSTANCE Snowflake

\* Logins are interchangeable: they start in the order of their numbers; so are
\* users.  The last run boots, crashes or is killed, and is not stopped.
InOrder(l) == \A n \in DOMAIN l \ {1} : l[n].pc # "idle" => l[n - 1].pc # "idle"

\* One of the logins that a part out of focus may begin with.
AtFirst(l) ==
  /\ l.at = CHOOSE w \in LoginWorkers : TRUE
  /\ l.user = CHOOSE a \in Accounts : TRUE

\* A part that is not in focus stays in one initial state.
Init ==
  /\ focus \in {"marker", "audit", "lines", "watch", "digest", "lockout", "rate", "pool", "query", "tracing"}
  /\ Marker!Init /\ Audit!Init /\ Lines!Init /\ Watch!Init /\ Digest!Init /\ Lockout!Init /\ Rate!Init /\ Pool!Init /\ Trace!Init
  /\ focus # "tracing" => nonce = 0
  /\ focus # "lockout" => \A l \in DOMAIN login : AtFirst(login[l])

Next ==
  \/ focus = "marker" /\ Marker!Next /\ (runNumber' = MaxRuns => ~stop'.on) /\ UNCHANGED <<focus, audit, lines, watch, digest, lockout, rate, pool, tracing>>
  \/ focus = "audit" /\ Audit!Next /\ UNCHANGED <<focus, marker, lines, watch, digest, lockout, rate, pool, tracing>>
  \/ focus = "lines" /\ Lines!Next /\ (stream' # <<>> => stream'[1].user = CHOOSE u \in Viewers : TRUE) /\ UNCHANGED <<focus, marker, audit, watch, digest, lockout, rate, pool, tracing>>
  \/ focus = "watch" /\ Watch!Next /\ UNCHANGED <<focus, marker, audit, lines, digest, lockout, rate, pool, tracing>>
  \/ focus = "digest" /\ Digest!Next /\ UNCHANGED <<focus, marker, audit, lines, watch, lockout, rate, pool, tracing>>
  \/ focus = "lockout" /\ Lockout!Next /\ InOrder(login') /\ UNCHANGED <<focus, marker, audit, lines, watch, digest, rate, pool, tracing>>
  \/ focus = "rate" /\ Rate!Next /\ UNCHANGED <<focus, marker, audit, lines, watch, digest, lockout, pool, tracing>>
  \/ focus = "pool" /\ Pool!Next /\ UNCHANGED <<focus, marker, audit, lines, watch, digest, lockout, rate, tracing>>
  \/ focus = "tracing" /\ Trace!Next /\ UNCHANGED <<focus, marker, audit, lines, watch, digest, lockout, rate, pool>>

Spec == Init /\ [][Next]_vars

\* A record never reads better than the run was, and a killed run is reported,
\* or still will be (RunMarker).
RunsAreKnown == focus = "marker" => Marker!RunsAreKnown

\* No audit row vanishes without a warning (AuditBuffer), no log line does, and a
\* live tail shows each line once (LogTail).
LogsAreWhole ==
  /\ focus = "audit" => Audit!NoRowLost
  /\ focus = "lines" => Lines!LogIsWhole

\* No older acknowledgement hides an escalation (AlertWatch).
EscalationIsMailed == focus = "watch" => Watch!EscalationIsMailed

\* No critical line vanishes, gets two rows, or is wrongly said to be mailed
\* (AlertDigest).
AlertsAccounted == focus = "digest" => Digest!AlertsAccounted

\* Only a success or its end lifts the lock of an account (LoginLockout).
LockHolds == Lockout!LockHolds

\* A refused client is admitted at retryAt and not before, and a refund takes
\* back its own hit and nobody else's (RateWindow).
LimitIsExact == focus = "rate" => Rate!LimitIsExact

\* No connection is lost by the pool, and its breaker opens only on failed checks
\* in a row (OraclePool).
PoolIsSound == focus = "pool" => Pool!PoolIsSound

\* No request id returns unless the clock was set back (Snowflake).
IdsAreFresh == focus = "tracing" => Trace!IdsAreFresh
=============================================================================
