# Verification of CATHERINE

TLA+ models of the stateful core of CATHERINE: the cluster primary and what it
shares with its workers, sessions and logins, backups and everything that
depends on them, the connection pool, the records and buffers that must survive
a shutdown, the logs and their live tail, the queries built from filters, the
request ids, and what a browser tab shows of the server's health and of its
data. TLC checks the models on small instances; TLAPS proves all but one of the
safety properties that the passing runs check for every value of the constants (section 4).

Paths are relative to `src/Backend/src` unless they start with `src/`.

## 1. The system

One primary process forks N workers (`src/Backend/server.js`). Workers serve
HTTP and share an Oracle database and the local file system. Everything else
they share goes through IPC messages with the primary. JavaScript runs a handler
to its next `await` without interruption, so inside a process a race is only
possible across an `await`; between processes everything interleaves.

| Component | State it keeps | Operations | Talks to | What is hard | What makes it correct |
|---|---|---|---|---|---|
| Cluster supervision: `utils/cluster/ClusterSupervisor.js`, `utils/clusterRole.js` | live workers, leader stamp, respawn timers, exit window, stop and fatal flags, exit codes | start, signal, worker exit, respawn timer, boot fatal, failsafe, exit | worker processes | timers against stops, crashes during respawn, hung workers, forks that throw | one cron leader, no fork after a stop, a stop that ends, an honest exit code |
| Cluster RPC: `utils/cluster/ClusterRpcHub.js`, `ClusterRpcClient.js` | tables of pending calls on both sides, gathers, counters | call, notify, forward, gather, answer, timeout, worker exit | primary and workers | late answers, exits on either side, caps | each call settles once and in time, no counter leaks |
| Mirrored state: `utils/cluster/PrimaryStateServices.js`, `services/AccessRevocationService.js`, `middleware/security/SuspiciousIpTracker.js`, `services/SchedulerStateService.js` | ended sessions, blocked addresses and job outcomes, in the primary and in each worker | report, broadcast, snapshot for a worker that listens | RPC channels | a worker that starts while a message is under way, a full set | what the primary knows every worker knows once it has read its channel |
| Refresh-token sessions: `services/RefreshTokenService.js`, `utils/auth/RefreshTokenRegistry.js`, `models/auth.refresh.token.model.js`, `services/AuthService.js` | per worker: registry entries and family markers; shared: token rows, password epoch | login, refresh, logout, change password, purge | Oracle, access revocation | two tiers that decide at different moments, failed and unacknowledged commits, eviction, restart | one live token per session, revoked means revoked, old passwords do not refresh |
| Login lockout: `middleware/authentication/LoginLockout*.js` | failures and locks per account, bounded, in the primary; a fallback table per worker | check, fail, clear, sweep | RPC, login | full table, calls that fail after they were handled, expiry at the boundary | only a success or its own end lifts a lock |
| Rate limits: `middleware/security/SlidingWindowCounter.js`, `RateLimiterMiddleware.js` | two windows per key, in the primary and as fallback | hit, refund | RPC | counts of late answers, window edges | admitted at `retryAt` and not before, a refund takes back its own hit |
| Response cache: `middleware/cache/*` | per worker store, generation, in-flight reads | read, invalidate, relay | primary relay | population racing invalidation, failed leaders | nothing stale, loads shared, every follower released |
| File lease: `utils/locks/FileLease.js` | the lease file, a token per process | acquire, steal, put back, heartbeat, release | file system | every file operation is an interleaving point; holders die | mutual exclusion, no orphan blocks for ever |
| Backup chain: `services/BackupStoreService.js`, `BackupArchiveService.js`, `BackupScheduleService.js` | archives on disk, an index per worker | run, delete, retention, corruption | file lease | an index that is old, deletes beside runs, one name for two archives | no archive points at what is gone, no run builds on a broken chain |
| Delete votes: `controllers/DataPurgeController.js`, `models/backup-vote.model.js` | votes per archive | request, vote, cancel, execute | backup chain | read-then-write votes | a majority, and nothing less, deletes |
| Progress and watchdog: `utils/progress/*` | scopes with their last progress, watched requests | advance, sweep, cut, follow | backup store, lease | cuts of work that is publishing, waiters behind a long run, stalled event loop | the quiet is cut and the live is not, a cut call tells the truth |
| Purge and restore: `services/DataPurgeService.js`, `DataRestoreService.js`, `models/data-purge.model.js` | backup tokens, tables, archives | back up, preview, purge, restore | backup chain, Oracle | rows that commit out of order or change between backup and purge | a purge deletes what its archive holds, a restore adds nothing twice |
| Privileged accounts: `services/AdminManagementService.js`, `models/admin.model.js` | rows signed by SYSSIGNATURE, sessions | add, role, flags, reset, change password, revoke, delete | backup tokens, sessions | signatures over rows read earlier, two removals at once | an active SUPER_ADMIN is left |
| Connection pool: `config/adapters/oracle.js`, `services/ReadinessService.js` | pool entry, breaker, monitor, orphan acquires | acquire, create and retry, check, close | Oracle driver | acquires that time out and are granted later, checks that end in any order | no connection is lost, the breaker follows the checks |
| Run marker and shutdown: `utils/lifecycle/*`, `utils/shutdown/*`, `src/Backend/server.js` | a record on disk, stop phases, budgets | boot, stop, crash, failsafe, kill | supervisor, mail | a kill between any two writes | the next boot reads the right verdict and reports it |
| Audit buffer: `services/AuditLogService.js` | pending rows, timer, running flush | insert, flush, shutdown flushes | Oracle | flushes that meet, commits reported as errors | no row vanishes without a warning |
| Log files and live tail: `utils/logger.js`, `services/SystemLogTailService.js`, `controllers/AuditLogController.js` | write queue, rolling files, an offset per file, open streams | log, write, roll over, flush, open and close a stream, tick | file system, browsers | reads that lag behind appends, streams that come and go during a tick, failed file operations | every line is in a file or reported as dropped, a stream shows each line once and in order |
| Alerts: `services/AlertNotifierService.js` | alert state, acknowledgements, critical lines, hourly ceiling | poll, acknowledge, collect, send, drain | mail, Oracle | acknowledgements that await while the alert escalates, a drain that meets a send | an escalation is mailed, no line is lost or told twice |
| Status banner: `services/HealthStreamHub.js`, `src/Frontend/src/utils/serverStatus.js` and its components | last verdict, streams; per tab: phase, probes, stream | evaluate, publish, connect, probe, drain, exit | readiness, browsers | answers and frames in any order | a tab with a stream ends on what the database is |
| Front-end request cache: `src/Frontend/src/hooks/useRequest.js` | a module-wide cache, requests in flight, what each view shows | mount, key change, call, settle, invalidate, unmount | back end | answers that come after an invalidation or a key change | a view at rest shows its own key, read since the last invalidation |
| Query translation: `utils/oracle-mongo-wrapper/parsers/filterParser.js`, `pipeline/aggregatePipeline.js` | per call: counter, binds, chain of queries | parse a filter, build a pipeline | Oracle | nested filters, split lists, names counted in two places, precedence and NULL | the query takes the rows the filter means, no bind is overwritten |
| Request ids: `utils/snowflake.js` | last millisecond, counter, random base | next id | clock | a millisecond that is used up, a clock that is set back | no id twice |

Parts without state that several steps share (helpers, routes, texts, views) are
left out; section 5 lists them. `PROJECT.json` has the components with their
status, and the hazards of each at their lines.

How the parts meet: the supervisor decides which worker is cron leader, and only
the leader runs scheduled backups, alert polls and the retention jobs. Lockout,
rate limits and mirrored state live in the primary and are reached by RPC.
Backups from any worker meet at the file lease; purges, restores and account
removals are licensed by a backup token. The shutdown drains requests, then
flushes the audit buffer and the digest, then closes the pools and writes the
marker.

## 2. Modules

| Module | Models | Checked in |
|---|---|---|
| `ClusterSupervisor`, `CronLeadership`, `MCClusterSupervisor` | the primary's handlers and its workers; the abstract promise about the cron leader; the refinement mapping and the instance | run `cluster` |
| `ClusterSupervisorProofs`, `SessionLedgerProofs`, `ReadCacheProofs`, `ClusterRpcProofs` | theorems about the module of that name | |
| `FileLease`, `FileLeaseProofs` | the lease protocol, its theorems | `waiters` |
| `SessionLedger`, `MCSessionLedger` | refresh-token sessions of one account | `session_safety`, `session_reuse` |
| `ReadCache`, `MCReadCache` | one key of the response cache on every worker | `cache_safety`, `waiters` |
| `ClusterRpc`, `MCClusterRpc` | hub and clients of the shared-state calls | `rpc` |
| `PrimaryState` | ended sessions, blocked addresses, job outcomes and their mirrors | `shared_state` |
| `BackupChain` | runs, deletes and the index of the archives | `shared_state`, `backup_clash` |
| `BackupVote` | the vote that deletes an archive | `shared_state`, `vote_stuck` |
| `BackupWatchdog` | progress scopes, the sweep, cut backups | `shared_state` |
| `AdminGuard` | handlers that change privileged accounts | `shared_state` |
| `DataPurge` | backup, purge and restore of two tables | `shared_state` |
| `StatusBanner` | database, hub, streams, the stores of tabs | `shared_state` |
| `RequestCache` | the hook that the pages read through | `shared_state` |
| `RunMarker` | the record of a run and the graceful shutdown | `process_state` |
| `AuditBuffer` | the buffer of audit rows | `process_state`, `audit_stalled` |
| `LogTail` | the logger's queue and files, the poller and its streams | `process_state` |
| `AlertWatch`, `AlertDigest` | one metric alert; the digest of critical lines | `process_state` |
| `OraclePool` | one pool, its breaker, monitor and close | `process_state` |
| `LoginLockout`, `RateWindow` | lockout table and fallback; one key of a limiter | `process_state` |
| `FilterParser` | filters and pipelines as clauses with binds, and how Oracle reads them | `process_state`, `query_binds` |
| `Snowflake` | the request ids of one process | `process_state` |
| `MCWaiters`, `MCSharedState`, `ProcessState` with `MCProcessState` | the suites that instantiate the parts above | |
| `SharedStateProofs` | theorems about `BackupVote`, `AdminGuard`, `DataPurge`, `BackupChain`, `BackupWatchdog` | |
| `MirrorProofs` | theorems about `PrimaryState`, `RequestCache`, `StatusBanner` | |
| `ProcessStateProofs` | theorems about `Snowflake`, `OraclePool`, `RateWindow`, `RunMarker`, `AlertWatch`, `AlertDigest`, `LoginLockout`, `AuditBuffer`, `LogTail` | |

Definitions named as a deviation ("Deviation: ...") are faulty variants of the
definition that follows them. No specification uses them; substituting one must
make the property it is paired with in `PROJECT.json` fail.

**Suites.** `MCWaiters`, `MCSharedState` and `ProcessState` instantiate components that have
no variable in common; `MCProcessState` adds `FilterParser` to the last one, apart because its
operators are recursive. The parameters of a part that a theorem is about are CONSTANTS of the
suite, with their assumptions, and get their values in the .cfg. `focus` picks the part a behaviour is about; the others
stay in one initial state, so a run explores the sum of the parts and not their
product. Calls and logins that are interchangeable start in the order of their
numbers (`InOrder`), and of the two processes of `BackupChain` the second is the
one that deletes. The first log stream is that of `u1`. Each of these removes only
states that a renaming of calls, processes or users maps to ones that are kept.
One thing is a bound and no renaming: of the two keys the pages read, only `k1` is
written; `k2` is what a page turns to and back from.

### ClusterSupervisor

Each variable is the private field of the same name; `recentExits` counts the
entries of `#exitTimes` inside the window, `leaderEnv` the workers stamped
`CRON_LEADER=true`. Each handler is one action because it has no `await`:
`Start`, `OnSignal`, `OnListening`, `OnExit` (with `_tripCrashLoop`,
`shutdown`, `_finish` as called operators), the two outcomes of a respawn timer
(`RespawnForks`, `RespawnFails`), `OnBootFatal`, `ForceExit`, `ProcessExit`.
Workers boot, listen, hang, crash, report a fatal boot, receive SHUTDOWN and
exit. `ExitAges` lets an exit leave the window; the backoff delay itself is
abstracted, a timer fires at any time after it is set. A worker's BOOT_FATAL may
be overtaken by its exit event, and both orders are explored.

### SessionLedger

One account, a table shared by all workers, and one registry per worker. A
request is a process that is used once; its program counter stands between
awaits. Numbers replace token ids, in issuing order, and a session (family) is
named after its first token. A password change raises the epoch that each token
carries (`pwv`). The table follows Oracle's rules: a transaction reads committed
rows, the UPDATE of a rotation locks its row until the commit, and the UPDATE of
a revocation first selects the rows it sees and then waits for the locked ones
(`RevokeReads`, `RevokeApplies`). `CommitUnacked` is a commit that happens and is
reported as an error. The registry evicts its oldest entry when full. A request
that is over resets the fields it worked with (`Over`, `Finish`), which no later step
reads: states that differ only there are one.

### ReadCache

One key of one store. The data behind it is a version number that a committed
write raises; a read remembers the newest invalidation its worker had applied
when it came in (`floor`), which is what `NothingStale` compares its answer
with. HTTP reads (`http`) follow the leader in `inflight` and re-check
twice; service reads join the load in `flight`. The generation counter is not a
number but the bit `same` of each read, cleared by every invalidation. A store
of the program is read in one of the two ways; `Init` chooses which. Followers
woken by one settled promise run before the next request is served, second
waits first (`Settled`, the guard of `Wakes`): they were registered first. A
relay is one hop from the invalidating worker to each sibling; it may be lost
where the code swallows a failed send, and an invalidation is skipped where the
answer is not 2xx, both bounded by `MaxLost`. A worker that dies is replaced by
a cold one. `OtherKeys` stands for the rest of the store, which may fill it.

### FileLease

The lease path holds an inode or nothing. `<<process, acquisition>>` names the
inode, its token and its pid at once, since an acquisition creates at most one
file. Every file operation is an action; between stat, read and rename other
processes run. `Ages` makes the file older than `staleMs`. It is enabled only
for a file nobody alive holds: the header requires `staleMs` to exceed the
holder's idle limit, and the backup service passes idle limit + 60 s, so a
progressing holder is younger and a stalled one has been cancelled. A stalled
holder that survives its own cancellation is outside the model.

### ClusterRpc

Both ends of `rpc.call`: the client's table with its timers (`Call`,
`ClientTimeout`, `OnResponse`, `OnCall`) and the hub's (`OnRequest` with its three
targets, `OnReturn`, `LeaderTimeout`, `GatherTimeout`, `WorkerExit`). A channel is
a set of messages, so any order of arrival is explored; messages to a worker are
lost with it, what it sent before it died still arrives. A call the primary
answers itself is settled in one step. A gather sends to one worker after the other,
and each send may fail: a failure of the first ends the gather inside its own loop
(`cut`, a history variable), and the calls that follow have no timer. `answers` is a
history variable.

### PrimaryState

Three topics with the same channels: ended session families, blocked addresses
and the last outcome of each job. A worker reports, the primary changes its copy
and broadcasts it, and `Listen` is followed by the snapshots that the primary's
`listening` hooks send. Channels are FIFO here, with a bounded delay. A message has
a value per key, applied in the order of the snapshot (`LongestFirst`); a worker's
copy is what it holds and what it gave up (`strayed`). The set of families is
bounded and makes room by `Evicted`; `IsRevoked` drops an entry that ran out when it
is asked for. Exemptions of `MirrorsAgree`, each for a reason in the code: an address
that a worker unblocked alone after a timeout, a family that a full set dropped
before its time, a record of the leader that is still on its way.

### LoginLockout and RateWindow

The policy is a set of operators over one state record (`Evaluated`, `Failed`,
`HrReset`); the primary's bounded table and the fallback table of each worker use
the same operators. A login is admitted, verifies the password and reports; a
call to the primary can fail before or after it was handled. The order of the Map, which
decides who is evicted, is the set of pairs of accounts whose first was written
first. `RateWindow` keeps
the two buckets of the sliding window as integers, estimates as the code does and
explores refunds, late answers and lost notices.

### RunMarker

The marker of one host over several runs: what a boot reads, decides and writes
(`Boot`, `AnnounceSent`, `AnnounceRecorded`), the stop requests, `gracefulShutdown`
by its phases, crash handlers with their emails, the failsafe, the exit hook, and
a kill between any two steps. Every write may fail; when the first one of a run does,
the file of the run before is removed, or not (`StartRecord`, `stale = "unlink"`: the
code swallows the error). The lists of the record are sets of run numbers. `stale`,
`owed` and `exited` are history variables. `RecordIsHonest` excuses one record, the
one that survived a start whose first write and whose removal both failed.

### AuditBuffer, AlertWatch, AlertDigest

`AuditBuffer` has the queue, the timer slot (a timer that fired and was never
cleared keeps it), flushes that are awaited, the back-off, and the two flushes of
a stop; the table may commit a batch and report an error. `AlertWatch` is one
metric alert: polls, acknowledgements that await the table, removals in the
background, a new leader that hydrates late. `AlertDigest` follows critical lines
through the window, the hourly ceiling, sends that time out but may be
delivered, and the two phases of a stop.

### LogTail

A line is its number. The writer takes one line at a time from the bounded queue,
rolls to the next file when the current one is full, and reports what the queue
dropped when it runs dry (`Advance`); `gone`, `failed` and `reported` remember what
was dropped, what only the console has, and how much of the drops was reported. A
tick is a sequence of file operations (`Readdir`, `Stat`, `ReadDelta`), with appends,
opens and closes of streams in between. Its files are a set of which the first is
taken (`Current`); the code takes them in the order of their names, which from the
tenth roll on is another order, and no property depends on it. What a stream is owed
are the places read (`Read`) since it was opened (`base`). `StreamExact` and
`StreamServed` excuse streams that met one of the circumstances listed in section 3
(`odd`) and places that a failed read or tick passed over (`torn`); the offsets and
what was passed over are forgotten together (`Forget`).

### BackupChain, BackupVote, BackupWatchdog

`BackupChain`: a run is named when its call comes in, waits for the lock and the
lease, re-reads the index, decides the chain, builds and publishes by a rename
that replaces a file of the same name. Contents are version numbers; an unchanged
table is a pointer. The first run of a chain and every `FullEvery`-th is FULL. An archive is
dated (`built`) by the number of runs that are over when it is made. Manual runs are
left out of `Kinds` in the suite: two of one second share a name, which is what the
run `backup_clash` shows. An index is what a read of the directory gave (`Reads`): it
may lack a damaged file, or one that could not be opened just then, and a run whose
index lacks the newest archive continues from the one before it, or starts anew.
`blind` are the runs that did not see the newest archive and those that continue
from them; the clause of `ChainIsWhole` about places in a chain excuses them, the
clause about the data of an archive does not. Deletes read an index that may be old and hold
no lease. The lease is taken as atomic here; `FileLease` checks the protocol behind it.
`BackupVote`: each handler stops at each of its queries. Its admins are fixed; the code
counts the active SUPER_ADMINs anew in each handler, so a majority that changes because
an admin is added or removed between two votes is outside the model. `BackupWatchdog`: two
calls of one process under the sweep. Time advances in sweeps; a late sweep is a
stall of the event loop. It has the request's scope, the guarded scope, the lock
that callers queue for, the lease with its heartbeat, and a publish that may
outlive the cut. `Init` chooses the request's limit, so both orders of the two
limits are explored.

### DataPurge and AdminGuard

`DataPurge`: table `log` gets its keys when an insert begins and shows its rows
when it commits; table `ack` has natural keys and rows that change. A backup
reads both in one snapshot (`Backup`) or, after ORA-01555, one by one and page by page
(`FallBack`, `NextPage`, `LastPage`): each page is a statement with an offset, and what
commits or is purged between two pages shifts the rows under it, so that an archive
may lack rows or hold one twice. A purge checks token, scope and counts before one
bounded DELETE; a restore looks at the tables first and writes in a transaction
later, and a key that is twice in its archive fails it. An archive remembers the rows
of `log` it may lack (`missing`): those in flight when it was read, and all that were
there if its pages do not add up to the table (`torn`). `NothingLost` excuses these
and no row that was logged later; `NothingTwice` excuses torn archives and
overlapping restores (`amiss`). `AdminGuard`: every handler reads the
row, signs what it will be and writes it some awaits later; an update sets its
own columns and the signature only, so a row that changed in between is seen
(`raced`). `withLastSuperAdminGuard` holds the rows until the commit.

### OraclePool

One pool entry, its creation with retries, acquires that time out and leave a
request at the driver, grants to nobody (`orphans`), the health check, the nudge,
the breaker, and `closeAll` with its drain. The driver resolves, rejects or stays
silent at any time.

### StatusBanner and RequestCache

`StatusBanner` goes from the database to the tab: the shared evaluation of the
readiness service, the hub (at most one evaluation runs, at most one is queued),
the frames of a stream, the store's phases in the tab and its probe. `told` is set when
a health check reports what the database is: at once if no evaluation is under way
that saw it otherwise, and also while the hub's own such evaluation runs if the check is
queued behind it (`Queued`). It is not set by a check whose hub joins the older
evaluation of a probe, or that agrees with the verdict which an older evaluation of
the hub is about to replace: there the code lets the old verdict stand until the next
check, and so does the model.
`RequestCache` has the module-wide cache, the table of requests in flight and the
views; a request is numbered, answered at some version, and settles later. What a
render does at once is part of the action that causes it.

### FilterParser and Snowflake

`FilterParser` keeps tokens instead of text: a clause is a sequence of words,
parentheses and conditions, and a condition names its binds. `ParseFilter` and
`ParseField` have one case per kind of entry, with the counter that a nested call
shares; `Value` reads such a sequence as Oracle does, with its precedence, its
three truth values and a syntax error for what is no clause. The loop of
`buildAggregateSQL` is a state machine with one action per kind of stage. `Meaning`
is the reference: what a filter says of a row, by its structure. `Usual` names the
pipelines that the code gets right, the rest is in the list below.
`Snowflake` is `nextId`, cut at its wait: the clock passes or is set back while it
spins.

## 3. Runs

| Run | Instance | Shows |
|---|---|---|
| `cluster` | 2 workers, 2 exits trip the crash loop, 3 crashes, 1 failed fork | leadership, pool, exit code, orderly and final stops, the refinement of `CronLeadership`; every stop ends and a lost leader returns or the cluster exits; 576 k states |
| `waiters` | the parts of `MCWaiters`. Lease: 3 processes, 1 acquisition each, 1 crash. Reads: 2 workers, 2 reads, 1 write | one holder while nobody has died, no waiter is blocked for ever; reads, stale entries and relays end; 88 k |
| `session_safety` | 2 workers, 3 requests, 4 tokens, registries of 3, 1 fault | one live token, revocation, credential epoch, only real reuse; 1.9 M |
| `cache_safety` | 2 workers, 3 reads of either kind, stores may be full, 1 write, 1 lost invalidation | nothing stale is stored or served, one load per generation, no stampede; 1.4 M |
| `rpc` | 3 workers (1 of them a spare), 2 calls, every limit 1 | the hub's books are right, no request is answered twice, every call ends; 251 k |
| `shared_state` | the parts of `MCSharedState`, below | one property per part; 1.5 M |
| `process_state` | the parts of `MCProcessState`, below | one property per part; 1.5 M |
| `session_reuse` (violation) | 2 requests with one token | the successor escapes the revocation |
| `audit_stalled` (violation) | as `AuditBuffer` below | a buffered row with no timer and no flush |
| `backup_clash` (violation) | 2 manual runs within one second | two archives claim one name |
| `vote_stuck` (violation) | 3 admins, 2 requests at once | a majority that nobody executes |
| `query_binds` (violation) | as `FilterParser` below | two `$match` stages that share the name of a value |

Bounds of the suites:

| Part | Instance |
|---|---|
| `PrimaryState` | 3 workers (1 spare), 2 keys (one for revocations only, reported twice at most), sets of 1 entry, entries live 3 ticks, a block after 2 strikes, 3 reports, times to 5 |
| `BackupChain` | 2 processes, 1 table, 3 runs, FULL every 3, 1 delete, 1 fault |
| `BackupVote` | 3 admins, 5 calls |
| `AdminGuard` | 2 accounts, 2 calls of 9 kinds, 1 backup token |
| `DataPurge` | 3 log keys, 1 ack key with 2 versions, pages of 1 row, 3 calls, 1 backup |
| `BackupWatchdog` | 2 calls, request limits of 2 and 3 sweeps against a guard of 2, 1 stall |
| `StatusBanner` | 1 tab, 2 changes of the database, 1 end of the worker, 1 cut |
| `RequestCache` | 1 view, 2 keys, 2 requests in flight, 1 write |
| `RunMarker` | 3 runs of which the last boots and may be killed but is not stopped, 1 crash per run, 1 pending entry |
| `AuditBuffer` | 5 rows, batches of 2, queue of 3, 2 failures |
| `LogTail` | 3 lines, queue of 1, files of 1 line, 2 files, 2 users, 2 streams, ticks of 1 row, the first tick that throws ends the streams, 1 fault |
| `AlertWatch`, `AlertDigest` | 6 polls, 2 acknowledgements, 2 leaders; 4 lines, buffer of 2, 1 mail an hour |
| `LoginLockout` | 2 workers, 2 accounts, room for 1, 3 logins, lock after 1 failure, 2 cycles |
| `RateWindow` | limit 2, window 3, times to 7, 3 requests, 1 fallback |
| `FilterParser` | lists of 2, 2 columns with 3 values, filters of 3 levels, pipelines of 3 stages |
| `Snowflake` | counter to 1, base below 3, 3 milliseconds, 1 step back, 5 ids |
| `OraclePool` | 2 callers, 1 connection, 2 attempts, breaker after 2 failures, 2 checks |

Why the bounds are enough. *Cluster*: three crashes over two workers with a
limit of two reach a crash loop with and without a leader, a crash of the
replacement, and boot failures during a stop; a worker beyond the second repeats
the role of a sibling. *Lease*: a race needs a dead holder, a stealer and a
second stealer that holds a stale judgement, hence three processes. *Session*:
the races are between pairs of requests (refresh, refresh), (refresh, logout),
(login or refresh, change); the third request is the one that starts after both
and observes the outcome. Four tokens allow two sessions with a successor each,
or a chain of rotations; three registry entries force an eviction. A behaviour has
a fault of one kind: a restart, a lost acknowledgement or an expiry; pairs of faults
are not explored. *Cache*: a stale refill needs a read, a write and their two
workers; two loads per generation need a replaced flight, its successor and a
newcomer, a stampede a failed leader and two followers, hence three reads.
*RPC*: a third worker is the replacement of one that died; with limits of one a
leaked counter refuses the second call; `MCClusterRpc` calls the first leader `w1` and the first
call `r1`, which only renames workers and calls; two workers at once are enough for a send that
fails first and one that follows it. *Backups*: three runs reach a run that misses
the head, and one that shares its place; a fourth would inherit the blindness, which
only the proof covers. *Purges*: one backup is torn by an insert that commits between
two of its pages; that a purge tears the pages of another backup takes two, and is
covered by the proof alone. *Suites*: each limit of the code (queue,
buffer, table, ceiling, threshold) is set to the smallest value that the instance
passes, so the full, the expired and the last-of-its-kind cases occur; the number
of actors is that of the smallest race the property is about (two calls that
interleave, and for purges, runs and logins a third that observes).

*Queries*: a list of three values over lists of two has a full and a partial
group; three levels put every logical operator under every other; three stages are
two `$match` stages that are adjacent or have one between them. *Ids*: a counter
that wraps after two forces the wait in every millisecond.

Deadlock is not checked: each instance runs out of its bounded crashes, calls,
requests or time, and a primary that has exited does stop.

The violation runs are disagreements between the code and what its comments or
documents say; `PROJECT.json` quotes the lines.

### Properties worth knowing

- `OneLeaderSlot`: the stamp is on one live worker, owed to one timer, or nowhere.
- `PoolAccounted`, `StopIsOrderly`, `NoOrphans`, `StopIsFinal`: no worker and no
  respawn is forgotten, and exit code 0 means that every worker live at the stop
  ended with 0.
- `MutualExclusion` of the lease is claimed only without crashes: the header of
  FileLease.js itself admits that two processes can briefly hold it after a steal race.
- `OneLiveToken`, `RevokedNeverRotates`: hold through eviction, restart and lost
  acknowledgements. `OldCredentialIsCutOff` holds even for sessions whose login
  raced the change and escaped its revocation, thanks to the credential epoch.
  `ReuseIsReal` makes one exception, a lost acknowledgement.
- `NothingStale`, `LoadsAreShared`: the second needs the order in which a settled
  promise wakes its followers; without it a newcomer could lead beside an
  overtaken leader.
- `HubAccounted`: the counters equal the tables on every path an entry leaves them, a
  gather has a timer as long as calls of it are outstanding, and no request is
  answered twice; entries without a timer belong to gathers that ended in their own
  send loop, and `CallsEnd` promises of those only that the caller is answered.
- `HubIsCurrent`: rests on `_pending`. Without it a check that comes while the hub's
  older evaluation runs would be forgotten.
- `MirrorsAgree` relates a worker's copy, *after* it has read what is under way to
  it, with the primary's.
- `QueryMeansPipeline` compares what Oracle reads in the built text with what the
  filter means, row by row; the model keeps what can go wrong in between: names,
  precedence, NULL, parentheses.
- `AdminsGuarded`, `PurgeIsCovered`, `CutsAreSound`, `LogsAreWhole`,
  `ScreensAreRight` state what holds together with its exemptions; each exemption
  is a history variable or a named condition, and is listed next.

### Other disagreements seen while modelling

Behaviour of the code that a comment, a name or a caller does not expect. Where a
model reaches such a case, its property excludes it by name; none has a run of its own.

- *Cluster*: a fork that throws in a respawn timer is not tried again, the comment at
  `utils/cluster/ClusterSupervisor.js:300` speaks of a next retry.
- *Lease*: a fresh lease that is not yet written is deleted by a stealer and not put
  back (`utils/locks/FileLease.js:283`); a release can unlink the file of another
  process (`:181`).
- *Sessions*: a client that retries after an unacknowledged rotation is treated as
  reuse (`services/RefreshTokenService.js:85`).
- *Cache*: a full store makes a read fail whose data was loaded
  (`middleware/cache/CacheStore.js:26`, `:82`).
- *RPC*: when the send to the first worker fails, `#gatherPartDone` finds nothing
  outstanding and ends the gather inside the loop that is still sending
  (`utils/cluster/ClusterRpcHub.js:369`, `:386`): the caller gets an answer without
  the other workers, and their calls stay in the table with no timer until they
  answer or exit, against "every wait has a timer" in the header (`:18`).
- *Run marker*: a kill or a forced exit after the final record may be recorded as clean
  (`utils/lifecycle/ServerRunMarker.js:380`). A start whose first write fails removes
  the old record so that "the next boot reads FIRST_BOOT" (`:287`), but the removal is
  best effort (`:288`): the record of an earlier run, STOPPED with code 0 included, can
  survive and be read as this run's.
- *Lockout*: an entry lives 24 hours, the comment at
  `middleware/authentication/LoginLockoutMiddleware.js:11` says until HR clears it.
- *Revocation*: one entry that has run out makes the whole message be refused
  (`validateTopic`, called at `utils/cluster/ClusterRpcClient.js:307`), against the
  replay that `services/AccessRevocationService.js:16` promises.
- *Alerts*: an acknowledgement that is saved after the alert recovered mutes its
  next incident (`services/AlertNotifierService.js:42`).
- *Backups*: `_withRunBackupLock` stops following the holder without a touch
  (`services/BackupStoreService.js:819`), so a queued request can be cut as its
  turn begins, and a call queued behind a scheduled run that still acquires the
  lease follows nothing, against the comment at `:805`. With equal limits the
  request's scope is swept before its child: the guard rejects with the request's
  error, `_resolveCut` is skipped (`:999`) and the lease is given back while a rename
  may be under way. A delete that decides on an old index can remove the source
  of a newer archive (`:47`, `:1563`). An archive that cannot be read is left out of
  the index with a warning (`:421`). If it is the newest, no rule of `_decideChain`
  forces a FULL (`:640`): the run continues from the archive before it and two archives
  claim one place, where `_chainHead` assumes one live lineage (`:620`). If it is a
  dependent, `deleteArchive` does not see it (`:1584`).
- *Accounts*: a handler that acts on the row it read earlier can remove the last
  SUPER_ADMIN, invalidate SYSSIGNATURE or write a replaced password back
  (`services/AdminManagementService.js:525`, `:584`, `:636`; `services/AuthService.js:556`).
- *Purge and restore*: two restores can both pass `_preflight` before either writes;
  a recount cannot see a row whose insert was in flight or one that was replaced. After
  ORA-01555 a purge backup is read by `streamTable`, whose pages are statements of their
  own; `models/data-purge.model.js:253` calls that tolerable and `:262` says the manual
  purge does not need more. A commit or another purge between two pages can leave
  rows out, the high-water mark and the row count still agree with the table at the
  recount, and the DELETE takes rows that the archive lacks. The archive says
  `readConsistent: false` (`services/BackupArchiveService.js:409`), but no purge looks at it;
  archives of a revocation carry the key column USERNAME
  (`services/AdminManagementService.js:85`).
- *Banner*: two quick changes between evaluations, or the old 200 of a probe, can hide
  an outage from a tab, against `services/HealthStreamHub.js:24`. A hub that is idle
  joins an evaluation that a probe has asked for (`services/ReadinessService.js:127`),
  though it may have probed before the change that the hub was told of: it publishes
  the old verdict, nothing is queued behind it, and the "fresh evaluation" that
  `services/HealthStreamHub.js:128` promises is the next check's. Nor does a check that
  agrees with the last verdict queue anything behind the hub's own older evaluation
  (`:153`), against "every check result" in the header (`:20`).
- *Logs*: a line logged while the drop report is written waits until the next line
  (`utils/logger.js:718`). A stream opened during a tick makes the tick throw after an
  offset moved: every stream loses those lines
  (`services/SystemLogTailService.js:261`, `:288`, against the header at `:41`), and
  five such ticks end every stream; the offsets are kept then, so the next stream
  gets a backlog (header `:27`). An account that opens its stream again during a
  tick is replayed a backlog too. A read that fails counts as empty and moves the
  offset; a scan whose `readdir` or `stat` failed makes the next scan replay whole
  files. After POLL_FAILED, the close of the socket given up removes the same
  account's new stream.
- *Request cache*: an answer from before an invalidation that settles after it
  enters the cache as fresh and takes the newer request out of the table (`late` in
  `RequestCache`); `refetch()` without an invalidation joins an older request
  (`src/Frontend/src/hooks/useRequest.js`).

- *Queries*: `$eq: null` and a null in a list become comparisons with NULL, which no
  row passes, though the header says `$eq` is the same as equality
  (`utils/oracle-mongo-wrapper/parsers/filterParser.js:29`); a plain null becomes IS
  NULL. An empty `$match` beside another one leaves an empty operand in the text
  (`pipeline/aggregatePipeline.js:129`); a `$having` that does not follow its
  `$group` is skipped, and a second one replaces the first (`:115`); the binds of a
  `$facet` are dropped (`:267`), and `pipeline/cteBuilder.js:156` overwrites like
  `$match` does. `findOneAndUpdate` is documented as atomic
  (`core/OracleCollection.js:215`), but outside a transaction it is a SELECT and an
  UPDATE that commit apart.
- *Ids*: workers of one host share the machine segment, which `utils/snowflake.js:12`
  counts on to keep their ids apart; the wait for the next millisecond lasts as long
  as the clock was set back, not "< 1ms" (`:197`).

### Fairness

`cluster` assumes weak fairness of each primary handler and timer (the event loop
runs what is due), of a worker's reading of SHUTDOWN and of the exit of a worker
that is stopping (its own failsafe timer), and of nothing else: no worker must
listen for ever, crash or hang. The lease in `waiters` assumes that a live process
continues with its file operations, that a holder finishes (its watchdog cancels it
otherwise), and that the clock reaches `staleMs` for an abandoned file. A waiter
is not forced to give up: `AcquireAborts` has no fairness. The reads
assume that queries and controllers end, that a finished response emits 'close',
that woken followers run, and that queued invalidations and relays are
processed; clients need not abort, writes need not happen. `rpc` assumes only
that timers fire: no worker ever has to answer. The suites check safety only.

## 4. Proofs

Each theorem is `Spec => []P` for every value of the constants, any number of
processes, calls, rows or lines included; TLC checked the inductive invariants on the
instances of section 3 before they were proved. A part of a suite has two theorems:
one about the part by itself (`Part!Spec => []Part!P`), one about the composition that
the run checks (`Spec => []P`), which adds that a step of the suite is a step of the
part or leaves its variables alone (lemmas `...Steps`).

The assumptions are named in the modules that declare the constants, and TLC
evaluates them on every run:

| Assumption | Says | Because |
|---|---|---|
| `NumWorkers...`, `CrashLoopMax...`, `MaxCrashes...`, `MaxForkFailures...`, `MaxAcquires...` | naturals, the first two positive | there is a worker; a limit of 0 exits would never start |
| `RpcAssumption` | workers and requests are finite, the hub's limits positive | they are counted; a limit of 0 would refuse every call |
| `BoundsAssumption`, `NoneAssumption`, `BoundAssumption` | bounds are naturals, `None` is no process | |
| `VotersAssumption`, `OpsAssumption`, `KindsAssumption`, `PagesAssumption` | admins are finite, operations and kinds of runs are among the modelled ones | a majority counts admins |
| `MirrorsAssumption` | worker ids are positive, keys finite, sets have room for one; a message is under way for no longer than the validators tolerate in a late entry | the primary has no id; `utils/cluster/ipcSchemas.js` tolerates a second, and without this a delayed block is refused and never sent again |
| `WatchdogAssumption` | a lease is stale no earlier than the guard's limit, a stall and two sweeps | `staleMs` is the limit and a minute |
| `PoolAssumption`, `RateAssumption`, `LockoutAssumption`, `LinesAssumption`, `AuditAssumption`, `MarkerAssumption`, `DigestAssumption` | settings are naturals, positive where 0 means off or makes no sense | defaults and `.env.example` |
| `SnowflakeAssumption` | the counter of a millisecond is below the range of the random base | `utils/snowflake.js:69-72` |

What each proof rests on. No property but `RevokedNeverRotates`, `StopIsFinal` and
`LockHolds` concerns single steps; the others are invariants, and hardly one is
inductive by itself.

`ClusterSupervisorProofs`

- `TypeCorrect`. `TypeInv` adds that the window of exits is below the limit while the
  cluster runs.
- `LeaderSlotIsUnique`, `LeaderlessClusterIsLoud`, `DegradedClusterHasLeader`. `SlotInv`
  joins the three with `NoRespawnDue` (no timer once a stop or a fatal has begun) and
  `StopPhases` (what the flags of a stop say about one another): the exit handler
  reads all of them.
- `NoOrphanWorkers` by `RunningIsLive`: a running process is in `live`, and the primary
  only decides to exit with an empty pool or after killing it. `StopIsFinalTheorem`
  follows step by step.
- `PoolIsAccounted` by `PoolInv`: worker ids grow, so that a respawn is owed for a
  worker that is gone and no slot counts twice. `StopIsOrderlyTheorem` by `StopInv`: a
  worker live at the stop is live still or its exit code was collected.
- `LeadershipRefinement`: initial states map to initial states of `CronLeadership`, and
  every step to a step or a stutter.

`FileLeaseProofs`

- `TypeCorrect`, with `Begun`: a process past `idle` has begun an acquisition.
- `CalmExclusion`: mutual exclusion while nobody has died. `CalmInv` says that the file
  at the path is then that of the process between its create and its unlink, that no
  file of a live holder is old, and that therefore nobody judges a lease stale.

`ClusterRpcProofs`: `HubAccountedTheorem`. A counter is a cardinality of the table, so
an entry must not be taken twice: `Untouched` (a request not sent, or not taken, has
left no trace), `Destined` and `OneLeaderCall` (leader calls and parts do not mix).
What a gather left that ended in its own loop is in the invariant like the rest: its
late answers find it closed.

`SessionLedgerProofs`

- `TokensAreSoundTheorem`, `RevokedNeverRotatesTheorem`, `OldCredentialIsCutOffTheorem`.
  `SessionInv` says of each request what it has seen and what still holds of it (`Held`:
  a lock on its row, a successor nobody has received), and of two requests that neither
  shares the other's new token or row (`Apart`).
- `ReuseIsRealTheorem` by `ReuseInv`: every used row and consumed entry has the request
  that used it.

`ReadCacheProofs`

- `CacheIsSoundTheorem`. `CacheInv`: what a read has loaded is no older than its floor,
  and than all that is applied while no invalidation came in between (`Sane`); who
  joins a load does not join it too late (`Joins`, `FlightSound`).
- `LoadsAreSharedTheorem` by `LeaderInv`: a read that waits does so for the recorded
  leader or for one whose followers are awake already.

`SharedStateProofs`

- `BackupVote`: a majority a call knows of has voted, and a majority that is there is
  known to somebody who still counts or deletes (`VoteInv`).
- `AdminGuard`: a handler that takes a SUPER_ADMIN away has locked another one (`Held`),
  a password it has made is nobody's until it is written (`Unused`), and a token is used
  by one call (`TokenInv`).
- `DataPurge` (`PurgeInv`): keys are numbered in the order of inserts, what an archive
  does not know is in `missing` or came after it (`Known`), also while its pages are being
  read (`PartRead`), and no content is in a table twice.
- `BackupChain` (`ChainInv`): the archives on disk are `Coherent` (later means higher in
  the chain), names of runs that are over are `Spent`, what an archive points to has the
  data itself (`Supports`) and is `Present` unless a fault is known; and of a run, what
  its plan (`PlanInv`) and its archive (`MadeInv`) still mean when it publishes, for the
  runs that saw the newest archive and for those that are `blind`.
- `BackupWatchdog` (`CutInv`): the line of waiting calls (`LineInv`, `BehindInv`), the age
  of the lease against the guard's (`LeaseInv`), what cut work may still do (`WorkInv`),
  that a scope looks no quieter than its work (`IdleInv`), whose scope is followed
  (`HolderInv`).

`MirrorProofs`

- `PrimaryState` (`MirrorInv`). `MirrorsAgree` speaks of a copy after all messages of a
  channel, so the invariant is about the messages instead. For families
  (`RevocationsTold`): what the primary knows, and what a worker has reported, each
  worker holds, dropped from a full set, or has a message about with that time or a
  later one. For addresses (`BlocksTold`): the last message about an address decides,
  or what the worker holds if there is none. For jobs (`OutcomesTold`): one worker at a
  time has records under way (`OneRecorder`), they are handled in the order of their
  times (`RecordsRise`), and a worker holds or is told of the latest (`Latest`).
  `ChannelsFit` says that nothing in a channel is refused that still matters. That a
  worker which reads its channel then agrees is shown along the computation: `UpTo` (a
  well-founded minimum in place of induction over an operator), `History` and
  `Sorted` (a message can be applied key by key), and for each topic a lemma that what
  the invariant says of a copy stays true from one message to the next.
- `RequestCache` (`PageInv`): answers and entries are as new as the last invalidation or
  known to be old, and what a view waits for is current.
- `StatusBanner` (`BannerInv`): a check under way knows the truth or is to be repeated
  (`ChecksAreTrue`), a hub that was told knows it, awaits an evaluation that does not see
  it otherwise, or has one queued behind its own (`HubIsTold`), and the last frame under
  way is the last verdict (`Follows`).

`ProcessStateProofs`

- `Snowflake` (`IdsInv`): in the last millisecond the tails in use are those of the
  sequences used, and remainders of numbers closer than the range differ.
- `OraclePool` (`ConnInv`, `BreakInv`): each connection has a holder and each waiting
  caller a request; the newest verdicts are as many failures as are counted.
- `RateWindow` (`RateInv`): what is held in a window is no more than what it counts.
- `RunMarker` (`RecordInv`): the fields agree with the stop (`StopAgrees`), the file with
  the fields unless a write failed (`RecordFollows`), and what is owed is in the fields,
  and in the file or found again by the next boot (`OwedIsKept`).
- `AlertWatch` (`AckInv`): an acknowledgement in memory, in the table or between them was
  given by an operator. `AlertDigest` (`DigestInv`): a line is in one place on its way.
- `LoginLockout` (`LockTypes`): an action property. A step that makes an account
  admissible is a success or the end of the lock; nothing is used of how long locks are.
- `AuditBuffer` (`QueueInv`): batches and queue hold rising numbers, the batch of a running
  flush lies before the queue, and a row that is nowhere in them is in the table or was
  warned of (`Kept`).
- `LogTail`, the logger (`LogInv`): what waits is newer than what is being written, which is
  newer than what is on disk; nothing that was dropped waits; and the number of dropped
  lines is the counter, the report on its way and the reports made, together.
- `LogTail`, the tail (`TailInv`). Between two ticks a stream has what it is owed, but the
  induction runs through the ticks: what was sent, the number told, and the rows of the
  tick under way are together what is owed, each place once (`Exact`, `Sound`). It needs
  that the offsets and the rows of the tick lie within what the files have (`TickReads`),
  that what a stream is not owed was not read after it was opened (`BaseIsOld`), that an
  open stream is the one its user has (`Served`), and what a tick may do that outlives its
  poller and meets a new one (`Fresh`). `TickEnds` and `ContinueKeeps` are the lemmas about
  the end of a tick, which four actions share; the parts of the invariant are operators of
  a state's components, so that the same lemma serves the middle of a step and its end.

What is only model-checked:

- Liveness (`StopEnds`, `LeaderReturns`, `WaiterServed`, `ReadsEnd`, `StaleEnds`,
  `CallsEnd`): it needs fairness and ENABLED, which the prover does not support.
- `QueryMeansPipeline`: `FilterParser` declares RECURSIVE operators (`ParseFilter`,
  `Meaning`), and its statement is an induction over filters.
- The five violation runs, which are counterexamples.

## 5. Not modelled

- `middleware/security/IdempotencyMiddleware.js` is mounted on no route, and the
  progress endpoints that poll a scope (`ScopedSsePoller`) are used by none.
- `seedCache`, the bare `invalidateCache()` and the refetch on focus of
  `useRequest.js` have no caller in the application.
- Of the modelled components: the filter by level, midnight, shrinking files and the
  lines of other processes in the log tail; the calendar of the schedule and the
  retention sweeps by age; archive format, signatures and checksums; demo mode;
  the severity timer and the visibility rules of the banner; the relay of critical
  log lines by the primary; several keys of one cache store; the CSRF token of the
  front end's HTTP client.
- Text of logs, mails and answers; HTTP and cookies; the contents of tokens and
  hashes; encryption (`utils/encryption`) and money arithmetic: no state that
  several steps share. Of the query wrapper: `OracleCollection`, updates, joins,
  common table expressions, schema statements, correlated subqueries, `$case` and
  the operators that differ only in what they compare.
- Views, palettes, styles, message constants, routes and generated files. They are
  most of the repository's lines, so the share of lines that the models cover
  stays small however much of the state is modelled.

## 6. Plan

Done: the modules of section 2, their runs, and the theorems of section 4. Left:

1. `FilterParser` with recursive functions in place of RECURSIVE operators, and the
   facts about names of binds that need no induction over filters.
2. An abstract session chain implemented by `SessionLedger`.
