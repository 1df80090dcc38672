--------------------------- MODULE BackupWatchdog ----------------------------
(***************************************************************************)
(* A backup run under its watchdog: who is alive, who is cut, and what the *)
(* run still does after the cut.                                           *)
(*   Backend/src/utils/progress/ProgressScope.js, IdleWatchdog.js,         *)
(*     RequestWatchdog.js, progress.js (runGuarded)                        *)
(*   Backend/src/services/BackupStoreService.js   runBackup, _resolveCut   *)
(*   Backend/src/utils/locks/FileLease.js         its heartbeat            *)
(*                                                                         *)
(* One process; other processes take and give back the same file lease.    *)
(* Time passes in sweeps of the watchdog, and heartbeats keep its pace.    *)
(***************************************************************************)
EXTENDS Naturals, Sequences

CONSTANTS
  Calls,        \* calls of runBackup
  Limits,       \* REQUEST_IDLE_TIMEOUT_LONG_MS: what it may be, in sweeps
  GuardLimit,   \* DB_BACKUP_IDLE_TIMEOUT_MS
  Cap,          \* DB_CALL_PROGRESS_CAP_MS
  StaleAfter,   \* staleMs of the lease, GuardLimit and a minute
  StallFactor,  \* a sweep later than this is an event-loop stall
  MaxStalls     \* bound: event-loop stalls

VARIABLES
  req,     \* per call: the scope of its request; none for a scheduled run
  guard,   \* per call: the scope of runGuarded
  phase,   \* per call: "new", "queued", "leasing", "guarded", "settling",
           \* "expired" (CUT_SETTLE_MS is over), "ended"
  said,    \* per call: "ok", "failed", "cut", "nothing" (published), "none"
  work,    \* per call: what _runBackupLocked is at, and the age of its DB call
  queue,   \* _runBackupLockTail: who holds or awaits the lock of the process
  holder,  \* _runHolderScope: whose scope it is, and which
  lease,   \* who has .backup-run.lease, and the age of its mtime
  fresh,   \* the holder's scope has progressed since its last heartbeat
  disk,    \* calls whose archive is published
  stalls,
  quiet,   \* history, per call: sweeps since its work last progressed
  late,    \* history: calls whose publish outlived CUT_SETTLE_MS
  wrong    \* history: "undeserved", "stray", "robbed"

vars == <<req, guard, phase, said, work, queue, holder, lease, fresh, disk, stalls, quiet, late, wrong>>

Long   == GuardLimit + StaleAfter   \* an age beyond every limit
Later(age, k) == IF age + k > Long THEN Long ELSE age + k
Other  == "other"
NoOne  == [who |-> "none", scope |-> "none"]
Least(a, b) == IF a < b THEN a ELSE b

Init ==
  /\ req \in [Calls -> [on : BOOLEAN, limit : Limits, idle : {0}, cut : {FALSE}, follows : {FALSE}]]
  /\ guard = [c \in Calls |-> [idle |-> 0, cut |-> "no"]]
  /\ phase = [c \in Calls |-> "new"] /\ said = [c \in Calls |-> "none"]
  /\ work = [c \in Calls |-> [at |-> "none", age |-> 0]]
  /\ queue = <<>> /\ holder = NoOne
  /\ lease = [by |-> "none", age |-> 0] /\ fresh = FALSE
  /\ disk = {} /\ stalls = 0
  /\ quiet = [c \in Calls |-> 0] /\ late = {} /\ wrong = {}

-----------------------------------------------------------------------------
(* Scopes.                                                                 *)

\* touch of the guarded scope and, through it, of the request.
Touches(c) ==
  /\ guard' = [guard EXCEPT ![c].idle = IF guard[c].cut = "no" THEN 0 ELSE @]
  /\ req' = [req EXCEPT ![c].idle = IF guard[c].cut = "no" /\ ~req[c].cut THEN 0 ELSE @]
  /\ quiet' = [quiet EXCEPT ![c] = IF guard[c].cut = "no" THEN 0 ELSE @]
  /\ fresh' = (fresh \/ (lease.by = c /\ guard[c].cut = "no"))

-----------------------------------------------------------------------------
(* The lock of the process, the lease, the guard.                          *)

\* Deviation: a caller that has to wait is on its own.
FollowsNever(c) == FALSE

Follows(c) == req[c].on /\ queue # <<>>

\* _withRunBackupLock.
Arrive(c) ==
  /\ phase[c] = "new" /\ phase' = [phase EXCEPT ![c] = "queued"]
  /\ queue' = Append(queue, c)
  /\ req' = [req EXCEPT ![c].idle = 0, ![c].follows = Follows(c)]
  /\ quiet' = [quiet EXCEPT ![c] = 0]
  /\ UNCHANGED <<guard, said, work, holder, lease, fresh, disk, stalls, late, wrong>>

\* Its turn: the scope that others follow is now its own.
Turn(c) ==
  /\ phase[c] = "queued" /\ Head(queue) = c
  /\ phase' = [phase EXCEPT ![c] = "leasing"]
  /\ req' = [req EXCEPT ![c].follows = FALSE]
  /\ holder' = IF req[c].on \/ req[c].cut THEN [who |-> c, scope |-> "req"] ELSE NoOne
  /\ UNCHANGED <<guard, said, work, queue, lease, fresh, disk, stalls, quiet, late, wrong>>

\* The call ends: the lease is given back if it is still its own.
Ends(c, says) ==
  /\ phase' = [phase EXCEPT ![c] = "ended"] /\ said' = [said EXCEPT ![c] = says]
  /\ lease' = IF lease.by = c THEN [by |-> "none", age |-> 0] ELSE lease
  /\ holder' = NoOne /\ queue' = Tail(queue)
  /\ req' = [req EXCEPT ![c].on = FALSE]
  /\ UNCHANGED <<guard, work, fresh, disk, stalls, quiet>>

\* acquire polls: the request was cut, the file was free or stale, or its mtime
\* has advanced since the last poll.
Poll(c) ==
  /\ phase[c] = "leasing"
  /\ IF req[c].cut THEN Ends(c, "cut") /\ UNCHANGED <<late, wrong>>
     ELSE /\ lease.by = "none" \/ lease.age > StaleAfter
          /\ lease' = [by |-> c, age |-> 0] /\ fresh' = TRUE
          /\ phase' = [phase EXCEPT ![c] = "guarded"]
          /\ work' = [work EXCEPT ![c].at = "idle"]
          /\ guard' = [guard EXCEPT ![c].idle = 0]
          /\ holder' = [who |-> c, scope |-> "guard"]
          /\ UNCHANGED <<req, said, queue, disk, stalls, quiet, late, wrong>>

Waits(c) ==
  /\ phase[c] = "leasing" /\ lease.by = Other /\ lease.age = 0 /\ req[c].on
  /\ req' = [req EXCEPT ![c].idle = 0] /\ quiet' = [quiet EXCEPT ![c] = 0]
  /\ UNCHANGED <<guard, phase, said, work, queue, holder, lease, fresh, disk, stalls, late, wrong>>

\* The work ends before a cut.
GuardEnds(c) ==
  /\ phase[c] = "guarded" /\ guard[c].cut = "no" /\ work[c].at \in {"done", "failed"}
  /\ Ends(c, IF work[c].at = "done" THEN "ok" ELSE "failed")
  /\ UNCHANGED <<late, wrong>>

\* The guard rejects: with the request's error, the call ends as it is.
GuardCut(c) ==
  /\ phase[c] = "guarded" /\ guard[c].cut # "no"
  /\ IF guard[c].cut = "stall"
     THEN /\ phase' = [phase EXCEPT ![c] = "settling"]
          /\ UNCHANGED <<req, guard, said, work, queue, holder, lease, fresh, disk, stalls, quiet, late, wrong>>
     ELSE Ends(c, "cut") /\ UNCHANGED <<late, wrong>>

Publishing(c) == work[c].at \in {"write", "rename"}

\* Deviation: the outcome of a publish is not waited for.
SettledAtOnce(c) == TRUE

Settled(c) == ~Publishing(c)

\* _resolveCut: the publish has settled, or CUT_SETTLE_MS is over.
Resolve(c) ==
  /\ phase[c] \in {"settling", "expired"}
  /\ Ends(c, IF c \in disk THEN "ok" ELSE "nothing")
  /\ \/ Settled(c) /\ UNCHANGED late
     \/ Publishing(c) /\ phase[c] = "expired" /\ late' = late \cup {c}
  /\ UNCHANGED wrong

-----------------------------------------------------------------------------
(* _runBackupLocked: it goes on after a cut until it meets the cut.        *)

\* A database call, refused when the scope was cut.
DbBegins(c) ==
  /\ work[c].at = "idle"
  /\ work' = [work EXCEPT ![c] = [at |-> IF guard[c].cut = "no" THEN "db" ELSE "failed", age |-> 0]]
  /\ UNCHANGED <<req, guard, phase, said, queue, holder, lease, fresh, disk, stalls, quiet, late, wrong>>

\* It returns, fails, or is broken by the cut.
DbEnds(c) ==
  /\ work[c].at = "db" /\ Touches(c)
  /\ \E to \in {"idle", "failed"} : work' = [work EXCEPT ![c] = [at |-> to, age |-> 0]]
  /\ UNCHANGED <<phase, said, queue, holder, lease, disk, stalls, late, wrong>>

\* The zip is built and _atomicWrite opens the .part file.
Writes(c) ==
  /\ work[c].at = "idle" /\ Touches(c)
  /\ work' = [work EXCEPT ![c].at = "write"]
  /\ UNCHANGED <<phase, said, queue, holder, lease, disk, stalls, late, wrong>>

\* Written and synced: only now is the cut looked at.
Written(c) ==
  /\ work[c].at = "write"
  /\ work' = [work EXCEPT ![c].at = IF guard[c].cut = "no" THEN "rename" ELSE "failed"]
  /\ UNCHANGED <<req, guard, phase, said, queue, holder, lease, fresh, disk, stalls, quiet, late, wrong>>

\* The rename ends.  Excused: a publish that outlived CUT_SETTLE_MS, and one whose
\* request was cut, which is not waited for.
Renamed(c) ==
  /\ work[c].at = "rename"
  /\ \/ /\ work' = [work EXCEPT ![c].at = "done"] /\ disk' = disk \cup {c}
        /\ wrong' = IF lease.by # c /\ c \notin late /\ guard[c].cut # "parent"
                    THEN wrong \cup {"stray"} ELSE wrong
     \/ work' = [work EXCEPT ![c].at = "failed"] /\ UNCHANGED <<disk, wrong>>
  /\ UNCHANGED <<req, guard, phase, said, queue, holder, lease, fresh, stalls, quiet, late>>

-----------------------------------------------------------------------------
(* Time.                                                                   *)

\* Deviation: a late sweep is a sweep like any other.
LateNever(k) == FALSE

\* sweep: now - prev > stallFactor * sweepMs.
Late(k) == k > StallFactor

\* After k sweeps: a call to the database that is younger than the cap keeps both
\* of its scopes alive, and so does a stall of the event loop.
Busy(c, k) == work[c].at = "db" /\ work[c].age + k < Cap
Alive(c, k, idle) == IF Late(k) \/ Busy(c, k) THEN 0 ELSE Later(idle, k)

ReqIdle(c, k) ==
  LET own == Alive(c, k, req[c].idle)
      its == CASE holder.scope = "req"   -> Alive(holder.who, k, req[holder.who].idle)
               [] holder.scope = "guard" -> Alive(holder.who, k, guard[holder.who].idle)
               [] holder.scope = "none"  -> Long
  IN  IF req[c].follows THEN Least(own, its) ELSE own

CutsReq(c, k) == ~Late(k) /\ req[c].on /\ ~req[c].cut /\ phase[c] # "new" /\ ReqIdle(c, k) > req[c].limit
CutsGuard(c, k) ==
  ~Late(k) /\ phase[c] = "guarded" /\ guard[c].cut = "no" /\ Alive(c, k, guard[c].idle) > GuardLimit

\* How long the work that c stands for has been quiet: its own, or that of the
\* call it queues behind.
Stands(c) == IF phase[c] = "queued" THEN Head(queue) ELSE c
Quiet(c, k) == IF k > StallFactor \/ Busy(c, k) THEN 0 ELSE Later(quiet[c], k)

Undeserved(c, k) ==
  \/ CutsReq(c, k) /\ Quiet(Stands(c), k) <= req[c].limit
  \/ CutsGuard(c, k) /\ Quiet(c, k) <= GuardLimit

\* What continues before a timer can fire.
Continues ==
  \/ queue # <<>> /\ phase[Head(queue)] = "queued"
  \/ \E c \in Calls : phase[c] = "guarded" /\ (guard[c].cut # "no" \/ work[c].at \in {"done", "failed"})
  \/ \E c \in Calls : phase[c] = "expired"

\* The scope of a request is swept before that of its backup, and takes it along.
Tick(k) ==
  /\ ~Continues
  /\ IF k = 1 THEN UNCHANGED stalls ELSE stalls < MaxStalls /\ stalls' = stalls + 1
  /\ req' = [c \in Calls |-> IF req[c].on /\ ~req[c].cut /\ phase[c] # "new"
       THEN [req[c] EXCEPT !.idle = Alive(c, k, @), !.cut = CutsReq(c, k), !.on = ~CutsReq(c, k)]
       ELSE req[c]]
  /\ guard' = [c \in Calls |-> IF phase[c] = "guarded" /\ guard[c].cut = "no"
       THEN [idle |-> Alive(c, k, guard[c].idle),
             cut |-> IF CutsReq(c, k) THEN "parent" ELSE IF CutsGuard(c, k) THEN "stall" ELSE "no"]
       ELSE guard[c]]
  /\ work' = [c \in Calls |-> IF work[c].at = "db" THEN [work[c] EXCEPT !.age = Later(@, k)] ELSE work[c]]
  /\ quiet' = [c \in Calls |-> IF phase[c] \in {"new", "ended"} THEN 0 ELSE Quiet(c, k)]
  /\ lease' = IF fresh /\ lease.by \in Calls THEN [lease EXCEPT !.age = 0]
              ELSE IF lease.by = "none" THEN lease ELSE [lease EXCEPT !.age = Later(@, k)]
  /\ fresh' = (lease.by \in Calls /\ guard[lease.by].cut = "no" /\ (Late(k) \/ Busy(lease.by, k)))
  /\ wrong' = IF \E c \in Calls : Undeserved(c, k) THEN wrong \cup {"undeserved"} ELSE wrong
  /\ phase' = [c \in Calls |-> IF phase[c] = "settling" THEN "expired" ELSE phase[c]]
  /\ UNCHANGED <<said, queue, holder, disk, late>>

-----------------------------------------------------------------------------
(* The other processes: they take the lease when it is free, beat, give it *)
(* back, or steal one that is stale.                                       *)

Others ==
  /\ \/ lease.by = "none"  /\ lease' = [by |-> Other, age |-> 0] /\ UNCHANGED wrong
     \/ lease.by = Other   /\ lease' = [lease EXCEPT !.age = 0] /\ UNCHANGED wrong
     \/ lease.by = Other   /\ lease' = [by |-> "none", age |-> 0] /\ UNCHANGED wrong
     \/ /\ lease.by \in Calls /\ lease.age > StaleAfter
        /\ lease' = [by |-> Other, age |-> 0] /\ wrong' = wrong \cup {"robbed"}
  /\ UNCHANGED <<req, guard, phase, said, work, queue, holder, fresh, disk, stalls, quiet, late>>

Next ==
  \/ \E c \in Calls :
       \/ Arrive(c) \/ Turn(c) \/ Poll(c) \/ Waits(c) \/ GuardEnds(c) \/ GuardCut(c) \/ Resolve(c)
       \/ DbBegins(c) \/ DbEnds(c) \/ Writes(c) \/ Written(c) \/ Renamed(c)
  \/ \E k \in {1, StallFactor + 1} : Tick(k)
  \/ Others

Spec == Init /\ [][Next]_vars

-----------------------------------------------------------------------------
(* Properties                                                              *)

\* No scope is cut while the work it stands for progresses, no other process takes
\* the lease from a run that is not over, an archive appears only under the lease,
\* and what a call says of its archive is true, then and later.
CutsAreSound ==
  /\ wrong = {}
  /\ \A c \in Calls : said[c] = "ok" => c \in disk
  /\ \A c \in Calls : said[c] = "nothing" /\ c \notin late => c \notin disk
=============================================================================
