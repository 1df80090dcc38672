----------------------------- MODULE BackupChain -----------------------------
(***************************************************************************)
(* The archives of the backup directory, shared by all workers:            *)
(*   Backend/src/services/BackupStoreService.js    runs, index, delete     *)
(*   Backend/src/services/BackupArchiveService.js  what an archive holds   *)
(*   Backend/src/services/BackupScheduleService.js retention deletes       *)
(* A run holds the file lease (module FileLease) from the read of the      *)
(* index to the rename; deletes hold nothing and decide on an index that   *)
(* each worker caches.                                                     *)
(***************************************************************************)
EXTENDS Naturals, FiniteSets

CONSTANTS
  Procs, Tables,
  Triggers,       \* subset of {"SCHEDULED", "MANUAL", "PURGE"}
  FullEvery,      \* DB_BACKUP_FULL_EVERY
  MaxRuns, MaxTime, MaxChanges, MaxFaults, MaxDeletes   \* bounds

VARIABLES
  sec,        \* the second of the clock that names archives
  data,       \* contents of the tables, as version numbers
  disk,       \* archives
  broken,     \* ids whose file fails its signature
  run,        \* calls of runBackup, in the order they came in
  lease,      \* the run that holds .backup-run.lease, 0 for none
  reading,    \* per worker: a rebuild of the index under way
  cache,      \* per worker: _indexCache
  unlinking,  \* per worker: ids that deleteArchive has decided to unlink
  deletes, faults,
  hurt,       \* history: ids that lost a source or their own data
  blind       \* history: ids of runs that did not see the newest archive, and
              \* of those that continue from one

vars == <<sec, data, disk, broken, run, lease, reading, cache, unlinking, deletes, faults,
          hurt, blind>>

Runs == 1..MaxRuns
NoId == [trigger |-> "-", n |-> 0]
NoIndex == {}           \* else the set of one index, as it was read

Ids(D)     == {a.id : a \in D}
Get(D, id) == CHOOSE a \in D : a.id = id

\* The archives that have a table UNCHANGED from id.
Dependents(D, id) ==
  {a \in D : a.id # id /\ \E t \in Tables : a.tables[t].source = id}

NewRun == [phase |-> "new", at |-> 0, id |-> NoId, index |-> {}, plan |-> {}, made |-> {}]

Init ==
  /\ sec = 1 /\ data = [t \in Tables |-> 0] /\ disk = {} /\ broken = {}
  /\ run = [n \in Runs |-> NewRun] /\ lease = 0
  /\ reading = [p \in Procs |-> NoIndex] /\ cache = [p \in Procs |-> NoIndex]
  /\ unlinking = [p \in Procs |-> {}] /\ deletes = 0 /\ faults = 0
  /\ hurt = {} /\ blind = {}

-----------------------------------------------------------------------------
(* The directory, as a read of it gives it                                 *)

\* _loadIndex skips, with a warning, a file whose stat, read, unzip or manifest
\* fails: one that is damaged, or one that cannot be opened just then.
Reads(dir, D) ==
  /\ D \subseteq dir
  /\ IF Ids(dir \ D) \subseteq broken THEN faults' = faults
     ELSE faults < MaxFaults /\ faults' = faults + 1

\* Deviation: the index of the worker, if it has one.
Cached(p) == IF cache[p] = NoIndex THEN {disk} ELSE cache[p]

\* With force the directory is read, whatever is cached.
Forced(p) == {disk}

\* _chainHead, as a set of at most one archive.
ChainHead(index) ==
  LET C == {a \in index : a.id.trigger # "PURGE"}
  IN  {a \in C : \A b \in C : b.built <= a.built}

-----------------------------------------------------------------------------
(* runBackup                                                               *)

\* buildArchiveId, when the call comes in: a scheduled run is named after its
\* event, the others after the second.
Request(n, p, trigger) ==
  /\ run[n].phase = "new" /\ \A m \in 1..(n - 1) : run[m].phase # "new"
  /\ run' = [run EXCEPT ![n] =
       [NewRun EXCEPT !.phase = "queued", !.at = p,
          !.id = [trigger |-> trigger, n |-> IF trigger = "SCHEDULED" THEN n ELSE sec]]]
  /\ UNCHANGED <<sec, data, disk, broken, lease, reading, cache, unlinking, deletes, faults, hurt, blind>>

\* _withRunBackupLock, FIFO per worker, and the lease; the index is re-read.
Enter(n) ==
  /\ run[n].phase = "queued" /\ lease = 0
  /\ \A m \in 1..(n - 1) : run[m].at = run[n].at => run[m].phase # "queued"
  /\ lease' = n
  /\ \E dir \in Forced(run[n].at) : \E D \in SUBSET dir :
       /\ Reads(dir, D)
       /\ run' = [run EXCEPT ![n].phase = "chaining", ![n].index = D]
       /\ cache' = [cache EXCEPT ![run[n].at] = {D}]
       /\ blind' = IF ChainHead(D) = ChainHead(dir) THEN blind ELSE blind \cup {run[n].id}
  /\ UNCHANGED <<sec, data, disk, broken, reading, unlinking, deletes, hurt>>

Sources(a) == {a.tables[t].source : t \in Tables} \ {NoId}

\* Deviation: only the head's own file is looked for.
MembersHeadOnly(a) == {a.id}

Members(a) == {a.id} \cup Sources(a)

\* Deviation: an unchanged table is looked for in the head.
PreviousInHead(head) ==
  [t \in Tables |-> [sha |-> head.tables[t].sha, source |-> head.id]]

\* previousTableState: where the head's copy of each table lives.
PreviousTableState(head) ==
  [t \in Tables |-> [sha |-> head.tables[t].sha,
                     source |-> IF head.tables[t].source = NoId THEN head.id
                                ELSE head.tables[t].source]]

\* _decideChain: the head of the index to continue, none for a forced FULL; a member
\* that cannot be read just then fails its verification.
Decide(n) ==
  LET index == run[n].index
      H == {h \in ChainHead(index) :
              /\ run[n].id.trigger # "PURGE" /\ h.gen + 1 < FullEvery
              /\ Members(h) \subseteq Ids(index)
              /\ Members(h) \subseteq Ids(disk) \ broken}
  IN  /\ run[n].phase = "chaining"
      /\ \E plan \in {H, {}} :
           /\ run' = [run EXCEPT ![n].phase = "building", ![n].index = {}, ![n].plan = plan]
           /\ faults' = IF plan = H THEN faults ELSE faults + 1
           /\ blind' = IF Ids(plan) \cap blind = {} THEN blind ELSE blind \cup {run[n].id}
      /\ faults' <= MaxFaults
      /\ UNCHANGED <<sec, data, disk, broken, lease, reading, cache, unlinking, deletes, hurt>>

\* createdAt, counted in the runs that are over by then.
NextBuilt == Cardinality({n \in Runs : run[n].phase = "done"}) + 1

\* buildScheduledBackup: a table whose hash is the previous one is a pointer.
Build(n) ==
  LET forced == run[n].plan = {}
      head == CHOOSE h \in run[n].plan : TRUE
      prev == PreviousTableState(head)
      kept(t) == ~forced /\ prev[t].sha = data[t]
      archive == [id |-> run[n].id, built |-> NextBuilt,
                  gen |-> IF forced THEN 0 ELSE head.gen + 1,
                  base |-> IF forced THEN run[n].id ELSE head.base,
                  tables |-> [t \in Tables |->
                     [sha |-> data[t], source |-> IF kept(t) THEN prev[t].source ELSE NoId]]]
  IN  /\ run[n].phase = "building"
      /\ run' = [run EXCEPT ![n].phase = "publishing", ![n].made = {archive}]
      /\ UNCHANGED <<sec, data, disk, broken, lease, reading, cache, unlinking, deletes, faults, hurt, blind>>

\* Archives that a replaced or removed file leaves without their data.
Bereft(id) == {a.id : a \in Dependents(disk, id)}
              \cup {run[n].id : n \in {m \in Runs : run[m].phase \in {"building", "publishing"} /\
                      \E h \in run[m].plan : id \in Members(h)}}

\* _atomicWrite's rename replaces a file of that name.
Rename(n) ==
  LET a == CHOOSE b \in run[n].made : TRUE
  IN  /\ disk' = {b \in disk : b.id # a.id} \cup run[n].made
      /\ broken' = broken \ {a.id}
      /\ hurt' = IF a.id \in Ids(disk) THEN hurt \cup Bereft(a.id) \cup {a.id} ELSE hurt

Ended(n) == run' = [run EXCEPT ![n] = [NewRun EXCEPT !.phase = "done"]]

\* publish, and the index is dropped.
Publish(n) ==
  /\ run[n].phase = "publishing"
  /\ Rename(n) /\ Ended(n) /\ lease' = 0
  /\ cache' = [cache EXCEPT ![run[n].at] = NoIndex]
  /\ UNCHANGED <<sec, data, reading, unlinking, deletes, faults, blind>>

\* The build fails, or the watchdog cuts it before the rename.
Cut(n) ==
  /\ run[n].phase \in {"chaining", "building", "publishing"} /\ faults < MaxFaults
  /\ faults' = faults + 1
  /\ Ended(n) /\ lease' = 0
  /\ UNCHANGED <<sec, data, disk, broken, reading, cache, unlinking, deletes, hurt, blind>>

-----------------------------------------------------------------------------
(* The index and deleteArchive                                             *)

\* _loadIndex by a listing, a verify or a delete: the directory is read, then
\* the cache is filled, whatever was published meanwhile.
ReadIndex(p) ==
  /\ cache[p] = NoIndex /\ reading[p] = NoIndex
  /\ \E D \in SUBSET disk : Reads(disk, D) /\ reading' = [reading EXCEPT ![p] = {D}]
  /\ UNCHANGED <<sec, data, disk, broken, run, lease, cache, unlinking, deletes, hurt, blind>>

FillCache(p) ==
  /\ reading[p] # NoIndex
  /\ reading' = [reading EXCEPT ![p] = NoIndex]
  /\ cache' = [cache EXCEPT ![p] = reading[p]]
  /\ UNCHANGED <<sec, data, disk, broken, run, lease, unlinking, deletes, faults, hurt, blind>>

\* INDEX_CACHE_TTL_MS passed.
CacheExpires(p) ==
  /\ cache[p] # NoIndex
  /\ cache' = [cache EXCEPT ![p] = NoIndex]
  /\ UNCHANGED <<sec, data, disk, broken, run, lease, reading, unlinking, deletes, faults, hurt, blind>>

\* deleteArchive, by retention or by vote, up to the unlink.
Delete(p, id) ==
  /\ deletes < MaxDeletes
  /\ \E index \in cache[p] : id \in Ids(index) /\ Dependents(index, id) = {}
  /\ deletes' = deletes + 1
  /\ unlinking' = [unlinking EXCEPT ![p] = @ \cup {id}]
  /\ UNCHANGED <<sec, data, disk, broken, run, lease, reading, cache, faults, hurt, blind>>

\* The unlink; a file that is gone already is an error.
Unlink(p, id) ==
  /\ id \in unlinking[p]
  /\ unlinking' = [unlinking EXCEPT ![p] = @ \ {id}]
  /\ \/ /\ id \in Ids(disk)
        /\ disk' = {a \in disk : a.id # id} /\ broken' = broken \ {id}
        /\ hurt' = hurt \cup Bereft(id)
        /\ cache' = [cache EXCEPT ![p] = NoIndex]
     \/ id \notin Ids(disk) /\ UNCHANGED <<disk, broken, hurt, cache>>
  /\ UNCHANGED <<sec, data, run, lease, reading, deletes, faults, blind>>

-----------------------------------------------------------------------------
(* The rest of the world                                                   *)

Change(t) ==
  /\ data[t] < MaxChanges
  /\ data' = [data EXCEPT ![t] = @ + 1]
  /\ UNCHANGED <<sec, disk, broken, run, lease, reading, cache, unlinking, deletes, faults, hurt, blind>>

\* A file is damaged on disk.
Damage(id) ==
  /\ id \in Ids(disk) \ broken /\ faults < MaxFaults /\ faults' = faults + 1
  /\ broken' = broken \cup {id} /\ hurt' = hurt \cup Bereft(id)
  /\ UNCHANGED <<sec, data, disk, run, lease, reading, cache, unlinking, deletes, blind>>

\* A worker dies; its lease is stolen, its .part file is swept.
Crash(p) ==
  /\ faults < MaxFaults /\ faults' = faults + 1
  /\ run' = [n \in Runs |-> IF run[n].at = p THEN [NewRun EXCEPT !.phase = "done"] ELSE run[n]]
  /\ lease' = IF lease # 0 /\ run[lease].at = p THEN 0 ELSE lease
  /\ reading' = [reading EXCEPT ![p] = NoIndex] /\ cache' = [cache EXCEPT ![p] = NoIndex]
  /\ unlinking' = [unlinking EXCEPT ![p] = {}]
  /\ UNCHANGED <<sec, data, disk, broken, deletes, hurt, blind>>

Second == sec < MaxTime /\ sec' = sec + 1
  /\ UNCHANGED <<data, disk, broken, run, lease, reading, cache, unlinking, deletes, faults, hurt, blind>>

Next ==
  \/ Second \/ \E t \in Tables : Change(t)
  \/ \E n \in Runs : \/ Enter(n) \/ Decide(n) \/ Build(n) \/ Publish(n) \/ Cut(n)
                     \/ \E p \in Procs, g \in Triggers : Request(n, p, g)
  \/ \E p \in Procs : \/ ReadIndex(p) \/ FillCache(p) \/ CacheExpires(p) \/ Crash(p)
                      \/ \E id \in Ids(disk) \cup UNION {unlinking[q] : q \in Procs} :
                           Delete(p, id) \/ Unlink(p, id)
  \/ \E id \in Ids(disk) : Damage(id)

Spec == Init /\ [][Next]_vars

-----------------------------------------------------------------------------
(* Properties                                                              *)

\* The data of table t of a is in an archive of disk that holds it itself.
Resolves(a, t) ==
  \/ a.tables[t].source = NoId
  \/ \E b \in disk : /\ b.id = a.tables[t].source /\ b.id \notin broken
                     /\ b.tables[t] = [sha |-> a.tables[t].sha, source |-> NoId]

\* An archive can be restored unless a file it builds on was itself removed,
\* replaced or damaged after it was chosen, and no two archives claim one place in
\* a chain unless a run did not see the newest archive: whatever runs, cuts,
\* crashes, unreadable files and stale caches do, no run builds on a chain that is
\* already broken, or beside another run whose archive it can read.
ChainIsWhole ==
  /\ \A a \in disk : a.id \notin hurt => \A t \in Tables : Resolves(a, t)
  /\ \A a, b \in disk : /\ a.base = b.base /\ a.gen = b.gen
                         /\ a.id.trigger # "PURGE" /\ b.id.trigger # "PURGE"
                         /\ {a.id, b.id} \cap blind = {}
                         => a = b

\* A pointer leads to an archive that has the table itself.
PointersAreOneHop ==
  \A a, b \in disk : \A t \in Tables :
    a.tables[t].source = b.id => b.tables[t].source = NoId
=============================================================================
