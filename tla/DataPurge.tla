----------------------------- MODULE DataPurge -------------------------------
(***************************************************************************)
(* Backups that license a purge, the purge, and the restore of an archive: *)
(*   Backend/src/services/DataPurgeService.js     executePurge             *)
(*   Backend/src/services/DataRestoreService.js   restore, _preflight      *)
(*   Backend/src/services/BackupArchiveService.js buildBackup              *)
(*   Backend/src/models/data-purge.model.js       the reads and deletes    *)
(*                                                                         *)
(* Two tables stand for the registry.  "log" is append-only: its rows get  *)
(* increasing PKs when an insert begins and are seen when it commits, in   *)
(* any order.  "ack" has natural keys, and its rows change.                *)
(***************************************************************************)
EXTENDS Naturals, FiniteSets

CONSTANTS
  Keys,        \* natural keys of ack, numbers for their order
  PageSize,    \* rows per page, STREAM_PAGE_SIZE
  Calls,       \* bound: purges and restores
  MaxPk,       \* bound: rows inserted into log
  MaxVersion,  \* bound: writes of ack
  MaxBackups   \* bound: backups

VARIABLES
  log,       \* the rows of log, [pk, of]; of is what the row says
  flight,    \* inserts into log that have a PK and are not committed
  pk,        \* the last PK
  ack,       \* per key its row's version, or 0
  version,   \* the last version
  reading,   \* a backup that reads its tables page by page, or NoBackup
  archives,  \* finished backups with their tokens
  call,      \* purges and restores under way
  lost,      \* history: rows that a purge deleted and its archive lacks
  amiss      \* history: two restores had passed their preflight at once, or one
             \* took an archive whose pages do not add up

vars == <<log, flight, pk, ack, version, reading, archives, call, lost, amiss>>

Tables   == {"log", "ack"}
NoBackup == [table |-> "none"]
Idle     == [at |-> "idle"]

Init ==
  /\ log = {} /\ flight = {} /\ pk = 0
  /\ ack = [k \in Keys |-> 0] /\ version = 0
  /\ reading = NoBackup /\ archives = {}
  /\ call = [c \in Calls |-> Idle] /\ lost = {} /\ amiss = FALSE

-----------------------------------------------------------------------------
(* Traffic: requests and alerts log, admins acknowledge and take back.     *)

InsertBegins ==
  /\ pk < MaxPk
  /\ pk' = pk + 1 /\ flight' = flight \cup {[pk |-> pk + 1, of |-> pk + 1]}
  /\ UNCHANGED <<log, ack, version, reading, archives, call, lost, amiss>>

InsertCommits(r) ==
  /\ r \in flight
  /\ flight' = flight \ {r} /\ log' = log \cup {r}
  /\ UNCHANGED <<pk, ack, version, reading, archives, call, lost, amiss>>

Acknowledge(k, present) ==
  /\ version < MaxVersion /\ version' = version + 1
  /\ ~present => ack[k] # 0
  /\ ack' = [ack EXCEPT ![k] = IF present THEN version' ELSE 0]
  /\ UNCHANGED <<log, flight, pk, reading, archives, call, lost, amiss>>

-----------------------------------------------------------------------------
(* Backup.                                                                 *)

Present(f) == {k \in Keys : f[k] # 0}

Content(t) == IF t = "log" THEN log ELSE {[pk |-> k, of |-> ack[k]] : k \in Present(ack)}

\* The rows of a table with their places in the order of the PK.
Copied(t) ==
  {[pk |-> r.pk, of |-> r.of, at |-> Cardinality({s \in Content(t) : s.pk <= r.pk})] :
     r \in Content(t)}

RowsOf(copies) == {[pk |-> c.pk, of |-> c.of] : c \in copies}

\* What the archive and its token hold: the rows of the tables in scope, as many
\* as were read; missing is history, the rows of log that it may lack.
Archive(scope, rows, missing, torn) ==
  [n |-> Cardinality(archives) + 1, scope |-> scope, log |-> rows["log"], ack |-> rows["ack"],
   missing |-> missing, torn |-> torn, used |-> FALSE]

Top(S) == IF S = {} THEN 0 ELSE CHOOSE m \in S : \A x \in S : x <= m

\* The highest PK that was read of log.
HighWater(a) == Top({c.pk : c \in a.log})

\* streamAllTables: one read-only transaction, and the token.
Backup(scope) ==
  /\ Cardinality(archives) < MaxBackups /\ reading = NoBackup
  /\ archives' = archives \cup
       {Archive(scope, [t \in Tables |-> IF t \in scope THEN Copied(t) ELSE {}], flight, FALSE)}
  /\ UNCHANGED <<log, flight, pk, ack, version, reading, call, lost, amiss>>

\* After ORA-01555: every table on its own, log first.
FallBack(scope) ==
  /\ Cardinality(archives) < MaxBackups /\ reading = NoBackup
  /\ reading' = [table |-> IF "log" \in scope THEN "log" ELSE "ack", skip |-> 0, scope |-> scope,
                 rows |-> [t \in Tables |-> {}], missing |-> {}, torn |-> FALSE]
  /\ UNCHANGED <<log, flight, pk, ack, version, archives, call, lost, amiss>>

\* OFFSET and FETCH, a statement of its own.
Page == {c \in Copied(reading.table) : reading.skip < c.at /\ c.at <= reading.skip + PageSize}

SoFar == [reading.rows EXCEPT ![reading.table] = @ \cup Page]

NextPage ==
  /\ reading # NoBackup /\ Cardinality(Page) = PageSize
  /\ reading' = [reading EXCEPT !.skip = @ + PageSize, !.rows = SoFar]
  /\ UNCHANGED <<log, flight, pk, ack, version, archives, call, lost, amiss>>

\* A short page is the last of its table.  The pages of log are torn if they do not
\* add up to what it holds by then: any row of it may be missing.
LastPage ==
  /\ reading # NoBackup /\ Cardinality(Page) < PageSize
  /\ LET isLog == reading.table = "log"
         torn == IF isLog THEN SoFar["log"] # Copied("log") ELSE reading.torn
         missing == IF ~isLog THEN reading.missing ELSE IF torn THEN log \cup flight ELSE flight
     IN \/ /\ isLog /\ "ack" \in reading.scope
           /\ reading' = [reading EXCEPT !.table = "ack", !.skip = 0, !.rows = SoFar,
                                         !.missing = missing, !.torn = torn]
           /\ UNCHANGED archives
        \/ /\ ~(isLog /\ "ack" \in reading.scope)
           /\ archives' = archives \cup {Archive(reading.scope, SoFar, missing, torn)}
           /\ reading' = NoBackup
  /\ UNCHANGED <<log, flight, pk, ack, version, call, lost, amiss>>

-----------------------------------------------------------------------------
(* Purge.                                                                  *)

Goes(c, at) == call' = [call EXCEPT ![c].at = at]
Ends(c, how) == call' = [call EXCEPT ![c] = [at |-> how]]

\* Deviation: the scope of the call is not compared with the token's.
ConsumeAnyScope(c, a, scope) ==
  /\ call[c] = Idle /\ ~a.used /\ scope # {}
  /\ archives' = (archives \ {a}) \cup {[a EXCEPT !.used = TRUE]}
  /\ \/ call' = [call EXCEPT ![c] = [at |-> "recount", a |-> a, scope |-> scope]]
     \/ Ends(c, "refused")
  /\ UNCHANGED <<log, flight, pk, ack, version, reading, lost, amiss>>

\* executePurge up to the confirmation: the token is used up before its admin,
\* its scope and the phrase are looked at.
Consume(c, a, scope) ==
  /\ call[c] = Idle /\ ~a.used /\ scope # {}
  /\ archives' = (archives \ {a}) \cup {[a EXCEPT !.used = TRUE]}
  /\ \/ /\ scope \subseteq a.scope
        /\ call' = [call EXCEPT ![c] = [at |-> "recount", a |-> a, scope |-> scope]]
     \/ Ends(c, "refused")
  /\ UNCHANGED <<log, flight, pk, ack, version, reading, lost, amiss>>

Bounded(a) == {r \in log : r.pk <= HighWater(a)}
\* Step 6: counts against the token's, log up to its high-water mark.
Recount(c) ==
  /\ call[c].at = "recount"
  /\ LET a == call[c].a IN
     IF /\ "log" \in call[c].scope => Cardinality(Bounded(a)) = Cardinality(a.log)
        /\ "ack" \in call[c].scope => Cardinality(Present(ack)) = Cardinality(a.ack)
     THEN Goes(c, "delete")
     ELSE Ends(c, "refused")
  /\ UNCHANGED <<log, flight, pk, ack, version, reading, archives, lost, amiss>>

\* Deviation: the DELETE is not bounded by the high-water mark.
DeletedAll(c) ==
  [log |-> IF "log" \in call[c].scope THEN log ELSE {},
   ack |-> IF "ack" \in call[c].scope THEN Present(ack) ELSE {}]

\* The rows that purgeTables deletes (_boundedFilter).
Deleted(c) ==
  [log |-> IF "log" \in call[c].scope THEN Bounded(call[c].a) ELSE {},
   ack |-> IF "ack" \in call[c].scope THEN Present(ack) ELSE {}]

\* purgeTables: one transaction, all or nothing.
Purge(c) ==
  /\ call[c].at = "delete"
  /\ \/ LET a == call[c].a
            d == Deleted(c)
        IN /\ log' = log \ d.log
           /\ ack' = [k \in Keys |-> IF k \in d.ack THEN 0 ELSE ack[k]]
           /\ lost' = lost \cup
                {[row |-> <<"log", r>>, excused |-> r \in a.missing] :
                   r \in d.log \ RowsOf(a.log)} \cup
                {[row |-> <<"ack", k, ack[k]>>, excused |-> "ack" \in a.scope] :
                   k \in {j \in d.ack : [pk |-> j, of |-> ack[j]] \notin RowsOf(a.ack)}}
           /\ Ends(c, "done")
     \/ Ends(c, "refused") /\ UNCHANGED <<log, ack, lost>>
  /\ UNCHANGED <<flight, pk, version, reading, archives, amiss>>

-----------------------------------------------------------------------------
(* Restore.                                                                *)

\* Deviation: the tables may hold rows.
PreflightBlind(c, a) ==
  /\ call[c] = Idle
  /\ call' = [call EXCEPT ![c] = [at |-> "insert", a |-> a]]
  /\ UNCHANGED <<log, flight, pk, ack, version, reading, archives, lost, amiss>>

\* _preflight of a FULL_SCOPE archive: every table in its scope is empty.
Preflight(c, a) ==
  /\ call[c] = Idle
  /\ IF ("log" \in a.scope => log = {}) /\ ("ack" \in a.scope => Present(ack) = {})
     THEN /\ call' = [call EXCEPT ![c] = [at |-> "insert", a |-> a]]
          /\ amiss' = (amiss \/ a.torn \/ \E d \in Calls : call[d].at = "insert")
     ELSE Ends(c, "refused") /\ UNCHANGED amiss
  /\ UNCHANGED <<log, flight, pk, ack, version, reading, archives, lost>>

\* The transaction: log rows get new PKs, in the order of the archive; a key that is
\* taken, or in the archive twice, fails it all.
Restore(c) ==
  /\ call[c].at = "insert"
  /\ LET a == call[c].a
         copy(k) == {d \in a.ack : d.pk = k}
     IN \/ /\ \A d \in a.ack : ack[d.pk] = 0 /\ copy(d.pk) = {d}
           /\ log' = log \cup {[pk |-> pk + d.at, of |-> d.of] : d \in a.log}
           /\ pk' = pk + Top({d.at : d \in a.log})
           /\ ack' = [k \in Keys |-> IF copy(k) # {} THEN (CHOOSE d \in copy(k) : TRUE).of ELSE ack[k]]
           /\ Ends(c, "done")
        \/ Ends(c, "refused") /\ UNCHANGED <<log, pk, ack>>
  /\ UNCHANGED <<flight, version, reading, archives, lost, amiss>>

Next ==
  \/ InsertBegins \/ NextPage \/ LastPage
  \/ \E r \in flight : InsertCommits(r)
  \/ \E k \in Keys, present \in BOOLEAN : Acknowledge(k, present)
  \/ \E scope \in SUBSET Tables \ {{}} : Backup(scope) \/ FallBack(scope)
  \/ \E c \in Calls :
       \/ \E a \in archives :
            Preflight(c, a) \/ \E scope \in SUBSET Tables : Consume(c, a, scope)
       \/ Recount(c) \/ Purge(c) \/ Restore(c)

Spec == Init /\ [][Next]_vars

-----------------------------------------------------------------------------
(* Properties                                                              *)

\* A purge deletes nothing that is not in the archive it was licensed by,
\* whatever is logged, acknowledged, purged or restored meanwhile.  Excused, as
\* a count cannot tell them: a log row whose insert was in flight when the backup
\* read, a row of ack that has replaced an archived one, and a log row that was
\* there when pages that do not add up were read.  A row logged after the backup
\* is never lost, torn or not.
NothingLost == \A l \in lost : l.excused

\* A restore goes into empty tables, so nothing is there twice, unless two
\* restores looked at the tables before either had written, or the archive itself
\* was put together from pages that overlap.
NothingTwice == ~amiss => \A r, s \in log : r.of = s.of => r = s

PurgeIsCovered == NothingLost /\ NothingTwice
=============================================================================
