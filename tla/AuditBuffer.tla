----------------------------- MODULE AuditBuffer -----------------------------
(***************************************************************************)
(* The buffer between the requests and the audit table:                    *)
(*   Backend/src/services/AuditLogService.js, insertAsync, flushPending    *)
(* A batch insert is awaited; requests add rows, the interval timer fires  *)
(* and the shutdown's two flushes run meanwhile.  The table may commit a   *)
(* batch and still report an error.                                        *)
(***************************************************************************)
EXTENDS Naturals, FiniteSets, SequencesExt

CONSTANTS
  MaxRows,      \* bound: rows of requests
  FlushMax,     \* FLUSH_MAX
  PendingMax,   \* PENDING_MAX
  MaxFailures   \* bound: failed inserts

VARIABLES
  rows,       \* rows added so far; a row is its number
  pending,    \* _pending
  timer,      \* _flushTimer: none, armed, or fired and never cleared
  flushing,   \* _flushing: none, normal or final
  flushes,    \* running _flushOnce calls, with the batch each holds
  backoff,    \* Date.now() < _retryNotBefore
  stop,       \* the shutdown's flushes
  table,      \* history: rows of the audit table
  dropped,    \* history: rows given up with a warning
  failures

vars == <<rows, pending, timer, flushing, flushes, backoff, stop, table, dropped, failures>>

Init ==
  /\ rows = 0 /\ pending = <<>> /\ timer = "none" /\ flushing = "none" /\ flushes = {}
  /\ backoff = FALSE /\ stop = "up" /\ table = {} /\ dropped = {} /\ failures = 0

\* _armFlushTimer: an old timer keeps its slot, fired or not.
Armed(t) == IF t = "none" THEN "armed" ELSE t

\* _flushOnce up to its await, for the rows in q.
Start(q, kind) ==
  /\ timer' = "none"
  /\ IF q = <<>>
     THEN flushing' = "none" /\ UNCHANGED <<pending, flushes>>
     ELSE /\ pending' = <<>>
          /\ flushing' = kind
          /\ flushes' = flushes \cup {[kind |-> kind, batch |-> q]}

\* flushPending, not final: a running flush is the answer.
Flush(q, t) ==
  IF flushing = "none" THEN Start(q, "normal")
  ELSE pending' = q /\ timer' = t /\ UNCHANGED <<flushing, flushes>>

\* insertAsync.
Insert ==
  LET q == Append(pending, rows + 1)
  IN  /\ stop # "gone" /\ rows < MaxRows /\ rows' = rows + 1
      /\ IF Len(q) >= FlushMax /\ flushing = "none" /\ ~backoff
         THEN Start(q, "normal")
         ELSE pending' = q /\ timer' = Armed(timer) /\ UNCHANGED <<flushing, flushes>>
      /\ UNCHANGED <<backoff, stop, table, dropped, failures>>

TimerFires ==
  /\ stop # "gone" /\ timer = "armed"
  /\ Flush(pending, "fired")
  /\ UNCHANGED <<rows, backoff, stop, table, dropped, failures>>

BackoffEnds ==
  /\ stop # "gone" /\ backoff /\ backoff' = FALSE
  /\ UNCHANGED <<rows, pending, timer, flushing, flushes, stop, table, dropped, failures>>

\* The end of a flush: its own promise clears _flushing, whosever it is.
Ends(f) == flushes' = flushes \ {f} /\ flushing' = "none"

\* The insert was acknowledged.
Saved(f) ==
  /\ stop # "gone" /\ f \in flushes
  /\ Ends(f)
  /\ table' = table \cup ToSet(f.batch)
  /\ backoff' = FALSE
  /\ timer' = IF f.kind = "normal" /\ pending # <<>> THEN Armed(timer) ELSE timer
  /\ stop' = IF f.kind = "final" THEN "gone" ELSE stop
  /\ UNCHANGED <<rows, pending, dropped, failures>>

\* Deviation: a failed batch goes behind the rows that arrived meanwhile.
RequeuedLast(batch) == pending \o batch

Requeued(batch) == batch \o pending

\* The insert was reported failed: to the front of the queue, oldest cut off.
Failed(f) ==
  LET merged == Requeued(f.batch)
      over   == IF Len(merged) > PendingMax THEN Len(merged) - PendingMax ELSE 0
  IN  /\ stop # "gone" /\ f \in flushes /\ f.kind = "normal" /\ failures < MaxFailures
      /\ failures' = failures + 1
      /\ Ends(f)
      /\ pending' = SubSeq(merged, over + 1, Len(merged))
      /\ dropped' = dropped \cup ToSet(SubSeq(merged, 1, over))
      /\ backoff' = TRUE
      /\ timer' = IF pending' # <<>> THEN Armed(timer) ELSE timer
      /\ table' \in {table, table \cup ToSet(f.batch)}
      /\ UNCHANGED <<rows, stop>>

\* The final flush failed or timed out: one warning, no requeue.
FinalFailed(f) ==
  /\ stop # "gone" /\ f \in flushes /\ f.kind = "final"
  /\ Ends(f)
  /\ dropped' = dropped \cup ToSet(f.batch)
  /\ table' \in {table, table \cup ToSet(f.batch)}
  /\ stop' = "gone"
  /\ UNCHANGED <<rows, pending, timer, backoff, failures>>

\* gracefulShutdown's early flush.
EarlyFlush ==
  /\ stop = "up" /\ stop' = "stopping"
  /\ Flush(pending, timer)
  /\ UNCHANGED <<rows, backoff, table, dropped, failures>>

\* flushPending({ final }): a running flush is awaited, or its cap passes.
FinalFlush ==
  /\ stop = "stopping"
  /\ Start(pending, "final")
  /\ stop' = IF pending = <<>> THEN "gone" ELSE "final"
  /\ UNCHANGED <<rows, backoff, table, dropped, failures>>

Next ==
  \/ Insert \/ TimerFires \/ BackoffEnds \/ EarlyFlush \/ FinalFlush
  \/ \E f \in flushes : Saved(f) \/ Failed(f) \/ FinalFailed(f)

Spec == Init /\ [][Next]_vars

-----------------------------------------------------------------------------
(* Properties                                                              *)

Batches == UNION {ToSet(f.batch) : f \in flushes}

\* Every row of a request is in the queue, in a running batch or in the table,
\* unless a warning said it was dropped; the queue keeps the order of arrival,
\* and while the server is up no two flushes run.
NoRowLost ==
  /\ \A r \in 1..rows : r \in ToSet(pending) \cup Batches \cup table \cup dropped
  /\ \A i, j \in DOMAIN pending : i < j => pending[i] < pending[j]
  /\ stop = "up" => Cardinality(flushes) <= 1

\* A buffered row never waits longer than the interval: a flush is running or a
\* timer will start one.
BufferedIsScheduled == stop = "up" /\ pending # <<>> => timer = "armed" \/ flushing # "none"
=============================================================================
