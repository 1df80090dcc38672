----------------------------- MODULE AlertDigest -----------------------------
(***************************************************************************)
(* Critical log lines on their way into one email per window:              *)
(*   Backend/src/services/AlertNotifierService.js, _onCriticalLog,         *)
(*   _flushCriticalDigest, whenDelivered, flushForShutdown, drainAndStop   *)
(* A send is awaited while lines arrive, waiters time out, windows close   *)
(* and the shutdown runs its two phases.  A send that timed out may still  *)
(* have been delivered.                                                    *)
(***************************************************************************)
EXTENDS Naturals, FiniteSets, FiniteSetsExt

CONSTANTS
  MaxEvents,    \* bound: critical lines
  BufferMax,    \* CRITICAL_BUFFER_MAX
  MaxPerHour    \* _maxEmailsPerHour

VARIABLES
  events,      \* lines so far; a line is its number and its delivery token
  buffer,      \* _criticalBuffer
  overflow,    \* _criticalOverflowInWindow
  window,      \* _criticalWindowTimer is armed
  sentHour,    \* digests among _criticalSentTimestamps of the last hour
  suppressed,  \* _criticalSuppressedSinceLastSend
  rowSaved,    \* lines with the flag
  rows,        \* history: FIRED rows written per line
  sends,       \* digests under way
  waiting,     \* _deliveryWaiters
  told,        \* per line: what its waiter was told
  mailed,      \* history: lines in an email that left
  withheld,    \* history: lines in suppressed windows, or not itemised
  phase        \* running, flushing, flushed, skipped, stopped

vars == <<events, buffer, overflow, window, sentHour, suppressed, rowSaved, rows,
          sends, waiting, told, mailed, withheld, phase>>

Lines == 1..MaxEvents

Init ==
  /\ events = 0 /\ buffer = {} /\ overflow = 0 /\ window = FALSE /\ sentHour = 0
  /\ suppressed = 0 /\ rowSaved = {} /\ rows = [e \in Lines |-> 0] /\ sends = {}
  /\ waiting = {} /\ told = [e \in Lines |-> "nothing"] /\ mailed = {} /\ withheld = {}
  /\ phase = "running"

\* _settleDeliveries.
Settled(E, answer) ==
  /\ told' = [e \in Lines |-> IF e \in E \cap waiting THEN answer ELSE told[e]]
  /\ waiting' = waiting \ E

\* _onCriticalLog, and the whenDelivered of the caller.
CriticalLog(waits) ==
  LET e == events + 1
  IN  /\ events < MaxEvents /\ phase \notin {"skipped", "stopped"} /\ events' = e
      /\ IF Cardinality(buffer) < BufferMax
         THEN buffer' = buffer \cup {e} /\ UNCHANGED <<overflow, withheld>>
         ELSE overflow' = overflow + 1 /\ withheld' = withheld \cup {e} /\ UNCHANGED buffer
      /\ window' = (window \/ phase = "running")
      /\ waiting' = IF waits THEN waiting \cup {e} ELSE waiting
      /\ UNCHANGED <<sentHour, suppressed, rowSaved, rows, sends, told, mailed, phase>>

\* Deviation: the waiters of a suppressed window are left as if it was sent.
SettledSuppressed(E) == Settled(E, "emailed")

SettledWithheld(E) == Settled(E, "not emailed")

\* _flushCriticalDigest up to its await.
FlushDigest(persist) ==
  IF buffer = {} THEN UNCHANGED <<buffer, overflow, sentHour, suppressed, sends, withheld, waiting, told>>
  ELSE /\ buffer' = {} /\ overflow' = 0
       /\ IF sentHour >= MaxPerHour
          THEN /\ suppressed' = suppressed + Cardinality(buffer) + overflow
               /\ withheld' = withheld \cup buffer
               /\ SettledWithheld(buffer)
               /\ UNCHANGED <<sentHour, sends>>
          ELSE /\ sends' = sends \cup {[lines |-> buffer, persist |-> persist]}
               /\ suppressed' = 0 /\ sentHour' = sentHour + 1
               /\ UNCHANGED <<withheld, waiting, told>>

WindowCloses ==
  /\ window /\ window' = FALSE
  /\ FlushDigest(TRUE)
  /\ UNCHANGED <<events, rowSaved, rows, mailed, phase>>

HourPasses == sentHour > 0 /\ sentHour' = 0
  /\ UNCHANGED <<events, buffer, overflow, window, suppressed, rowSaved, rows, sends, waiting,
                 told, mailed, withheld, phase>>

\* Deviation: lines whose row the shutdown saved get another one.
UnsavedAll(E) == E

Unsaved(E) == E \ rowSaved

\* _dispatchCriticalDigest after the send.
DigestEnds(d) ==
  /\ d \in sends /\ sends' = sends \ {d}
  /\ \/ Settled(d.lines, "emailed") /\ mailed' = mailed \cup d.lines
     \/ Settled(d.lines, "not emailed") /\ mailed' \in {mailed, mailed \cup d.lines}
  /\ rows' = [e \in Lines |-> rows[e] + IF d.persist /\ e \in Unsaved(d.lines) THEN 1 ELSE 0]
  /\ UNCHANGED <<events, buffer, overflow, window, sentHour, suppressed, rowSaved, withheld, phase>>

WaiterTimesOut(e) ==
  /\ e \in waiting /\ Settled({e}, "not emailed")
  /\ UNCHANGED <<events, buffer, overflow, window, sentHour, suppressed, rowSaved, rows, sends,
                 mailed, withheld, phase>>

\* flushForShutdown: rows are saved now, the email follows in drainAndStop.
FlushForShutdown ==
  /\ phase = "running"
  /\ IF buffer = {}
     THEN phase' = "flushing" /\ UNCHANGED <<buffer, overflow, window, sentHour, suppressed,
                                    rowSaved, rows, sends, withheld, waiting, told>>
     ELSE /\ phase' = "flushed" /\ window' = FALSE
          /\ IF sentHour >= MaxPerHour
             THEN FlushDigest(TRUE) /\ UNCHANGED <<rowSaved, rows>>
             ELSE /\ rowSaved' = rowSaved \cup buffer
                  /\ rows' = [e \in Lines |-> rows[e] + IF e \in buffer \ rowSaved THEN 1 ELSE 0]
                  /\ UNCHANGED <<buffer, overflow, sentHour, suppressed, sends, withheld, waiting, told>>
  /\ UNCHANGED <<events, mailed>>

\* drainAndStop: nothing can be buffered from here on.  With no budget left
\* nothing is sent, and a later call may still send.
DrainAndStop(persist) ==
  /\ phase # "stopped" /\ window' = FALSE
  /\ \/ FlushDigest(persist) /\ phase' = "stopped"
     \/ /\ buffer # {} /\ phase' = "skipped"
        /\ Settled(waiting, "not emailed")
        /\ UNCHANGED <<buffer, overflow, sentHour, suppressed, sends, withheld>>
  /\ UNCHANGED <<events, rowSaved, rows, mailed>>

\* Its end, by the send or by the budget: whoever still waits is answered.
DrainEnds ==
  /\ phase = "stopped" /\ waiting # {} /\ Settled(waiting, "not emailed")
  /\ UNCHANGED <<events, buffer, overflow, window, sentHour, suppressed, rowSaved, rows, sends,
                 mailed, withheld, phase>>

Next ==
  \/ WindowCloses \/ HourPasses \/ FlushForShutdown \/ DrainEnds
  \/ \E b \in BOOLEAN : CriticalLog(b) \/ DrainAndStop(b)
  \/ \E d \in sends : DigestEnds(d)
  \/ \E e \in waiting : WaiterTimesOut(e)

Spec == Init /\ [][Next]_vars

-----------------------------------------------------------------------------
(* Properties                                                              *)

InFlight == UNION {d.lines : d \in sends}

\* Who is told that a line was emailed is told the truth, whatever came first
\* of the send, the timeout, the hourly ceiling and the stop.  No line gets two
\* rows, whichever of the two phases of a shutdown took it; and a line that
\* left the buffer is in a digest under way, was emailed, has its row, or was
\* withheld - except in the digest of a process that can no longer write rows.
AlertsAccounted ==
  /\ \A e \in Lines : told[e] = "emailed" => e \in mailed
  /\ \A e \in Lines : rows[e] <= 1
  /\ phase # "stopped" =>
       \A e \in 1..events : \/ e \in buffer \/ e \in InFlight \/ e \in withheld \/ rows[e] = 1
=============================================================================
