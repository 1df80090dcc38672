------------------------------ MODULE RunMarker ------------------------------
(***************************************************************************)
(* The record a process leaves for its next boot, and the graceful         *)
(* shutdown that writes it:                                                *)
(*   Backend/src/utils/lifecycle/ServerRunMarker.js    the record          *)
(*   Backend/src/utils/lifecycle/StartupNotifier.js    the boot emails     *)
(*   Backend/server.js, gracefulShutdown and the crash handlers            *)
(*   Backend/src/utils/shutdown/TeardownSequence.js    the order of a stop *)
(* Stop requests, crashes, the emails of crashes, the failsafe and a kill  *)
(* of the process interleave with the steps of the teardown.               *)
(***************************************************************************)
EXTENDS Naturals, FiniteSets

CONSTANTS
  MaxRuns,      \* bound: boots
  MaxCrashes,   \* bound: crash handlers per run
  PendingMax    \* PENDING_UNCLEAN_MAX

VARIABLES
  up, run, rid, \* the process, the number of its run, the cluster run's id
  mem,          \* ServerRunMarker's fields
  disk,         \* data/server-run.json
  stale,        \* history: what failed last, "no", "write", or "unlink": a
                \* first write and the removal of the old record after it
  stop,         \* gracefulShutdown's variables
  mails,        \* EMERGENCY emails of crashes on their way
  crashes,
  boot,         \* the announcement of this boot
  saved,        \* history: this run's rows are flushed, its pools closed
  owed,         \* history: killed runs a boot must report, and has not
  exited        \* history: the exit code of the run that ended, 2 when killed

vars == <<up, run, rid, mem, disk, stale, stop, mails, crashes, boot, saved, owed, exited>>

None     == "-"
NoRecord == [state |-> "none"]
Torn     == [state |-> "unreadable"]
Readable == disk.state \in {"RUNNING", "STOPPING", "STOPPED"}
Max2(a, b) == IF a > b THEN a ELSE b

NoStop  == [on |-> FALSE, code |-> 0, crash |-> 0, phase |-> "serving",
            failsafe |-> "off", final |-> 0]
NoBoot  == [step |-> "done", unclean |-> {}, lost |-> {}]
FreshMem(unclean, lost) ==
  [state |-> "RUNNING", reason |-> None, unreported |-> FALSE, raised |-> 0,
   code |-> 0, unclean |-> unclean, lost |-> lost]

Init ==
  /\ up = FALSE /\ run = 0 /\ rid = 0 /\ mem = FreshMem({}, {})
  /\ disk = NoRecord /\ stale = "no" /\ stop = NoStop /\ mails = 0 /\ crashes = 0
  /\ boot = NoBoot /\ saved = FALSE /\ owed = {} /\ exited = 0

-----------------------------------------------------------------------------
(* ServerRunMarker: the record, and how each call changes it               *)

\* _record.
Record(m) ==
  [run |-> run, rid |-> rid, state |-> m.state, reason |-> None, code |-> 0,
   unreported |-> m.unreported, unclean |-> m.unclean, lost |-> m.lost]

\* _stoppedRecord, and the exit code it leaves in the marker.
StoppedCode(m, code) == [m EXCEPT !.code = Max2(code, m.raised)]
StoppedRecord(m) ==
  [Record(m) EXCEPT !.state = "STOPPED", !.code = m.code,
     !.reason = IF m.reason = None THEN "EXIT"
                ELSE IF m.code > 0 /\ m.reason = "SIGNAL" THEN "CRASH" ELSE m.reason]

Current(m) == IF m.state = "STOPPED" THEN StoppedRecord(m) ELSE Record(m)

\* _write: the file keeps what it held when the write fails.
Write(rec) == \/ disk' = rec /\ stale' = "no"
              \/ disk' = disk /\ stale' = (IF stale = "unlink" THEN stale ELSE "write")
NoWrite    == UNCHANGED <<disk, stale>>

\* noteStopping.
Stopping(m, code, unreported, reason) ==
  LET crashed == m.raised > 0
  IN  [m EXCEPT !.state = "STOPPING",
         !.reason = IF ~crashed /\ reason # None THEN reason
                    ELSE IF code = 0 /\ ~crashed THEN "SIGNAL" ELSE "CRASH",
         !.unreported = @ \/ (unreported /\ ~crashed)]

\* noteExitCodeRaised.
Raised(m, code, unreported, reason) ==
  LET clean == m.reason = "SIGNAL" /\ m.raised = 0
      r     == [m EXCEPT !.reason = IF clean /\ reason # None THEN reason ELSE @,
                         !.unreported = @ \/ (clean /\ unreported),
                         !.raised = Max2(@, code)]
  IN  IF m.state = "STOPPED" THEN StoppedCode(r, code) ELSE r

Forced(m) == [m EXCEPT !.reason = "FORCED_EXIT",
                       !.code = IF m.state = "STOPPED" THEN 1 ELSE m.code]

-----------------------------------------------------------------------------
(* Boot                                                                    *)

\* A list of runs, oldest first, is the set of their numbers; the newest are kept.
LastOf(runs) == {r \in runs : Cardinality({q \in runs : q > r}) < PendingMax}

Verdict(r) ==
  CASE disk.state = "none" -> "FIRST_BOOT"
    [] disk.state = "unreadable" -> "UNREADABLE"
    [] disk.state = "STOPPED" -> "CLEAN"
    [] Readable /\ disk.state # "STOPPED" ->
         IF disk.rid = r THEN "HANDOVER" ELSE "UNCLEAN"

\* readPrevious: the runs a boot owes an email for.
PendingUnclean(r) ==
  IF ~Readable THEN {}
  ELSE LastOf(disk.unclean \cup (IF Verdict(r) = "UNCLEAN" THEN {disk.run} ELSE {}))
PendingLost(r) ==
  IF ~Readable THEN {}
  ELSE LastOf(disk.lost \cup (IF Verdict(r) = "HANDOVER" /\ disk.state = "RUNNING"
                              THEN {disk.run} ELSE {}))

\* Deviation: nothing removes the record of the earlier run.
KeepOld(rec) == \/ disk' = rec /\ stale' = "no"
                \/ disk' = disk /\ stale' = "write"

\* start: without its own record the run is to leave none, but a removal that
\* fails is not noticed, and the record of an earlier run survives.
StartRecord(rec) == \/ disk' = rec /\ stale' = "no"
                    \/ disk' = NoRecord /\ stale' = "write"
                    \/ disk' = disk /\ stale' = "unlink"

\* The listen callback, in a new cluster run (or a lone process) or as the
\* leader respawned in the same one.
Boot(fresh) ==
  LET r == IF fresh THEN rid + 1 ELSE rid
      m == FreshMem(PendingUnclean(r), PendingLost(r))
      owes == /\ run > 0 /\ exited = 2 /\ Readable /\ disk.run = run /\ ~saved
              /\ fresh \/ mem.state = "RUNNING"
  IN  /\ ~up /\ run < MaxRuns
      /\ up' = TRUE /\ run' = run + 1 /\ rid' = r /\ mem' = m
      /\ StartRecord([run |-> run + 1, rid |-> r, state |-> "RUNNING", reason |-> None,
                      code |-> 0, unreported |-> FALSE, unclean |-> m.unclean, lost |-> m.lost])
      /\ stop' = NoStop /\ saved' = FALSE
      /\ boot' = [step |-> "due", unclean |-> m.unclean, lost |-> m.lost]
      /\ owed' = IF owes THEN owed \cup {run} ELSE owed
      /\ UNCHANGED <<mails, crashes, exited>>

\* announce: the emails that went out; a later boot repeats the others.
AnnounceSent ==
  /\ up /\ boot.step = "due"
  /\ \E u \in SUBSET boot.unclean, l \in SUBSET boot.lost :
       /\ boot' = [step |-> "sent", unclean |-> u, lost |-> l]
       /\ owed' = owed \ (u \cup l)
  /\ UNCHANGED <<up, run, rid, mem, disk, stale, stop, mails, crashes, saved, exited>>

\* clearPendingUnclean and clearPendingLeaderLost, with the start notice.
AnnounceRecorded ==
  LET m == [mem EXCEPT !.unclean = @ \ boot.unclean, !.lost = @ \ boot.lost]
  IN  /\ up /\ boot.step = "sent"
      /\ boot' = NoBoot /\ mem' = m
      /\ IF m = mem THEN NoWrite ELSE Write(Current(m))
      /\ UNCHANGED <<up, run, rid, stop, mails, crashes, saved, owed, exited>>

Heartbeat ==
  /\ up /\ mem.state = "RUNNING" /\ (stale # "no" \/ disk # Record(mem))
  /\ Write(Record(mem))
  /\ UNCHANGED <<up, run, rid, mem, stop, mails, crashes, boot, saved, owed, exited>>

-----------------------------------------------------------------------------
(* gracefulShutdown and the crash handlers                                 *)

\* gracefulShutdown with the marker at m; due: m is not written yet.
Shutdown(m, due, code, unreported, reason) ==
  IF ~stop.on
  THEN /\ stop' = [stop EXCEPT !.on = TRUE, !.code = code, !.phase = "requests", !.failsafe = "armed"]
       /\ mem' = Stopping(m, code, unreported, reason) /\ Write(Record(mem'))
  ELSE LET higher == code > stop.code
           n == IF higher THEN Raised(m, code, unreported, reason) ELSE m
       IN  /\ stop' = [stop EXCEPT !.code = Max2(@, code)]
           /\ mem' = n
           /\ IF due \/ (higher /\ (n.state = "STOPPED" \/ reason # None))
              THEN Write(Current(n)) ELSE NoWrite

Signal ==
  /\ up /\ Shutdown(mem, FALSE, 0, FALSE, None)
  /\ UNCHANGED <<up, run, rid, mails, crashes, boot, saved, owed, exited>>

PrimaryGone ==
  /\ up /\ Shutdown(mem, FALSE, 1, TRUE, "PRIMARY_DISCONNECT")
  /\ UNCHANGED <<up, run, rid, mails, crashes, boot, saved, owed, exited>>

\* uncaughtException, unhandledRejection: up to the awaited email.
Crash ==
  LET m == Raised(mem, 1, FALSE, None)
  IN  /\ up /\ crashes < MaxCrashes
      /\ crashes' = crashes + 1 /\ mails' = mails + 1
      /\ stop' = [stop EXCEPT !.crash = 1]
      /\ mem' = m
      /\ IF m.state = "STOPPED" THEN Write(StoppedRecord(m)) ELSE NoWrite
      /\ UNCHANGED <<up, run, rid, boot, saved, owed, exited>>

\* The email settled; one that was not sent is noted.
CrashMailSettles ==
  /\ up /\ mails > 0 /\ mails' = mails - 1
  /\ \E sent \in BOOLEAN :
       Shutdown([mem EXCEPT !.unreported = @ \/ ~sent], ~sent, 1, FALSE, None)
  /\ UNCHANGED <<up, run, rid, crashes, boot, saved, owed, exited>>

To(phase) == stop' = [stop EXCEPT !.phase = phase]

\* server.close calls back: every request ended or was cut.
HttpClosed ==
  /\ up /\ stop.phase = "requests" /\ To("data")
  /\ UNCHANGED <<up, run, rid, mem, disk, stale, mails, crashes, boot, saved, owed, exited>>

\* postCloseTeardown up to onDataTeardownComplete.
DataSaved ==
  LET m == StoppedCode([mem EXCEPT !.state = "STOPPED"], Max2(stop.code, stop.crash))
  IN  /\ up /\ stop.phase = "data" /\ To("mails")
      /\ saved' = TRUE /\ mem' = m /\ Write(StoppedRecord(m))
      /\ UNCHANGED <<up, run, rid, mails, crashes, boot, owed, exited>>

\* The shutdown and crash emails settled; the exit code is read.
MailsSettled ==
  /\ up /\ stop.phase = "mails" /\ mails = 0
  /\ stop' = [stop EXCEPT !.phase = "flush", !.final = Max2(stop.code, stop.crash)]
  /\ UNCHANGED <<up, run, rid, mem, disk, stale, mails, crashes, boot, saved, owed, exited>>

\* Deviation: the code that was read before the flush.
ExitFinal(late) == stop.final

\* process.exit at the end: the code is read again.
ExitCode(late) == Max2(stop.code, stop.crash)

\* Without a readable record nothing is left of what was owed.
Forget == owed' = IF disk'.state \in {"none", "unreadable"} THEN {} ELSE owed

\* The process is gone, with its memory; the properties ask how far it was.
Ends(code) ==
  /\ up' = FALSE /\ exited' = code
  /\ mem' = [FreshMem({}, {}) EXCEPT !.state = mem.state]
  /\ stop' = [NoStop EXCEPT !.crash = stop.crash]
  /\ mails' = 0 /\ crashes' = 0 /\ boot' = NoBoot

\* process.exit with the exit hook.
Exit(m, code) ==
  /\ Ends(code)
  /\ Write(StoppedRecord(StoppedCode(m, code))) /\ Forget
  /\ UNCHANGED <<run, rid, saved>>

\* logger.flush; a crash meanwhile adds a wait for its email.
Flushed ==
  /\ up /\ stop.phase = "flush"
  /\ \/ /\ ExitCode(FALSE) > stop.final /\ To("late")
        /\ UNCHANGED <<up, run, rid, mem, disk, stale, mails, crashes, boot, saved, owed, exited>>
     \/ ExitCode(FALSE) = stop.final /\ Exit(mem, ExitCode(FALSE))

LateExit == up /\ stop.phase = "late" /\ Exit(mem, ExitCode(TRUE))

\* armFailsafe's timer: the reason is noted, the exit waits for the emails.
FailsafeFires ==
  /\ up /\ stop.failsafe = "armed"
  /\ stop' = [stop EXCEPT !.failsafe = "fired"]
  /\ mem' = Forced(mem) /\ Write(Current(mem'))
  /\ UNCHANGED <<up, run, rid, mails, crashes, boot, saved, owed, exited>>

FailsafeExits ==
  /\ up /\ stop.failsafe = "fired"
  /\ \E sent \in BOOLEAN : Exit([mem EXCEPT !.unreported = @ \/ ~sent], 1)

\* The process is killed; a power cut may also leave an empty file.
Kill ==
  /\ up /\ Ends(2)
  /\ disk' \in {disk, Torn}
  /\ Forget
  /\ UNCHANGED <<run, rid, stale, saved>>

Next ==
  \/ \E fresh \in BOOLEAN : Boot(fresh)
  \/ AnnounceSent \/ AnnounceRecorded \/ Heartbeat
  \/ Signal \/ PrimaryGone \/ Crash \/ CrashMailSettles
  \/ HttpClosed \/ DataSaved \/ MailsSettled \/ Flushed \/ LateExit
  \/ FailsafeFires \/ FailsafeExits \/ Kill

Spec == Init /\ [][Next]_vars

-----------------------------------------------------------------------------
(* Properties                                                              *)

\* A record that says STOPPED with exit code 0 is this run's own, and its rows
\* were flushed and its pools closed before it was written; but for the record
\* that survived a start whose first write and whose removal both failed.  Once
\* a crash handler ran, a STOPPED record never reads as a clean stop, whichever
\* of the stop, the crash and the teardown came first; and a process that ends
\* by itself after a crash ends with 1.
RecordIsHonest ==
  /\ disk.state = "STOPPED" /\ disk.code = 0 =>
       stale = "unlink" \/ (disk.run = run /\ saved)
  /\ stop.crash = 1 =>
       /\ Readable /\ disk.state = "STOPPED" /\ stale = "no" =>
            disk.code = 1 /\ disk.reason # "SIGNAL"
       /\ ~up => exited # 0

\* The run of a record that survived, which every later boot finds again.
FoundAgain == {q \in {disk.run} : disk.state = "RUNNING" \/ (disk.state = "STOPPING" /\ disk.rid # rid)}

Pending == (IF Readable THEN disk.unclean \cup disk.lost \cup FoundAgain ELSE {})
           \cup (IF up THEN mem.unclean \cup mem.lost ELSE {})

\* A run that was killed before its data was saved is reported by an email, or
\* stays in the record until one is sent; only PendingMax newer runs push it out.
UncleanIsTold ==
  \A r \in owed :
    r \in Pending \/ run - 1 - r >= PendingMax

\* A run reads as it was, and one that did not end well is heard of.
RunsAreKnown == RecordIsHonest /\ UncleanIsTold
=============================================================================
