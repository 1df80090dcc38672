----------------------------- MODULE AlertWatch -----------------------------
(***************************************************************************)
(* One metric alert on the cron leader, and its acknowledgement:           *)
(*   Backend/src/services/AlertNotifierService.js, _runPollTick,           *)
(*   _checkAndUpdateAck, acknowledge, unacknowledge, _hydrateAcks          *)
(*   SERVER_ALERT_ACK, the table the acknowledgement is kept in            *)
(* An acknowledgement awaits the table while polls go on; a leader starts  *)
(* with no alert state and reads the table in the background.              *)
(***************************************************************************)
EXTENDS Naturals

CONSTANTS
  ConfirmPolls,   \* ALERT_RECOVERY_CONFIRM_POLLS
  MaxPolls, MaxAcks, MaxLeaders   \* bounds

VARIABLES
  level,       \* what the metrics say of the alert now
  status,      \* _alertStates: OK, WARNING, CRITICAL, or "unknown" to this leader
  clear,       \* clearPollCount
  ack,         \* _acks: severityAtAck, "lapsed", or "none"
  row,         \* SERVER_ALERT_ACK: the same
  removing,    \* a remove of the row is on its way
  acking,      \* acknowledge: the severity it read, or "none"
  hydrating,   \* _hydrateAcks: the row it read, or "none"
  polls, acks, leaders,
  told,        \* history: mailed since the alert entered this severity
  vouched      \* history: severities an operator acknowledged

vars == <<level, status, clear, ack, row, removing, acking, hydrating,
          polls, acks, leaders, told, vouched>>
bounds == <<polls, acks, leaders>>

Rank(s) == CASE s = "CRITICAL" -> 2 [] s = "WARNING" -> 1 [] s \notin {"CRITICAL", "WARNING"} -> 0

Init ==
  /\ level = "OK" /\ status = "unknown" /\ clear = 0 /\ ack = "none" /\ row = "none"
  /\ removing = FALSE /\ acking = "none" /\ hydrating = "none"
  /\ polls = 0 /\ acks = 0 /\ leaders = 1
  /\ told = FALSE /\ vouched = {}

\* The metrics change, between polls.
Metrics ==
  /\ level' \in {"OK", "WARNING", "CRITICAL"} \ {level}
  /\ UNCHANGED <<status, clear, ack, row, removing, acking, hydrating, bounds, told, vouched>>

\* Deviation: an acknowledgement outlives an escalation.
AckKeeps(now) == ack \in {"WARNING", "CRITICAL"}

\* _checkAndUpdateAck: not lapsed, and not for a lower severity.
AckHolds(now) == ack \in {"WARNING", "CRITICAL"} /\ Rank(now) <= Rank(ack)

\* _clearAck: the row is removed in the background.
ClearAck == ack' = "none" /\ removing' = (removing \/ ack # "none")

\* The alert is in the snapshot: mail on a transition or after the cooldown.
Firing(elapsed) ==
  LET prev     == IF status = "unknown" THEN "OK" ELSE status
      suppress == AckHolds(level)
      send     == \/ prev = "OK" /\ ~suppress
                  \/ prev = "WARNING" /\ level = "CRITICAL"
                  \/ prev = level /\ elapsed /\ ~suppress
  IN  /\ level # "OK"
      /\ status' = level /\ clear' = 0
      /\ IF suppress THEN UNCHANGED <<ack, removing>> ELSE ClearAck
      /\ told' = (send \/ (told /\ prev = level))
      /\ UNCHANGED vouched

\* It is not: recovery is confirmed over several polls, unless the rule could
\* not be evaluated (held).
Clearing(held) ==
  /\ level = "OK" /\ status \in {"WARNING", "CRITICAL"}
  /\ IF held THEN UNCHANGED <<status, clear, ack, removing>>
     ELSE IF clear + 1 >= ConfirmPolls
          THEN status' = "OK" /\ clear' = 0 /\ ClearAck
          ELSE clear' = clear + 1 /\ UNCHANGED <<status, ack, removing>>
  /\ UNCHANGED <<told, vouched>>

Poll ==
  /\ polls < MaxPolls /\ polls' = polls + 1
  /\ \E b \in BOOLEAN : Firing(b) \/ Clearing(b)
  /\ UNCHANGED <<level, row, acking, hydrating, acks, leaders>>

\* _acknowledgeLocal up to the await.
Acknowledge ==
  /\ acking = "none" /\ status \in {"WARNING", "CRITICAL"} /\ acks < MaxAcks
  /\ acks' = acks + 1 /\ acking' = status
  /\ vouched' = vouched \cup {status}
  /\ UNCHANGED <<level, status, clear, ack, row, removing, hydrating, polls, leaders, told>>

\* After it: the upsert was written, or it failed.
Acknowledged ==
  /\ acking # "none" /\ acking' = "none"
  /\ \/ row' = acking /\ ack' = acking
     \/ UNCHANGED <<row, ack>>
  /\ UNCHANGED <<level, status, clear, removing, hydrating, bounds, told, vouched>>

\* _unacknowledgeLocal: the remove, then the entry.
Unacknowledge ==
  /\ ack # "none" /\ ack' = "none" /\ row' = "none"
  /\ UNCHANGED <<level, status, clear, removing, acking, hydrating, bounds, told, vouched>>

\* The background remove lands, or fails with a warning.
Removed ==
  /\ removing /\ removing' = FALSE
  /\ row' \in {row, "none"}
  /\ UNCHANGED <<level, status, clear, ack, acking, hydrating, bounds, told, vouched>>

\* The leader's process ends and another one starts.
Restart ==
  /\ leaders < MaxLeaders /\ leaders' = leaders + 1
  /\ status' = "unknown" /\ clear' = 0 /\ ack' = "none" /\ removing' = FALSE
  /\ acking' = "none" /\ hydrating' = row
  /\ row' \in IF acking = "none" THEN {row} ELSE {row, acking}
  /\ UNCHANGED <<level, polls, acks, told, vouched>>

\* _hydrateAcks: the rows that were read become entries.
Hydrated ==
  /\ hydrating # "none" /\ hydrating' = "none"
  /\ ack' = IF hydrating = "lapsed" THEN ack ELSE hydrating
  /\ UNCHANGED <<level, status, clear, row, removing, acking, bounds, told, vouched>>

\* ALERT_ACK_TTL_HOURS pass: every acknowledgement so far lapses.
Lapsed(a) == IF a = "none" THEN a ELSE "lapsed"

TtlPasses ==
  /\ acking = "none"
  /\ {ack, row, hydrating} \cap {"WARNING", "CRITICAL"} # {}
  /\ ack' = Lapsed(ack) /\ row' = Lapsed(row) /\ hydrating' = Lapsed(hydrating)
  /\ UNCHANGED <<level, status, clear, removing, acking, bounds, told, vouched>>

Next == TtlPasses \/ Metrics \/ Poll \/ Acknowledge \/ Acknowledged \/ Unacknowledge \/ Removed
          \/ Restart \/ Hydrated

Spec == Init /\ [][Next]_vars

-----------------------------------------------------------------------------
(* Properties                                                              *)

\* An alert that is critical was mailed as critical, or an operator has
\* acknowledged it as critical: no order of polls, acknowledgements, lapses and
\* restarts lets an older acknowledgement hide an escalation.
EscalationIsMailed ==
  status = "CRITICAL" => told \/ "CRITICAL" \in vouched
=============================================================================
