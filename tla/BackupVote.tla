----------------------------- MODULE BackupVote -----------------------------
(***************************************************************************)
(* The majority vote that deletes one backup archive:                      *)
(*   Backend/src/controllers/DataPurgeController.js  requestDeleteBackup,  *)
(*                                 voteDeleteBackup, cancelDeleteRequest   *)
(*   Backend/src/models/backup-vote.model.js         the votes' table      *)
(* A handler stops at each of its queries; the handlers of other admins,   *)
(* on any worker, run in between.                                          *)
(***************************************************************************)
EXTENDS Naturals, FiniteSets

CONSTANTS
  Admins,     \* the active SUPER_ADMINs
  MaxCalls    \* bound: requests, votes and cancellations

VARIABLES
  votes,      \* VOTED_BY of the archive's rows; UIX_SBDVD_ARCHIVE_VOTER
  handler,    \* per admin: where the call stands
  kept,       \* the archive is on disk
  refused,    \* deleteArchive answered 409, the archive has dependents
  voted,      \* history: who ever cast a vote
  clash,      \* history: a request cast its vote beside another's
  used        \* calls made

vars == <<votes, handler, kept, refused, voted, clash, used>>

\* floor(n / 2) + 1.
VotesNeeded == (Cardinality(Admins) \div 2) + 1

Init ==
  /\ votes = {} /\ handler = [a \in Admins |-> "idle"] /\ kept = TRUE /\ refused = FALSE
  /\ voted = {} /\ clash = FALSE /\ used = 0

Goes(a, to) == handler' = [handler EXCEPT ![a] = to]

\* A call, up to the answer of findVotesByArchive.
Call(a, first, found) ==
  /\ handler[a] = "idle" /\ used < MaxCalls /\ used' = used + 1
  /\ kept
  /\ Goes(a, IF found = (votes # {}) THEN first ELSE "idle")
  /\ UNCHANGED <<votes, kept, refused, voted, clash>>

RequestDelete(a) == Call(a, "request", FALSE)
VoteDelete(a)    == Call(a, "vote", TRUE)
CancelDelete(a)  == Call(a, "cancel", TRUE)

Cast(a) == votes' = votes \cup {a} /\ voted' = voted \cup {a}

\* requestDeleteBackup: castVote, whatever it answers, then the threshold.
RequestCast(a) ==
  /\ handler[a] = "request"
  /\ Cast(a)
  /\ clash' = (clash \/ votes # {})
  /\ Goes(a, IF 1 >= VotesNeeded THEN "delete" ELSE "idle")
  /\ UNCHANGED <<kept, refused, used>>

\* voteDeleteBackup: castVote, refused when the admin has voted.
VoteCast(a) ==
  /\ handler[a] = "vote"
  /\ Cast(a)
  /\ Goes(a, IF a \in votes THEN "idle" ELSE "count")
  /\ UNCHANGED <<kept, refused, clash, used>>

\* Deviation: the votes that were read before one's own are counted.
CountsBefore(a) == Cardinality(votes \ {a}) >= VotesNeeded

CountsEnough(a) == Cardinality(votes) >= VotesNeeded

\* countVotesForArchive against the threshold.
VoteCount(a) ==
  /\ handler[a] = "count"
  /\ Goes(a, IF CountsEnough(a) THEN "delete" ELSE "idle")
  /\ UNCHANGED <<votes, kept, refused, voted, clash, used>>

\* deleteArchive: done, 404 for the second of two, or 409 for dependents.
DeleteArchive(a) ==
  /\ handler[a] = "delete"
  /\ \/ kept /\ kept' = FALSE /\ Goes(a, "clear") /\ UNCHANGED refused
     \/ ~kept /\ Goes(a, "idle") /\ UNCHANGED <<kept, refused>>
     \/ kept /\ refused' = TRUE /\ Goes(a, "idle") /\ UNCHANGED kept
  /\ UNCHANGED <<votes, voted, clash, used>>

\* cancelRequest, after a delete or as the cancellation itself.
CancelRequest(a) ==
  /\ handler[a] \in {"clear", "cancel"}
  /\ votes' = {} /\ Goes(a, "idle")
  /\ UNCHANGED <<kept, refused, voted, clash, used>>

Next ==
  \E a \in Admins :
    \/ RequestDelete(a) \/ VoteDelete(a) \/ CancelDelete(a)
    \/ RequestCast(a) \/ VoteCast(a) \/ VoteCount(a) \/ DeleteArchive(a) \/ CancelRequest(a)

Spec == Init /\ [][Next]_vars

-----------------------------------------------------------------------------
(* Properties                                                              *)

Quiet == \A a \in Admins : handler[a] = "idle"

\* An archive that is gone had the votes of more than half of the admins, and
\* once no handler runs, votes of more than half have deleted it, in whatever
\* order they were cast and counted and whoever cancelled meanwhile.  (Exempt:
\* two requests at once, see MajorityIsExecuted.)
MajorityRules ==
  /\ ~kept => 2 * Cardinality(voted) > Cardinality(Admins)
  /\ Quiet /\ kept /\ ~refused /\ ~clash => 2 * Cardinality(votes) <= Cardinality(Admins)

\* A vote that meets the threshold deletes the archive.
MajorityIsExecuted ==
  Quiet /\ kept /\ ~refused => Cardinality(votes) < VotesNeeded
=============================================================================
