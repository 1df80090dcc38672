--------------------------- MODULE MCSharedState ----------------------------
(***************************************************************************)
(* State that several workers change, one part at a time: what they mirror *)
(* of the primary (PrimaryState); on disk, backups (BackupChain);          *)
(* in the database, votes (BackupVote), the privileged accounts            *)
(* (AdminGuard), purged and restored tables (DataPurge); backup runs under *)
(* their watchdog (BackupWatchdog); what the tabs of a browser show of the *)
(* health of the database (StatusBanner) and of its data (RequestCache).   *)
(* The parts have no variable in common; a behaviour is about the one that *)
(* focus names.                                                            *)
(***************************************************************************)
EXTENDS Naturals, FiniteSets

CONSTANTS
  Workers, Spares, Families, Lifetime, Threshold, Slack, MaxDelay, MaxEntries,
  MaxReports, MaxClock, \* PrimaryState: its keys are those of any topic
  EndedKeys, MaxEnds,   \* keys of revocations only, the revocations reported
  Voters, VoteCalls,  \* BackupVote: the admins who vote, the calls
  Accounts, AdminCalls, Roles, Ops, MaxTokens,  \* AdminGuard, as named there
  PurgeKeys, PageSize, PurgeCalls, MaxPk, MaxVersion, MaxBackups,  \* DataPurge, as named there
  Tabs, MaxFlips, MaxStops, MaxCuts,  \* StatusBanner
  Views, PageKeys, ReadOnly, NoKey, MaxOpen, MaxWrites,  \* RequestCache; the keys not written
  Stores, Makers, BackupTables, Kinds, FullEvery, MaxRuns, MaxSeconds, MaxChanges, MaxFaults,
  MaxDeletes, \* BackupChain: its processes, those that only run backups
  Backups, Brief, Limits, GuardLimit, Cap, StaleAfter, StallFactor,
  MaxStalls   \* BackupWatchdog: its calls, those with a shorter limit

\* No worker has the id 0.  A message is under way for less time than the validators
\* tolerate in a late entry.
ASSUME MirrorsAssumption ==
  /\ Workers \subseteq Nat \ {0} /\ IsFiniteSet(Families) /\ Families # {}
  /\ Lifetime \in Nat /\ MaxEntries \in Nat \ {0}
  /\ Slack \in Nat /\ MaxDelay \in Nat /\ MaxDelay <= Slack

\* The table of users is finite.
ASSUME VotersAssumption == IsFiniteSet(Voters)

\* The operations of AdminManagementService and AuthService that are modelled.
ASSUME OpsAssumption == Ops \subseteq
  {"role", "flags", "delete", "revoke", "reset", "change", "upgrade", "sign", "add"}

\* staleMs is the limit of the guard and a minute, which is longer than a stall of
\* the event loop and the two sweeps between a cut and what follows it.
ASSUME WatchdogAssumption ==
  /\ Backups \cap {"none", "other"} = {}
  /\ Limits \subseteq Nat /\ GuardLimit \in Nat /\ StallFactor \in Nat
  /\ StaleAfter \in Nat /\ StaleAfter >= GuardLimit + StallFactor + 2

\* Manual runs are left out, two of one second have one name.
ASSUME KindsAssumption == Kinds \subseteq {"SCHEDULED", "PURGE"} /\ MaxRuns \in Nat

\* Keys of acknowledgements have an order; a page has a row.
ASSUME PurgeAssumption == PurgeKeys \in SUBSET Nat /\ IsFiniteSet(PurgeKeys) /\ PageSize \in Nat \ {0}

\* The bound on the requests in flight at once.
ASSUME PagesAssumption == MaxOpen \in Nat

VARIABLES
  focus,
  topic, psNow, status, leader, mirror, primary, strikes, outbox, inbox,
  synced, strayed, reports,
  sec, data, disk, broken, run, lease, reading, cache, unlinking, deletes,
  faults, hurt, blind,
  votes, handler, kept, refused, voted, clash, used,
  account, adminCall, tokens, ids, passwords, dead, raced,
  log, flight, pk, ack, version, archiving, archives, purgeCall, lost, amiss,
  reqScope, guardScope, callPhase, said, work, queue, holder, cutLease, fresh,
  published, stalls, quiet, late, wrong,
  db, worker, eval, hub, clients, check, stream, frames, tab, probe, told,
  bounds, answered,
  dataAt, owed, fetch, inFlight, pageCache, screen, floor

state    == <<topic, psNow, status, leader, mirror, primary, strikes, outbox,
              inbox, synced, strayed, reports>>
chain    == <<sec, data, disk, broken, run, lease, reading, cache, unlinking,
              deletes, faults, hurt, blind>>
vote     == <<votes, handler, kept, refused, voted, clash, used>>
admin    == <<account, adminCall, tokens, ids, passwords, dead, raced>>
purge    == <<log, flight, pk, ack, version, archiving, archives, purgeCall,
              lost, amiss>>
cut      == <<reqScope, guardScope, callPhase, said, work, queue, holder,
              cutLease, fresh, published, stalls, quiet, late, wrong>>
banner   == <<db, worker, eval, hub, clients, check, stream, frames, tab,
              probe, told, bounds, answered>>
request  == <<dataAt, owed, fetch, inFlight, pageCache, screen, floor>>
vars     == <<focus, state, chain, vote, admin, purge, cut, banner, request>>

State == INSTANCE PrimaryState WITH
  Keys <- Families, MaxTime <- MaxClock, now <- psNow

Chain == INSTANCE BackupChain WITH
  Procs <- Stores, Tables <- BackupTables, Triggers <- Kinds, MaxTime <- MaxSeconds

Vote == INSTANCE BackupVote WITH
  Admins <- Voters, MaxCalls <- VoteCalls

Guarded == INSTANCE AdminGuard WITH
  Admins <- Accounts, Calls <- AdminCalls, row <- account, call <- adminCall, words <- passwords

Purge == INSTANCE DataPurge WITH
  Keys <- PurgeKeys, Calls <- PurgeCalls, reading <- archiving, call <- purgeCall

Watchdog == INSTANCE BackupWatchdog WITH
  Calls <- Backups,
  req <- reqScope, guard <- guardScope, phase <- callPhase, lease <- cutLease, disk <- published

Banner == INSTANCE StatusBanner

Request == INSTANCE RequestCache WITH
  Keys <- PageKeys, MaxVersion <- MaxWrites,
  server <- dataAt, view <- screen, cache <- pageCache

\* The calls of a part are interchangeable, and so are its processes: calls start in
\* the order of their numbers, and process 2 has the index whose archive is deleted;
\* some keys of the pages are written, the others are what they turn to.
InOrder(call, idle) == \A c \in DOMAIN call \ {1} : call[c] # idle => call[c - 1] # idle

\* The topics other than revocations are about the keys outside EndedKeys.
InTopic == IF topic = "auth" THEN reports' <= MaxEnds
           ELSE \A w \in Workers : \A i \in DOMAIN outbox'[w] : outbox'[w][i].key \notin EndedKeys

\* A part that is not in focus stays in one initial state.
Init ==
  /\ focus \in {"state", "chain", "vote", "admin", "purge", "cut", "banner", "request"}
  /\ State!Init /\ Chain!Init /\ Vote!Init /\ Guarded!Init /\ Purge!Init /\ Watchdog!Init /\ Banner!Init /\ Request!Init
  /\ focus # "state" => topic = "auth"
  /\ focus # "admin" => \A a \in DOMAIN account : account[a].id = 1 /\ account[a].role = "SUPER_ADMIN"
  /\ \A c \in Brief, d \in Backups \ Brief : reqScope[c].limit < reqScope[d].limit
  /\ \A c \in Backups : ~reqScope[c].on => c \in Brief /\ focus = "cut"

Next ==
  \/ focus = "state" /\ State!Next /\ InTopic /\ UNCHANGED <<focus, chain, vote, admin, purge, cut, banner, request>>
  \/ focus = "chain" /\ Chain!Next /\ (\A p \in Makers : reading'[p] = {} /\ unlinking'[p] = {}) /\ UNCHANGED <<focus, state, vote, admin, purge, cut, banner, request>>
  \/ focus = "vote" /\ Vote!Next /\ UNCHANGED <<focus, state, chain, admin, purge, cut, banner, request>>
  \/ focus = "admin" /\ Guarded!Next /\ InOrder(adminCall', Guarded!Idle) /\ UNCHANGED <<focus, state, chain, vote, purge, cut, banner, request>>
  \/ focus = "purge" /\ Purge!Next /\ InOrder(purgeCall', Purge!Idle) /\ UNCHANGED <<focus, state, chain, vote, admin, cut, banner, request>>
  \/ focus = "cut" /\ Watchdog!Next /\ UNCHANGED <<focus, state, chain, vote, admin, purge, banner, request>>
  \/ focus = "banner" /\ Banner!Next /\ UNCHANGED <<focus, state, chain, vote, admin, purge, cut, request>>
  \/ focus = "request" /\ Request!Next /\ (\A k \in ReadOnly : dataAt'[k] = 1) /\ UNCHANGED <<focus, state, chain, vote, admin, purge, cut, banner>>

Spec == Init /\ [][Next]_vars

\* Every worker that listens agrees with the primary's revocations, blocks and
\* schedule once it has read its channel (PrimaryState).
MirrorsAgree == focus = "state" => State!MirrorsAgree

\* No run builds on a broken chain or beside another run (BackupChain).
ChainIsWhole == focus = "chain" => Chain!ChainIsWhole

\* A majority, and nothing less, deletes an archive (BackupVote).
MajorityRules == focus = "vote" => Vote!MajorityRules

\* An active SUPER_ADMIN is left, and a removal has its own backup (AdminGuard).
AdminsGuarded == focus = "admin" => Guarded!AdminsGuarded

\* A purge deletes what its archive holds, and a restore adds nothing twice
\* (DataPurge).
PurgeIsCovered == focus = "purge" => Purge!PurgeIsCovered

\* A watchdog cuts what is quiet, and its cut is the end (BackupWatchdog).
CutsAreSound == focus = "cut" => Watchdog!CutsAreSound

\* What the database is reaches every tab that has a stream (StatusBanner); a page
\* at rest shows the data of its own key, read since its last change (RequestCache).
ScreensAreRight ==
  /\ focus = "banner" => Banner!BannerIsRight
  /\ focus = "request" => Request!ScreenIsRight
=============================================================================
