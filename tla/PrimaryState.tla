---------------------------- MODULE PrimaryState ----------------------------
(***************************************************************************)
(* State the primary keeps for the cluster and every worker mirrors:       *)
(*   "auth"   ended session families   AccessRevocationService,            *)
(*                                     RevokedSessionSet                   *)
(*   "sf"     blocked addresses        SecurityFilterMiddleware,           *)
(*                                     SuspiciousIpTracker                 *)
(*   "sched"  last run of each job     SchedulerStateService               *)
(* A worker reports to the primary, the primary changes its copy           *)
(* (utils/cluster/PrimaryStateServices.js) and broadcasts it; a worker     *)
(* that starts is sent a snapshot when it listens.  The three topics share *)
(* the channels' rules and no state: a behaviour is about one of them.     *)
(* Channels are FIFO.  A value is the time an entry runs to ("auth", "sf") *)
(* or the time of the outcome ("sched"); 0 is no entry.                    *)
(***************************************************************************)
EXTENDS Naturals, Sequences, FiniteSets

CONSTANTS
  Workers,      \* ids the supervisor forks; the smallest leads first
  Spares,       \* those that replace workers that exit
  Keys,         \* families, addresses or jobs
  Lifetime,     \* how long an entry is needed (retention, block duration)
  Threshold,    \* strikes that block an address
  Slack,        \* how late the validators accept an entry (1000 ms)
  MaxDelay,     \* bound: ticks a message spends in a channel
  MaxEntries,   \* families a RevokedSessionSet holds
  MaxReports, MaxTime  \* bounds: reports made, time

VARIABLES
  topic, now,
  status,       \* per worker: "unborn", "booting", "listening", "gone"
  leader,       \* the cron leader, 0 for none
  mirror,       \* per worker: its entries
  primary,      \* the primary's entries
  strikes,      \* the primary's strike counters
  outbox,       \* per worker: messages to the primary
  inbox,        \* per worker: messages from the primary
  synced,       \* workers whose `listening` the primary handled
  strayed,      \* per worker: keys it gave up on its own, an address that it unblocked
                \* without an answer, a family for which its set had no room
  reports

vars == <<topic, now, status, leader, mirror, primary, strikes, outbox, inbox,
          synced, strayed, reports>>

None    == [k \in Keys |-> 0]
Alive   == {w \in Workers : status[w] \in {"booting", "listening"}}

Init ==
  /\ topic \in {"auth", "sf", "sched"} /\ now = 1
  /\ status = [w \in Workers |-> IF w \in Spares THEN "unborn" ELSE "listening"]
  /\ leader = CHOOSE w \in Workers \ Spares : \A v \in Workers \ Spares : w <= v
  /\ mirror = [w \in Workers |-> None] /\ primary = None /\ strikes = None
  /\ outbox = [w \in Workers |-> <<>>] /\ inbox = [w \in Workers |-> <<>>]
  /\ synced = Workers \ Spares
  /\ strayed = [w \in Workers |-> {}]
  /\ reports = 0

-----------------------------------------------------------------------------
(* The entries                                                             *)

Larger(a, b) == IF a > b THEN a ELSE b

\* What a worker knows of the primary's entries.
Copy(w) == [held |-> mirror[w], strayed |-> strayed[w]]

Taken(c, k, v) == [held |-> [c.held EXCEPT ![k] = v], strayed |-> c.strayed \ {k}]

\* #makeRoom of a full set: entries that ran out go first, else the entry that
\* runs out first.
Evicted(E) ==
  LET here == {k \in Keys : E[k] > 0}
      dead == {k \in here : E[k] <= now}
  IN  IF Cardinality(here) < MaxEntries THEN {}
      ELSE IF dead # {} THEN dead
      ELSE {CHOOSE k \in here : \A j \in here : E[k] <= E[j]}

\* RevokedSessionSet.revoke: a known family keeps the later time; a family that is
\* dropped before its time is warned of.
Revoked(c, k, v) ==
  LET out == IF c.held[k] > 0 THEN {} ELSE Evicted(c.held)
      E   == [j \in Keys |-> IF j \in out THEN 0 ELSE c.held[j]]
  IN  [held    |-> [E EXCEPT ![k] = Larger(@, v)],
       strayed |-> c.strayed \cup {j \in Keys : j \in out /\ c.held[j] > now}]

\* Deviation: a snapshot replaces what the worker knows.
AppliedBlindly(c, kind, k, v) ==
  IF topic = "auth" THEN Revoked(c, k, v) ELSE Taken(c, k, v)

\* What a worker does with one entry of a message of the given kind.
Applied(c, kind, k, v) ==
  CASE topic = "auth"  -> Revoked(c, k, v)
    [] topic = "sf"    -> Taken(c, k, v)
    [] topic = "sched" -> IF kind = "sync" /\ c.held[k] > v THEN c
                          ELSE Taken(c, k, v)

\* validateTopic: one entry that ran out refuses the whole message.
Valid(m) ==
  topic = "sched" \/ m.kind = "clear"
    \/ \A k \in Keys : m.entries[k] = 0 \/ m.entries[k] + Slack >= now

Named(m) == {k \in Keys : m.entries[k] > 0 \/ (m.kind = "clear" /\ k = m.key)}

\* RevokedSessionSet.snapshot: what runs longest comes first.
LongestFirst(m) ==
  CHOOSE s \in [1..Cardinality(Named(m)) -> Named(m)] :
    /\ \A k \in Named(m) : \E i \in DOMAIN s : s[i] = k
    /\ \A i, j \in DOMAIN s : i < j => m.entries[s[i]] >= m.entries[s[j]]

Received(c, m) ==
  LET after[i \in 0..Cardinality(Named(m))] ==
        IF i = 0 THEN c
        ELSE Applied(after[i - 1], m.kind, LongestFirst(m)[i], m.entries[LongestFirst(m)[i]])
  IN  IF Valid(m) THEN after[Cardinality(Named(m))] ELSE c

Message(kind, E, k) == [kind |-> kind, entries |-> E, key |-> k, sent |-> now]

Only(k, v) == [None EXCEPT ![k] = v]

-----------------------------------------------------------------------------
(* Workers                                                                 *)

Knows(w, c) ==
  /\ mirror' = [mirror EXCEPT ![w] = c.held]
  /\ strayed' = [strayed EXCEPT ![w] = c.strayed]

Sends(w, m) == outbox' = [outbox EXCEPT ![w] = Append(@, m)]

Reports(w) ==
  /\ status[w] = "listening" /\ reports < MaxReports
  /\ reports' = reports + 1

\* AccessRevocationService.revoke: here at once, then everywhere.
Revoke(w, k) ==
  /\ topic = "auth" /\ Reports(w)
  /\ Knows(w, Revoked(Copy(w), k, now + Lifetime))
  /\ Sends(w, Message("revoke", Only(k, now + Lifetime), k))
  /\ UNCHANGED <<topic, now, status, leader, primary, strikes, inbox, synced>>

\* isRevoked: an entry that ran out is forgotten when it is asked for.
IsRevoked(w, k) ==
  /\ topic = "auth" /\ status[w] = "listening" /\ mirror[w][k] \in 1..now
  /\ mirror' = [mirror EXCEPT ![w][k] = 0]
  /\ UNCHANGED <<topic, now, status, leader, primary, strikes, outbox, inbox, synced,
                 strayed, reports>>

\* SchedulerStateService.record, on the leader.
Record(w, k) ==
  /\ topic = "sched" /\ w = leader /\ Reports(w)
  /\ mirror' = [mirror EXCEPT ![w][k] = now]
  /\ Sends(w, Message("record", Only(k, now), k))
  /\ UNCHANGED <<topic, now, status, leader, primary, strikes, inbox, synced, strayed>>

\* _trackSuspiciousIP: only the primary counts; a blocked address gets no
\* further than the block.
Strike(w, k) ==
  /\ topic = "sf" /\ mirror[w][k] <= now /\ Reports(w)
  /\ Sends(w, Message("strike", None, k))
  /\ UNCHANGED <<topic, now, status, leader, mirror, primary, strikes, inbox, synced,
                 strayed>>

\* unblockClusterWide: asks the primary.  Its own unblock after the answer
\* repeats the broadcast that came just before.
Unblock(w, k) ==
  /\ topic = "sf" /\ Reports(w)
  /\ Sends(w, Message("unblock", None, k))
  /\ UNCHANGED <<topic, now, status, leader, mirror, primary, strikes, inbox, synced,
                 strayed>>

\* unblockClusterWide without an answer in time: this worker only.
UnblockDegraded(w, k) ==
  /\ topic = "sf" /\ mirror[w][k] > 0 /\ Reports(w)
  /\ mirror' = [mirror EXCEPT ![w][k] = 0]
  /\ strayed' = [strayed EXCEPT ![w] = @ \cup {k}]
  /\ UNCHANGED <<topic, now, status, leader, primary, strikes, outbox, inbox, synced>>

\* #onBroadcast.
Receive(w) ==
  /\ w \in Alive /\ inbox[w] # <<>>
  /\ Knows(w, Received(Copy(w), Head(inbox[w])))
  /\ inbox' = [inbox EXCEPT ![w] = Tail(@)]
  /\ UNCHANGED <<topic, now, status, leader, primary, strikes, outbox, synced, reports>>

\* The server of a starting worker listens.
Listen(w) ==
  /\ status[w] = "booting"
  /\ status' = [status EXCEPT ![w] = "listening"]
  /\ Sends(w, Message("listening", None, CHOOSE k \in Keys : TRUE))
  /\ UNCHANGED <<topic, now, leader, mirror, primary, strikes, inbox, synced, strayed, reports>>

\* What the worker sent may still arrive.
Exit(w) ==
  /\ w \in Alive
  /\ status' = [status EXCEPT ![w] = "gone"]
  /\ leader' = IF leader = w THEN 0 ELSE leader
  /\ inbox' = [inbox EXCEPT ![w] = <<>>]
  /\ \E n \in 0..Len(outbox[w]) : outbox' = [outbox EXCEPT ![w] = SubSeq(@, 1, n)]
  /\ synced' = synced \ {w}
  /\ UNCHANGED <<topic, now, mirror, primary, strikes, strayed, reports>>

\* A worker is replaced after a delay (BACKOFF_BASE_MS), when everything the
\* old one sent was handled.
Fork(w) ==
  /\ status[w] = "unborn" /\ Cardinality(Alive) < Cardinality(Workers \ Spares)
  /\ \A v \in Workers : status[v] = "gone" => outbox[v] = <<>>
  /\ status' = [status EXCEPT ![w] = "booting"]
  /\ leader' = IF leader = 0 THEN w ELSE leader
  /\ UNCHANGED <<topic, now, mirror, primary, strikes, outbox, inbox, synced, strayed, reports>>

-----------------------------------------------------------------------------
(* The primary                                                             *)

\* hub.broadcast: every forked worker, also one that is still booting.
Broadcast(m, except) ==
  inbox' = [w \in Workers |-> IF w \in Alive /\ w # except
                              THEN Append(inbox[w], m) ELSE inbox[w]]

\* SuspiciousIpTracker.strike: a block that runs is not extended, one that
\* lapsed resets the counter.
OnStrike(k) ==
  LET count == (IF primary[k] > 0 THEN 0 ELSE strikes[k]) + 1
  IN  \/ /\ primary[k] > now
         /\ UNCHANGED <<primary, strikes, inbox>>
      \/ /\ primary[k] <= now /\ count < Threshold
         /\ strikes' = [strikes EXCEPT ![k] = count]
         /\ primary' = [primary EXCEPT ![k] = 0]
         /\ UNCHANGED inbox
      \/ /\ primary[k] <= now /\ count >= Threshold
         /\ strikes' = [strikes EXCEPT ![k] = count]
         /\ primary' = [primary EXCEPT ![k] = now + Lifetime]
         /\ Broadcast(Message("block", Only(k, now + Lifetime), k), 0)

\* The handler of each message, and the hooks that answer `listening`.
Handle(w, m) ==
  \/ /\ m.kind = "revoke" /\ Valid(m)
     /\ primary' = Revoked([held |-> primary, strayed |-> {}], m.key, m.entries[m.key]).held
     /\ Broadcast([m EXCEPT !.sent = now], w)
     /\ UNCHANGED <<strikes, synced>>
  \/ /\ m.kind = "record"
     /\ primary' = [primary EXCEPT ![m.key] = m.entries[m.key]]
     /\ Broadcast([m EXCEPT !.sent = now], w)
     /\ UNCHANGED <<strikes, synced>>
  \/ m.kind = "strike" /\ OnStrike(m.key) /\ UNCHANGED <<synced>>
  \/ /\ m.kind = "unblock"
     /\ primary' = [primary EXCEPT ![m.key] = 0]
     /\ strikes' = [strikes EXCEPT ![m.key] = 0]
     /\ Broadcast(Message("clear", None, m.key), 0)
     /\ UNCHANGED <<synced>>
  \/ /\ m.kind = "listening"
     /\ synced' = synced \cup ({w} \cap Alive)
     /\ LET E == [k \in Keys |-> IF topic = "sched" \/ primary[k] > now
                                 THEN primary[k] ELSE 0]
        IN  inbox' = IF E = None \/ w \notin Alive THEN inbox
                     ELSE [inbox EXCEPT ![w] = Append(@, Message("sync", E, m.key))]
     /\ UNCHANGED <<primary, strikes>>

PrimaryReceive(w) ==
  /\ outbox[w] # <<>>
  /\ outbox' = [outbox EXCEPT ![w] = Tail(@)]
  /\ Handle(w, Head(outbox[w]))
  /\ UNCHANGED <<topic, now, status, leader, mirror, strayed, reports>>

\* No message stays in a channel longer than MaxDelay.
Tick ==
  /\ now < MaxTime
  /\ \A w \in Workers : \A i \in 1..Len(inbox[w]) : now < inbox[w][i].sent + MaxDelay
  /\ \A w \in Workers : \A i \in 1..Len(outbox[w]) : now < outbox[w][i].sent + MaxDelay
  /\ now' = now + 1
  /\ UNCHANGED <<topic, status, leader, mirror, primary, strikes, outbox, inbox, synced,
                 strayed, reports>>

Next ==
  \/ Tick
  \/ \E w \in Workers : Receive(w) \/ Listen(w) \/ Exit(w) \/ Fork(w) \/ PrimaryReceive(w)
  \/ \E w \in Workers, k \in Keys :
       Revoke(w, k) \/ IsRevoked(w, k) \/ Record(w, k) \/ Strike(w, k) \/ Unblock(w, k) \/ UnblockDegraded(w, k)

Spec == Init /\ [][Next]_vars

-----------------------------------------------------------------------------
(* Properties                                                              *)

\* A worker's copy once it has read what is under way to it.
Drained(w) ==
  LET after[i \in 0..Len(inbox[w])] ==
        IF i = 0 THEN Copy(w) ELSE Received(after[i - 1], inbox[w][i])
  IN  after[Len(inbox[w])]

\* Every worker that listens agrees with the primary as soon as it has read
\* its channel, whether it was running, booting or not yet forked when the
\* primary's copy changed: it refuses every family the primary knows as ended,
\* blocks the same addresses, and shows the same last runs.  (Exempt: a block
\* the worker lifted on its own, a family for which its set had no room, and the
\* leader's record that is still on its way to the primary.)
MirrorsAgree ==
  \A w \in synced, k \in Keys :
    LET c == Drained(w)
        v == c.held[k]
    IN  CASE topic = "auth"  -> primary[k] <= now \/ v >= primary[k] \/ k \in c.strayed
          [] topic = "sf"    -> k \in c.strayed \/ Larger(v, now) = Larger(primary[k], now)
          [] topic = "sched" -> \/ v = primary[k]
                                \/ \E i \in 1..Len(outbox[w]) :
                                     outbox[w][i].entries[k] = v
=============================================================================
