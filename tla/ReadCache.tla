------------------------------ MODULE ReadCache ------------------------------
(***************************************************************************)
(* One key of a response cache, kept by every worker for itself:           *)
(*   Backend/src/middleware/cache/CacheMiddleware.js   HTTP reads, which   *)
(*       follow a leader; invalidation after a write                       *)
(*   Backend/src/middleware/cache/CacheStore.js        getOrSet, whose     *)
(*       readers join a flight; the generation counter                     *)
(*   Backend/src/middleware/cache/SingleFlight.js, ClusterCacheSync.js     *)
(*                                                                         *)
(* The data behind the key is a version number that each committed write   *)
(* raises.  A read is used once, and an action of it ends at an await.     *)
(* Instead of the number a read compares, it keeps whether the generation  *)
(* is still the one it noted.  A store of the program is read through the  *)
(* middleware or through getOrSet; Init chooses which.                     *)
(***************************************************************************)
EXTENDS Naturals, FiniteSets

CONSTANTS
  Workers,
  Reads,       \* bound: reads in a behaviour
  None,        \* no read, no worker
  Fills,       \* TRUE: other keys may fill the store up to maxKeys
  MaxVersion,  \* bound: versions of the data, the first included
  MaxLost      \* bound: versions whose invalidation misses some worker

ASSUME NoneAssumption == None \notin Workers \cup Reads
ASSUME BoundAssumption == Fills \in BOOLEAN /\ MaxVersion \in Nat \ {0} /\ MaxLost \in Nat

Absent   == 0                 \* store.get answers undefined
Versions == 1..MaxVersion

VARIABLES
  http,       \* the store is read by CacheMiddleware.read, not by getOrSet
  db,         \* version in the database
  cache,      \* per worker: the cached version, or Absent
  full,       \* per worker: the store holds maxKeys keys
  inflight,   \* per worker: the leader in CacheMiddleware._inflight
  flight,     \* per worker: the read that runs the load of the store's _flight
  todo,       \* per worker: its committed writes that are not yet invalidated
  transit,    \* per worker: invalidations relayed to it, not yet applied
  lost,       \* per worker: versions whose invalidation will not reach it
  read        \* the reads

cacheVars == <<cache, full, inflight, flight>>
writeVars == <<http, db, todo, transit, lost>>
vars      == <<cacheVars, writeVars, read>>

Running == {"wait", "rewait", "begin", "joined", "load", "loaded"}
Ended   == {"ok", "failed", "rejected"}

\* The versions whose invalidation w has applied: all that w has not to apply.
Applied(w) ==
  {v \in 1..db : v \notin lost[w] \cup transit[w] \cup UNION {todo[u] : u \in Workers}}

\* The newest of them: nothing w answers later should be older.
Floor(w) == CHOOSE v \in Applied(w) \cup {Absent} : \A u \in Applied(w) : u <= v

Unread == [pc |-> "idle", at |-> None, on |-> None, val |-> Absent,
           floor |-> Absent, same |-> FALSE, fresh |-> FALSE, leads |-> FALSE,
           gone |-> FALSE, twice |-> FALSE]

Init ==
  /\ http \in BOOLEAN
  /\ db = 1
  /\ cache = [w \in Workers |-> Absent]
  /\ full = [w \in Workers |-> FALSE]
  /\ inflight = [w \in Workers |-> None]
  /\ flight = [w \in Workers |-> None]
  /\ todo = [w \in Workers |-> {}]
  /\ transit = [w \in Workers |-> {}]
  /\ lost = [w \in Workers |-> {}]
  /\ read = [r \in Reads |-> Unread]

-----------------------------------------------------------------------------
(* What several handlers do.                                               *)

\* A read that has just arrived at w.
Asked(w) == [Unread EXCEPT !.at = w, !.floor = Floor(w), !.fresh = TRUE]

\* The record of a read that ends with version v.
EndedAs(rec, end, v) == [rec EXCEPT !.pc = end, !.val = v, !.on = None,
                                    !.same = FALSE, !.fresh = FALSE]

\* The read answers what the cache of its worker holds.
Hit(r, rec) ==
  /\ cache[rec.at] # Absent
  /\ read' = [read EXCEPT ![r] = EndedAs(rec, "ok", cache[rec.at])]
  /\ UNCHANGED cacheVars

\* An HTTP read waits for the leader of its key.
Follows(r, rec, phase) ==
  /\ cache[rec.at] = Absent /\ inflight[rec.at] # None
  /\ read' = [read EXCEPT ![r] = [rec EXCEPT !.pc = phase, !.on = inflight[rec.at]]]
  /\ UNCHANGED cacheVars

\* An HTTP read becomes the leader, notes the generation, enters its controller.
Leads(r, rec) ==
  /\ cache[rec.at] = Absent
  /\ inflight' = [inflight EXCEPT ![rec.at] = r]
  /\ read' = [read EXCEPT ![r] = [rec EXCEPT !.pc = "load", !.on = None,
                                             !.same = TRUE, !.leads = TRUE]]
  /\ UNCHANGED <<cache, full, flight>>

\* Deviation: readers go on joining the flight of before the invalidation.
ClearsKeepingFlight(w) ==
  /\ cache' = [cache EXCEPT ![w] = Absent]
  /\ full' = [full EXCEPT ![w] = @ /\ cache[w] = Absent]
  /\ read' = [r \in Reads |-> IF read[r].at # w THEN read[r] ELSE
                [read[r] EXCEPT !.same = FALSE, !.fresh = FALSE]]
  /\ UNCHANGED <<inflight, flight>>

\* The key is deleted; _invalidateInFlight: a new generation, a new flight.
Clears(w) ==
  /\ cache' = [cache EXCEPT ![w] = Absent]
  /\ full' = [full EXCEPT ![w] = @ /\ cache[w] = Absent]
  /\ flight' = [flight EXCEPT ![w] = None]
  /\ read' = [r \in Reads |-> IF read[r].at # w THEN read[r] ELSE
                [read[r] EXCEPT !.same = FALSE, !.fresh = FALSE]]
  /\ UNCHANGED inflight

\* Deviation: the generation is not compared.
StoresUnchecked(r, keep) == keep

\* The loaded value is stored when the caller wants it kept and no
\* invalidation came in since the generation was noted.
Stores(r, keep) == keep /\ read[r].same

\* How a loaded read ends: node-cache refuses a key beyond maxKeys by throwing,
\* which takes the answer with it.
LoadEnd(r, keep) == IF Stores(r, keep) /\ full[read[r].at] THEN "rejected" ELSE "ok"

CacheAfter(r, keep) ==
  IF Stores(r, keep) /\ ~full[read[r].at]
  THEN [cache EXCEPT ![read[r].at] = read[r].val] ELSE cache

\* The query runs: the load sees the version of this moment.
Load(r) ==
  /\ read[r].pc = "load"
  /\ read' = [read EXCEPT ![r].pc = "loaded", ![r].val = db]
  /\ UNCHANGED <<cacheVars, writeVars>>

-----------------------------------------------------------------------------
(* HTTP reads: CacheMiddleware.read.                                       *)

\* The followers a settled promise has woken run before the next event.
Settled(w) == \A r \in Reads :
  read[r].at = w /\ read[r].pc \in {"wait", "rewait"} => read[read[r].on].leads

HttpRead(r, w) ==
  /\ http /\ read[r].pc = "idle" /\ Settled(w)
  /\ \/ Hit(r, Asked(w))
     \/ Follows(r, Asked(w), "wait")
     \/ inflight[w] = None /\ Leads(r, Asked(w))
  /\ UNCHANGED writeVars

\* Deviation: the woken follower does not look for a newer leader.
WakesToLead(r) ==
  /\ read[r].pc = "wait" /\ ~read[read[r].on].leads
  /\ Hit(r, read[r]) \/ Leads(r, read[r])
  /\ UNCHANGED writeVars

\* The leader is released: the follower answers from the cache, waits for the
\* next leader, or leads.  Second waits were registered first, so they wake first.
Wakes(r) ==
  /\ read[r].pc = "wait" /\ ~read[read[r].on].leads
  /\ \A s \in Reads : read[s].pc = "rewait" => read[s].on # read[r].on
  /\ \/ Hit(r, read[r])
     \/ Follows(r, read[r], "rewait")
     \/ inflight[read[r].at] = None /\ Leads(r, read[r])
  /\ UNCHANGED writeVars

\* After the second wait it leads whoever else does.
WakesAgain(r) ==
  /\ read[r].pc = "rewait" /\ ~read[read[r].on].leads
  /\ Hit(r, read[r]) \/ Leads(r, [read[r] EXCEPT !.twice = TRUE])
  /\ UNCHANGED writeVars

\* res.json with a 2xx status: shouldCache decides about keep.
Respond(r, keep) ==
  /\ http /\ read[r].pc = "loaded"
  /\ cache' = CacheAfter(r, keep)
  /\ read' = [read EXCEPT ![r] = EndedAs(@, LoadEnd(r, keep), @.val)]
  /\ UNCHANGED <<full, inflight, flight, writeVars>>

\* The controller ends in an error: nothing is stored.
RespondFails(r) ==
  /\ http /\ read[r].pc = "load"
  /\ read' = [read EXCEPT ![r] = EndedAs(@, "failed", Absent)]
  /\ UNCHANGED <<cacheVars, writeVars>>

\* The leader's client goes away; its controller goes on.
Abort(r) ==
  /\ read[r].leads /\ ~read[r].gone
  /\ read' = [read EXCEPT ![r].gone = TRUE]
  /\ UNCHANGED <<cacheVars, writeVars>>

\* Deviation: the followers are woken, the entry stays.
ReleasesFollowers(r) ==
  /\ read' = [read EXCEPT ![r].leads = FALSE]
  /\ UNCHANGED <<cacheVars, writeVars>>

\* The entry goes if it is still the leader's own; the followers wake.
Releases(r) ==
  /\ inflight' = [inflight EXCEPT ![read[r].at] = IF @ = r THEN None ELSE @]
  /\ read' = [read EXCEPT ![r].leads = FALSE]
  /\ UNCHANGED <<cache, full, flight, writeVars>>

\* Deviation: released on 'finish', which an aborted response never emits.
CloseOnFinish(r) ==
  /\ read[r].leads /\ read[r].pc \in Ended /\ ~read[r].gone
  /\ Settled(read[r].at)
  /\ Releases(r)

\* 'close': the answer is out, or the client is gone.
Close(r) ==
  /\ read[r].leads /\ (read[r].pc \in Ended \/ read[r].gone)
  /\ Settled(read[r].at)
  /\ Releases(r)

-----------------------------------------------------------------------------
(* Service reads: CacheStore.getOrSet over SingleFlight.run.               *)

ServiceRead(r, w) ==
  /\ ~http /\ read[r].pc = "idle"
  /\ \/ Hit(r, Asked(w))
     \/ /\ cache[w] = Absent /\ flight[w] # None
        /\ read' = [read EXCEPT ![r] = [Asked(w) EXCEPT !.pc = "joined", !.on = flight[w]]]
        /\ UNCHANGED cacheVars
     \/ /\ cache[w] = Absent /\ flight[w] = None
        /\ flight' = [flight EXCEPT ![w] = r]
        /\ read' = [read EXCEPT ![r] = [Asked(w) EXCEPT !.pc = "begin"]]
        /\ UNCHANGED <<cache, full, inflight>>
  /\ UNCHANGED writeVars

\* The reads that share r's promise end alike.
Shared(r, end, v) ==
  read' = [s \in Reads |-> IF s = r \/ (read[s].pc = "joined" /\ read[s].on = r)
                           THEN EndedAs(read[s], end, v) ELSE read[s]]

\* Deviation: the key is cleared in the map of the moment, not in its own.
FlightOverAnyway(r) == flight' = [flight EXCEPT ![read[r].at] = None]

\* The flight clears its key, in the map it was started in.
FlightOver(r) == flight' = [flight EXCEPT ![read[r].at] = IF @ = r THEN None ELSE @]

\* The loader's microtask: check again, note the generation, start to load.
Begin(r) ==
  LET w == read[r].at IN
  /\ read[r].pc = "begin"
  /\ \/ cache[w] # Absent /\ Shared(r, "ok", cache[w]) /\ FlightOver(r)
     \/ /\ cache[w] = Absent
        /\ read' = [read EXCEPT ![r].pc = "load", ![r].same = TRUE]
        /\ UNCHANGED flight
  /\ UNCHANGED <<cache, full, inflight, writeVars>>

\* keep: the loaded value is neither null nor undefined.
Finish(r, keep) ==
  /\ ~http /\ read[r].pc = "loaded"
  /\ cache' = CacheAfter(r, keep)
  /\ Shared(r, LoadEnd(r, keep), read[r].val)
  /\ FlightOver(r)
  /\ UNCHANGED <<full, inflight, writeVars>>

LoadFails(r) ==
  /\ ~http /\ read[r].pc = "load"
  /\ Shared(r, "failed", Absent) /\ FlightOver(r)
  /\ UNCHANGED <<cache, full, inflight, writeVars>>

-----------------------------------------------------------------------------
(* Writes, invalidation and its relay through the primary.                 *)

\* A write commits; its request is answered and invalidated in later events.
Write(w) ==
  /\ db < MaxVersion
  /\ db' = db + 1
  /\ todo' = [todo EXCEPT ![w] = @ \cup {db'}]
  /\ UNCHANGED <<http, transit, lost, cacheVars, read>>

\* Deviation: an invalidation that deletes nothing here is not relayed.
InvalidateWhatIsHeld(w) == \E v \in todo[w] :
  /\ todo' = [todo EXCEPT ![w] = @ \ {v}]
  /\ Clears(w)
  /\ transit' = IF cache[w] = Absent THEN transit ELSE
       [u \in Workers |-> IF u = w THEN transit[u] ELSE transit[u] \cup {v}]
  /\ UNCHANGED <<http, db, lost>>

\* The writer's 2xx answer: delete here and tell every other worker.
Invalidate(w) == \E v \in todo[w] :
  /\ todo' = [todo EXCEPT ![w] = @ \ {v}]
  /\ Clears(w)
  /\ transit' = [u \in Workers |-> IF u = w THEN transit[u] ELSE transit[u] \cup {v}]
  /\ UNCHANGED <<http, db, lost>>

\* Deviation: the remote application is broadcast again.
RelayEchoes(w) == \E v \in transit[w] :
  /\ transit' = [u \in Workers |-> IF u = w THEN transit[u] \ {v} ELSE transit[u] \cup {v}]
  /\ Clears(w)
  /\ UNCHANGED <<http, db, todo, lost>>

\* applyRemote: delete here, with no broadcast of its own.
RelayApplies(w) == \E v \in transit[w] :
  /\ transit' = [transit EXCEPT ![w] = @ \ {v}]
  /\ Clears(w)
  /\ UNCHANGED <<http, db, todo, lost>>

MayLose(vs) == Cardinality(vs \cup UNION {lost[w] : w \in Workers}) <= MaxLost

\* The write commits but its answer is not 2xx: nobody invalidates.
InvalidationSkipped(w) == \E v \in todo[w] :
  /\ MayLose({v})
  /\ todo' = [todo EXCEPT ![w] = @ \ {v}]
  /\ lost' = [u \in Workers |-> lost[u] \cup {v}]
  /\ UNCHANGED <<http, db, transit, cacheVars, read>>

\* The relay's send fails, which is swallowed.
RelayLost(w) == \E v \in transit[w] :
  /\ MayLose({v})
  /\ transit' = [transit EXCEPT ![w] = @ \ {v}]
  /\ lost' = [lost EXCEPT ![w] = @ \cup {v}]
  /\ UNCHANGED <<http, db, todo, cacheVars, read>>

\* The worker dies and its replacement starts cold: the reads it served fail,
\* the invalidations it owed to the others are never sent.
WorkerDies(w) ==
  /\ MayLose(todo[w])
  /\ cache' = [cache EXCEPT ![w] = Absent]
  /\ full' = [full EXCEPT ![w] = FALSE]
  /\ inflight' = [inflight EXCEPT ![w] = None]
  /\ flight' = [flight EXCEPT ![w] = None]
  /\ todo' = [todo EXCEPT ![w] = {}]
  /\ transit' = [transit EXCEPT ![w] = {}]
  /\ lost' = [u \in Workers |-> IF u = w THEN {} ELSE lost[u] \cup todo[w]]
  /\ read' = [r \in Reads |->
       IF read[r].at # w THEN read[r]
       ELSE IF read[r].pc \in Running
       THEN [EndedAs(read[r], "failed", Absent) EXCEPT !.leads = FALSE]
       ELSE [read[r] EXCEPT !.leads = FALSE]]
  /\ UNCHANGED <<http, db>>

\* The entry's TTL runs out; the generation stays.
Expire(w) ==
  /\ cache[w] # Absent
  /\ cache' = [cache EXCEPT ![w] = Absent]
  /\ full' = [full EXCEPT ![w] = FALSE]
  /\ UNCHANGED <<inflight, flight, writeVars, read>>

\* Other keys of the store come, up to maxKeys, and go.
OtherKeys(w) ==
  /\ Fills
  /\ full' = [full EXCEPT ![w] = ~@]
  /\ UNCHANGED <<cache, inflight, flight, writeVars, read>>

-----------------------------------------------------------------------------

Next ==
  \/ \E r \in Reads, w \in Workers : HttpRead(r, w) \/ ServiceRead(r, w)
  \/ \E r \in Reads : \/ Wakes(r) \/ WakesAgain(r) \/ Load(r) \/ RespondFails(r)
                      \/ Abort(r) \/ Close(r) \/ Begin(r) \/ LoadFails(r)
  \/ \E r \in Reads, keep \in BOOLEAN : Respond(r, keep) \/ Finish(r, keep)
  \/ \E w \in Workers : \/ Write(w) \/ Invalidate(w) \/ RelayApplies(w)
                        \/ InvalidationSkipped(w) \/ RelayLost(w)
                        \/ WorkerDies(w) \/ Expire(w) \/ OtherKeys(w)

\* Queries and controllers end, a finished response closes, a settled promise
\* wakes its readers, and the event loop gets to what is queued on it.
Goes(r) ==
  \/ Wakes(r) \/ WakesAgain(r) \/ Load(r) \/ Respond(r, TRUE) \/ Close(r)
  \/ Begin(r) \/ Finish(r, TRUE)

Fairness ==
  /\ \A r \in Reads : WF_vars(Goes(r))
  /\ \A w \in Workers : WF_vars(Invalidate(w)) /\ WF_vars(RelayApplies(w))

Spec     == Init /\ [][Next]_vars
FairSpec == Spec /\ Fairness

-----------------------------------------------------------------------------
(* Properties.                                                             *)

\* Every variable keeps its type, an entry of _inflight names a leader whose
\* followers are still to be released, and one of the flight a load that has
\* still to end: a late reader never waits for what is over.
TypeOK ==
  /\ \A w \in Workers : inflight[w] # None =>
       read[inflight[w]].at = w /\ read[inflight[w]].leads
  /\ \A w \in Workers : flight[w] # None =>
       read[flight[w]].at = w /\ read[flight[w]].pc \in {"begin", "load", "loaded"}
  /\ http \in BOOLEAN /\ db \in Versions
  /\ cache \in [Workers -> {Absent} \cup Versions]
  /\ full \in [Workers -> BOOLEAN]
  /\ inflight \in [Workers -> Reads \cup {None}]
  /\ flight \in [Workers -> Reads \cup {None}]
  /\ todo \in [Workers -> SUBSET Versions]
  /\ transit \in [Workers -> SUBSET Versions]
  /\ lost \in [Workers -> SUBSET Versions]
  /\ read \in [Reads -> [pc : {"idle"} \cup Running \cup Ended,
                         at : Workers \cup {None}, on : Reads \cup {None},
                         val : {Absent} \cup Versions,
                         floor : {Absent} \cup Versions,
                         same : BOOLEAN, fresh : BOOLEAN, leads : BOOLEAN,
                         gone : BOOLEAN, twice : BOOLEAN]]

\* A worker's cache is never older than an invalidation the worker has
\* applied: a load that began before it never re-populates the key
\* (CacheStore.js:182-184; the stale-write guard of CacheMiddleware.read).
NoStaleRefill ==
  \A w \in Workers : cache[w] # Absent => \A v \in Applied(w) : v <= cache[w]

\* A read is never answered with data older than an invalidation that its
\* worker had applied when the read came in, whether it hits, follows a leader
\* or joins a flight (CacheStore.js:255-256: new readers never join a
\* pre-invalidation load).
NoStaleAnswer == \A r \in Reads : read[r].pc = "ok" => read[r].floor <= read[r].val

\* What is stored and what is answered obey the invalidations applied before.
NothingStale == NoStaleRefill /\ NoStaleAnswer

\* The above, in states that are well formed.
CacheIsSound == TypeOK /\ NothingStale

\* Of the readers of getOrSet that came after the last invalidation, one at most
\* loads (CacheStore.js:176-178: only the first caller runs loader()).
OneLoadPerGeneration == ~http => \A r, s \in Reads :
  /\ read[r].pc \in {"load", "loaded"} /\ read[s].pc \in {"load", "loaded"}
  /\ read[r].fresh /\ read[s].fresh /\ read[r].at = read[s].at
  => r = s

\* Two requests run the controller of one key side by side only if one of them
\* has waited for two leaders in vain (CacheMiddleware.read: one extra run, not
\* one per follower).
NoStampede == \A r, s \in Reads :
  read[r].leads /\ read[s].leads /\ read[r].at = read[s].at
  => r = s \/ read[r].twice \/ read[s].twice

\* Readers of one key share its load, by getOrSet and by the middleware.
LoadsAreShared == OneLoadPerGeneration /\ NoStampede

\* Every read ends, whatever becomes of the leader or the flight it waits for.
ReadsEnd == \A r \in Reads : read[r].pc \in Running ~> read[r].pc \in Ended

\* Once the writes stop, each worker holds the last version or nothing, so no
\* worker goes on serving what a write on another worker has replaced; and the
\* relays stop too: a relayed invalidation is not broadcast again
\* (ClusterCacheSync.js:26-27: no message storms).
StaleEnds ==
  <>[](\A w \in Workers : cache[w] \in {Absent, db} /\ transit[w] = {})
=============================================================================
