--------------------------- MODULE ReadCacheProofs ---------------------------
(***************************************************************************)
(* Proofs about ReadCache, for any workers, reads, versions and losses:    *)
(* what is stored and what is answered is no older than the invalidations  *)
(* applied before, and readers of one key share its load.                  *)
(***************************************************************************)
EXTENDS ReadCache, WellFoundedInduction, TLAPS

Loading == {"begin", "load", "loaded"}
Waiting == {"wait", "rewait"}

ReadRecords == [pc : {"idle"} \cup Running \cup Ended,
                at : Workers \cup {None}, on : Reads \cup {None},
                val : {Absent} \cup Versions,
                floor : {Absent} \cup Versions,
                same : BOOLEAN, fresh : BOOLEAN, leads : BOOLEAN,
                gone : BOOLEAN, twice : BOOLEAN]

\* A read at work was asked of a worker and has a floor among the versions that
\* the worker has applied by now; what it has loaded is no older than its floor
\* and, while no invalidation came in between, than all that is applied.
Sane(x) ==
  /\ x.pc = "idle" => ~x.leads
  /\ x.pc # "idle" => x.at \in Workers
  /\ x.pc \in Running => x.floor \in Applied(x.at) \cup {Absent}
  /\ x.pc = "ok" => x.floor <= x.val
  /\ x.pc = "loaded" => x.floor <= x.val
  /\ x.pc = "loaded" /\ x.same => \A v \in Applied(x.at) : v <= x.val
  /\ x.pc \in {"begin", "joined"} => ~http
  /\ x.pc \in Waiting => http

\* A joined read waits for a load of its own worker, which has not begun too
\* early for it.
Joins(x) == x.pc = "joined" =>
  /\ x.on \in Reads /\ read[x.on].at = x.at /\ read[x.on].pc \in Loading
  /\ read[x.on].pc = "loaded" => x.floor <= read[x.on].val

\* The load that a late reader joins is as new as the invalidations applied.
FlightSound(w) == flight[w] # None =>
  /\ ~http
  /\ read[flight[w]].pc = "loaded" => \A v \in Applied(w) : v <= read[flight[w]].val

CacheInv ==
  /\ TypeOK
  /\ NoStaleRefill
  /\ \A r \in Reads : Sane(read[r])
  /\ \A r \in Reads : Joins(read[r])
  /\ \A w \in Workers : FlightSound(w)

-----------------------------------------------------------------------------
(* Versions and floors.                                                    *)

\* A set of naturals that is not empty has a least element.
LEMMA MinExists ==
  ASSUME NEW T, T \subseteq Nat, T # {}
  PROVE  \E x \in T : \A y \in T : x <= y
<1>1. IsWellFoundedOn(OpToRel(<, Nat), Nat)
  BY NatLessThanWellFounded
<1>2. PICK x \in T : \A y \in T : ~ (<<y, x>> \in OpToRel(<, Nat))
  BY <1>1, WFMin
<1>3. \A y \in T : ~(y < x)
  BY <1>2 DEF OpToRel
<1> QED BY <1>3

\* A set of naturals up to n that is not empty has a greatest element.
LEMMA MaxExists ==
  ASSUME NEW n \in Nat, NEW S, S \subseteq 0..n, S # {}
  PROVE  \E x \in S : \A y \in S : y <= x
<1> DEFINE T == {n - v : v \in S}
<1>1. T \subseteq Nat
  <2>1. ASSUME NEW v \in S PROVE n - v \in Nat
    <3>1. v \in 0..n
      OBVIOUS
    <3>2. v \in Nat /\ v <= n
      BY <3>1
    <3> QED BY <3>2
  <2> QED BY <2>1
<1>2. T # {}
  <2>1. PICK v \in S : TRUE
    OBVIOUS
  <2>2. n - v \in T
    BY <2>1
  <2> QED BY <2>2
<1>3. PICK x \in T : \A y \in T : x <= y
  <2> HIDE DEF T
  <2> QED BY <1>1, <1>2, MinExists
<1>4. PICK v \in S : x = n - v
  OBVIOUS
<1>5. ASSUME NEW u \in S PROVE u <= v
  <2>1. n - v <= n - u
    <3>1. n - u \in T
      OBVIOUS
    <3> QED BY <3>1, <1>3, <1>4
  <2>2. u \in 0..n /\ v \in 0..n
    OBVIOUS
  <2>3. u \in Nat /\ v \in Nat
    BY <2>2
  <2> HIDE DEF T
  <2> QED BY <2>1, <2>3
<1> QED BY <1>5

\* What a worker has applied are versions up to that of the database.
LEMMA AppliedVersions ==
  ASSUME TypeOK, NEW w
  PROVE  /\ db \in Nat /\ db >= 1 /\ MaxVersion \in Nat
         /\ \A v \in Applied(w) : v \in Nat /\ v <= db /\ v \in Versions
<1>1. db \in Nat /\ db >= 1 /\ db <= MaxVersion /\ MaxVersion \in Nat
  BY BoundAssumption DEF TypeOK, Versions
<1> QED BY <1>1 DEF Applied, Versions

\* The floor of a read is among the applied versions, and none is above it.
LEMMA FloorIsMax ==
  ASSUME TypeOK, NEW w
  PROVE  /\ Floor(w) \in Applied(w) \cup {Absent}
         /\ \A u \in Applied(w) : u <= Floor(w)
         /\ Floor(w) \in {Absent} \cup Versions
<1> DEFINE S == Applied(w) \cup {Absent}
<1>1. /\ db \in Nat
      /\ \A v \in Applied(w) : v \in Nat /\ v <= db /\ v \in Versions
  BY AppliedVersions
<1>2. S \subseteq 0..db /\ S # {}
  BY <1>1 DEF Absent
<1>3. \E v \in S : \A u \in S : u <= v
  <2> HIDE DEF S
  <2> QED BY <1>1, <1>2, MaxExists
<1>4. \E v \in Applied(w) \cup {Absent} : \A u \in Applied(w) : u <= v
  BY <1>3
<1>5. Floor(w) \in Applied(w) \cup {Absent} /\ \A u \in Applied(w) : u <= Floor(w)
  BY <1>4 DEF Floor
<1> QED BY <1>1, <1>5

\* An applied version depends on the writes and their invalidations alone.
LEMMA AppliedKept ==
  ASSUME UNCHANGED writeVars
  PROVE  /\ \A w : Applied(w)' = Applied(w)
         /\ http' = http /\ db' = db /\ todo' = todo /\ transit' = transit /\ lost' = lost
BY DEF writeVars, Applied

-----------------------------------------------------------------------------
(* Steps that change one read and no write: r becomes x.                   *)

\* Such a step keeps the types when r remains a leader, or a loading read,
\* wherever it is recorded as one.
LEMMA OneReadTypes ==
  ASSUME TypeOK, UNCHANGED writeVars,
         NEW r \in Reads, NEW x \in ReadRecords,
         read' = [read EXCEPT ![r] = x],
         cache' \in [Workers -> {Absent} \cup Versions],
         full' \in [Workers -> BOOLEAN],
         inflight' \in [Workers -> Reads \cup {None}],
         flight' \in [Workers -> Reads \cup {None}],
         \A w \in Workers : inflight'[w] # None =>
           IF inflight'[w] = r THEN x.at = w /\ x.leads ELSE inflight'[w] = inflight[w],
         \A w \in Workers : flight'[w] # None =>
           IF flight'[w] = r THEN x.at = w /\ x.pc \in Loading ELSE flight'[w] = flight[w]
  PROVE  TypeOK'
<1>1. read \in [Reads -> ReadRecords]
  BY DEF TypeOK, ReadRecords
<1>2. read' \in [Reads -> ReadRecords] /\ read'[r] = x
      /\ \A s \in Reads : s # r => read'[s] = read[s]
  BY <1>1
<1>3. ASSUME NEW w \in Workers, inflight'[w] # None
      PROVE  read'[inflight'[w]].at = w /\ read'[inflight'[w]].leads
  <2>1. inflight'[w] \in Reads
    BY <1>3
  <2>2. CASE inflight'[w] = r
    BY <1>2, <1>3, <2>2
  <2>3. CASE inflight'[w] # r
    <3>1. inflight'[w] = inflight[w]
      BY <1>3, <2>3
    <3>2. read[inflight[w]].at = w /\ read[inflight[w]].leads
      BY <1>3, <3>1 DEF TypeOK
    <3> QED BY <3>1, <3>2, <2>1, <2>3, <1>2
  <2> QED BY <2>2, <2>3
<1>4. ASSUME NEW w \in Workers, flight'[w] # None
      PROVE  read'[flight'[w]].at = w /\ read'[flight'[w]].pc \in {"begin", "load", "loaded"}
  <2>1. flight'[w] \in Reads
    BY <1>4
  <2>2. CASE flight'[w] = r
    BY <1>2, <1>4, <2>2 DEF Loading
  <2>3. CASE flight'[w] # r
    <3>1. flight'[w] = flight[w]
      BY <1>4, <2>3
    <3>2. read[flight[w]].at = w /\ read[flight[w]].pc \in {"begin", "load", "loaded"}
      BY <1>4, <3>1 DEF TypeOK
    <3> QED BY <3>1, <3>2, <2>1, <2>3, <1>2
  <2> QED BY <2>2, <2>3
<1>5. /\ http' \in BOOLEAN /\ db' \in Versions
      /\ todo' \in [Workers -> SUBSET Versions]
      /\ transit' \in [Workers -> SUBSET Versions]
      /\ lost' \in [Workers -> SUBSET Versions]
  BY DEF TypeOK, writeVars
<1>6. read' \in [Reads -> ReadRecords]
  BY <1>2
<1> QED BY <1>3, <1>4, <1>5, <1>6 DEF TypeOK, ReadRecords

\* A cache that is not touched, while nothing is applied, stays fresh.
LEMMA CacheKept ==
  ASSUME NoStaleRefill, UNCHANGED writeVars, cache' = cache
  PROVE  NoStaleRefill'
BY AppliedKept DEF NoStaleRefill

\* Such a step keeps the invariant when x is sane, joins soundly, and stays a
\* load for those who joined r.
LEMMA OneReadStep ==
  ASSUME CacheInv, UNCHANGED writeVars, TypeOK', NoStaleRefill',
         NEW r \in Reads, NEW x,
         read' = [read EXCEPT ![r] = x],
         Sane(x),
         x.pc = "joined" => x.on # r /\ Joins(x),
         \A s \in Reads : read[s].pc = "joined" /\ read[s].on = r =>
           /\ x.at = read[r].at /\ x.pc \in Loading
           /\ x.pc = "loaded" => read[s].floor <= x.val,
         \A w \in Workers : flight'[w] # None =>
           /\ ~http
           /\ IF flight'[w] = r
              THEN x.pc = "loaded" => \A v \in Applied(w) : v <= x.val
              ELSE flight'[w] = flight[w]
  PROVE  CacheInv'
<1>1. read \in [Reads -> ReadRecords]
  BY DEF CacheInv, TypeOK, ReadRecords
<1>2. read'[r] = x /\ \A s \in Reads : s # r => read'[s] = read[s]
  BY <1>1
<1>3. http' = http /\ \A w : Applied(w)' = Applied(w)
  BY AppliedKept
<1>4. ASSUME NEW s \in Reads PROVE Sane(read[s])'
  <2>1. PICK y : y = read'[s]
    OBVIOUS
  <2>2. Sane(y)
    BY <1>2, <2>1 DEF CacheInv
  <2> QED BY <2>1, <2>2, <1>3 DEF Sane
<1>5. ASSUME NEW s \in Reads PROVE Joins(read[s])'
  <2>1. PICK y : y = read'[s]
    OBVIOUS
  <2>2. SUFFICES ASSUME y.pc = "joined"
                 PROVE  /\ y.on \in Reads /\ read'[y.on].at = y.at /\ read'[y.on].pc \in Loading
                        /\ read'[y.on].pc = "loaded" => y.floor <= read'[y.on].val
    BY <2>1 DEF Joins
  <2>3. CASE s = r
    <3>1. y = x
      BY <2>1, <2>3, <1>2
    <3>2. y.on # r /\ Joins(y)
      BY <3>1, <2>2
    <3> QED BY <3>2, <2>2, <1>2 DEF Joins
  <2>4. CASE s # r
    <3>1. y = read[s]
      BY <2>1, <2>4, <1>2
    <3>2. Joins(y)
      BY <3>1 DEF CacheInv
    <3>3. CASE y.on = r
      <4>1. /\ x.at = read[r].at /\ x.pc \in Loading
            /\ x.pc = "loaded" => y.floor <= x.val
        BY <3>1, <3>3, <2>2
      <4> QED BY <4>1, <3>2, <3>3, <2>2, <1>2 DEF Joins
    <3>4. CASE y.on # r
      BY <3>2, <3>4, <2>2, <1>2 DEF Joins
    <3> QED BY <3>3, <3>4
  <2> QED BY <2>3, <2>4
<1>6. ASSUME NEW w \in Workers PROVE FlightSound(w)'
  <2>1. SUFFICES ASSUME flight'[w] # None
                 PROVE  /\ ~http'
                        /\ read'[flight'[w]].pc = "loaded" =>
                             \A v \in Applied(w)' : v <= read'[flight'[w]].val
    BY DEF FlightSound
  <2>2. flight'[w] \in Reads
    BY <2>1 DEF TypeOK
  <2>3. CASE flight'[w] = r
    BY <2>1, <2>3, <1>2, <1>3
  <2>4. CASE flight'[w] # r
    <3>1. flight'[w] = flight[w] /\ FlightSound(w)
      BY <2>1, <2>4 DEF CacheInv
    <3>2. read'[flight'[w]] = read[flight[w]]
      BY <3>1, <2>2, <2>4, <1>2
    <3> QED BY <3>1, <3>2, <2>1, <1>3 DEF FlightSound
  <2> QED BY <2>3, <2>4
<1> QED BY <1>4, <1>5, <1>6 DEF CacheInv

\* rec is what read r of no load may be when it looks at the cache.
Fits(r, rec) ==
  /\ rec \in ReadRecords /\ rec.at \in Workers
  /\ rec.floor \in Applied(rec.at) \cup {Absent}
  /\ rec.pc \in {"idle"} \cup Waiting
  /\ read[r].pc \notin Loading
  /\ \A w \in Workers : inflight[w] = r => rec.at = w /\ rec.leads

\* A read that has just arrived fits.
LEMMA AskedFits ==
  ASSUME CacheInv, NEW r \in Reads, NEW w \in Workers, read[r].pc = "idle"
  PROVE  Fits(r, Asked(w))
<1>1. /\ Asked(w).pc = "idle" /\ Asked(w).at = w /\ Asked(w).floor = Floor(w)
      /\ ~Asked(w).leads
  BY DEF Asked, Unread
<1>2. Floor(w) \in Applied(w) \cup {Absent} /\ Floor(w) \in {Absent} \cup Versions
  BY FloorIsMax DEF CacheInv
<1>3. Asked(w) \in ReadRecords
  BY <1>2 DEF Asked, Unread, ReadRecords, Absent
<1>4. Sane(read[r])
  BY DEF CacheInv
<1>5. ~read[r].leads
  BY <1>4 DEF Sane
<1>6. \A u \in Workers : inflight[u] # r
  <2>1. r # None
    BY NoneAssumption
  <2> QED BY <1>5, <2>1 DEF CacheInv, TypeOK
<1> QED BY <1>1, <1>2, <1>3, <1>6 DEF Fits, Loading

\* So does a follower that is woken, and with its second wait noted.
LEMMA WaitingFits ==
  ASSUME CacheInv, NEW r \in Reads, read[r].pc \in Waiting
  PROVE  Fits(r, read[r]) /\ Fits(r, [read[r] EXCEPT !.twice = TRUE])
<1>1. PICK x \in ReadRecords : x = read[r]
  BY DEF CacheInv, TypeOK, ReadRecords
<1>2. PICK y : y = [x EXCEPT !.twice = TRUE]
  OBVIOUS
<1>3. /\ y \in ReadRecords /\ y.pc = x.pc /\ y.at = x.at /\ y.floor = x.floor
      /\ y.leads = x.leads
  BY <1>2 DEF ReadRecords
<1>4. Sane(x)
  BY <1>1 DEF CacheInv
<1>5. x.pc \in Waiting
  BY <1>1
<1>6. x.at \in Workers /\ x.floor \in Applied(x.at) \cup {Absent}
  BY <1>4, <1>5 DEF Sane, Waiting, Running
<1>7. x.pc \notin Loading
  BY <1>5 DEF Waiting, Loading
<1>8. \A w \in Workers : inflight[w] = r => x.at = w /\ x.leads
  <2>1. r # None
    BY NoneAssumption
  <2> QED BY <1>1, <2>1 DEF CacheInv, TypeOK
<1>9. Fits(r, x) /\ Fits(r, y)
  BY <1>1, <1>3, <1>5, <1>6, <1>7, <1>8 DEF Fits
<1> QED BY <1>1, <1>2, <1>9

\* What a read that fits can count on: nobody joined it, no flight is its own.
LEMMA NobodyJoined ==
  ASSUME CacheInv, NEW r \in Reads, read[r].pc \notin Loading
  PROVE  /\ \A s \in Reads : read[s].pc = "joined" => read[s].on # r
         /\ \A w \in Workers : flight[w] # r
<1>1. r # None
  BY NoneAssumption
<1>2. \A s \in Reads : Joins(read[s])
  BY DEF CacheInv
<1> QED BY <1>1, <1>2 DEF Joins, CacheInv, TypeOK, Loading

\* Middleware reads use no flights.
LEMMA NoFlights ==
  ASSUME CacheInv, http
  PROVE  /\ \A s \in Reads : read[s].pc \notin {"joined", "begin"}
         /\ \A w \in Workers : flight[w] = None
<1>1. \A s \in Reads : Sane(read[s])
  BY DEF CacheInv
<1>2. \A w \in Workers : FlightSound(w)
  BY DEF CacheInv
<1> QED BY <1>1, <1>2 DEF Sane, FlightSound

\* A read that is answered from the cache.
LEMMA HitStep ==
  ASSUME CacheInv, UNCHANGED writeVars,
         NEW r \in Reads, NEW rec, Fits(r, rec), Hit(r, rec)
  PROVE  CacheInv'
<1>1. PICK w \in Workers : w = rec.at
  BY DEF Fits
<1>2. PICK c \in Versions : c = cache[w]
  BY <1>1 DEF Hit, CacheInv, TypeOK, Absent, Versions
<1>3. PICK x : x = EndedAs(rec, "ok", c)
  OBVIOUS
<1>4. /\ x \in ReadRecords /\ x.pc = "ok" /\ x.at = w /\ x.val = c
      /\ x.floor = rec.floor /\ x.leads = rec.leads
  BY <1>1, <1>3 DEF Fits, EndedAs, ReadRecords, Ended
<1>5. read' = [read EXCEPT ![r] = x]
  BY <1>1, <1>2, <1>3 DEF Hit
<1>6. cache' = cache /\ full' = full /\ inflight' = inflight /\ flight' = flight
  BY DEF Hit, cacheVars
<1>7. NoStaleRefill'
  BY <1>6, CacheKept DEF CacheInv
<1>8. x.floor <= c
  <2>1. rec.floor \in Applied(w) \cup {Absent}
    BY <1>1 DEF Fits
  <2>2. \A v \in Applied(w) : v <= c
    BY <1>1, <1>2 DEF Hit, CacheInv, NoStaleRefill
  <2>3. 0 <= c
    BY DEF Versions
  <2> QED BY <2>1, <2>2, <2>3, <1>4 DEF Absent
<1>9. Sane(x)
  BY <1>4, <1>8 DEF Sane, Running, Waiting
<1>10. /\ \A s \in Reads : read[s].pc = "joined" => read[s].on # r
       /\ \A u \in Workers : flight[u] # r
  BY NobodyJoined DEF Fits
<1>11. \A u \in Workers : inflight[u] = r => x.at = u /\ x.leads
  BY <1>1, <1>4 DEF Fits
<1>12. TypeOK
  BY DEF CacheInv
<1>13. /\ cache' \in [Workers -> {Absent} \cup Versions]
       /\ full' \in [Workers -> BOOLEAN]
       /\ inflight' \in [Workers -> Reads \cup {None}]
       /\ flight' \in [Workers -> Reads \cup {None}]
  BY <1>6, <1>12 DEF TypeOK
<1>14. TypeOK'
  BY <1>4, <1>5, <1>6, <1>10, <1>11, <1>12, <1>13, OneReadTypes
<1>15. \A u \in Workers : flight'[u] # None => ~http
  BY <1>6 DEF CacheInv, FlightSound
<1> QED BY <1>4, <1>5, <1>6, <1>7, <1>9, <1>10, <1>14, <1>15, OneReadStep

\* A middleware read that only waits, loads or ends.
LEMMA HttpStep ==
  ASSUME CacheInv, UNCHANGED writeVars, http,
         NEW r \in Reads, NEW x \in ReadRecords,
         read' = [read EXCEPT ![r] = x], Sane(x), x.pc # "joined",
         cache' \in [Workers -> {Absent} \cup Versions], NoStaleRefill',
         full' = full, flight' = flight,
         inflight' \in [Workers -> Reads \cup {None}],
         \A w \in Workers : inflight'[w] # None =>
           IF inflight'[w] = r THEN x.at = w /\ x.leads ELSE inflight'[w] = inflight[w]
  PROVE  CacheInv'
<1>1. TypeOK
  BY DEF CacheInv
<1>2. /\ \A s \in Reads : read[s].pc \notin {"joined", "begin"}
      /\ \A w \in Workers : flight[w] = None
  BY NoFlights
<1>3. full' \in [Workers -> BOOLEAN] /\ flight' \in [Workers -> Reads \cup {None}]
  BY <1>1 DEF TypeOK
<1>4. \A w \in Workers : flight'[w] = None
  BY <1>2
<1>5. TypeOK'
  BY <1>1, <1>3, <1>4, OneReadTypes
<1> QED BY <1>2, <1>4, <1>5, OneReadStep

\* A middleware read that waits for a leader.
LEMMA FollowsStep ==
  ASSUME CacheInv, UNCHANGED writeVars, http, NEW phase \in Waiting,
         NEW r \in Reads, NEW rec, Fits(r, rec), Follows(r, rec, phase)
  PROVE  CacheInv'
<1>1. TypeOK
  BY DEF CacheInv
<1>2. PICK l \in Reads : l = inflight[rec.at]
  BY <1>1 DEF Follows, TypeOK, Fits
<1>3. PICK x : x = [rec EXCEPT !.pc = phase, !.on = l]
  OBVIOUS
<1>4. /\ x \in ReadRecords /\ x.pc = phase /\ x.at = rec.at
      /\ x.floor = rec.floor /\ x.leads = rec.leads
  BY <1>3 DEF Fits, ReadRecords, Waiting, Running
<1>5. read' = [read EXCEPT ![r] = x]
  BY <1>2, <1>3 DEF Follows
<1>6. cache' = cache /\ full' = full /\ inflight' = inflight /\ flight' = flight
  BY DEF Follows, cacheVars
<1>7. NoStaleRefill'
  BY <1>6, CacheKept DEF CacheInv
<1>8. Sane(x) /\ x.pc # "joined"
  BY <1>4 DEF Sane, Running, Waiting, Fits
<1>9. \A u \in Workers : inflight[u] = r => x.at = u /\ x.leads
  BY <1>4 DEF Fits
<1>10. /\ cache' \in [Workers -> {Absent} \cup Versions]
       /\ inflight' \in [Workers -> Reads \cup {None}]
  BY <1>6, <1>1 DEF TypeOK
<1> QED BY <1>4, <1>5, <1>6, <1>7, <1>8, <1>9, <1>10, HttpStep

\* A middleware read that becomes the leader of its key.
LEMMA LeadsStep ==
  ASSUME CacheInv, UNCHANGED writeVars, http,
         NEW r \in Reads, NEW rec, Fits(r, rec), Leads(r, rec)
  PROVE  CacheInv'
<1>1. TypeOK
  BY DEF CacheInv
<1>3. PICK x : x = [rec EXCEPT !.pc = "load", !.on = None, !.same = TRUE, !.leads = TRUE]
  OBVIOUS
<1>4. /\ x \in ReadRecords /\ x.pc = "load" /\ x.at = rec.at
      /\ x.floor = rec.floor /\ x.leads
  BY <1>3 DEF Fits, ReadRecords, Running
<1>5. read' = [read EXCEPT ![r] = x]
  BY <1>3 DEF Leads
<1>6. cache' = cache /\ full' = full /\ flight' = flight
      /\ inflight' = [inflight EXCEPT ![rec.at] = r]
  BY DEF Leads
<1>7. NoStaleRefill'
  BY <1>6, CacheKept DEF CacheInv
<1>8. Sane(x) /\ x.pc # "joined"
  BY <1>4 DEF Sane, Running, Waiting, Fits
<1>9. \A u \in Workers : inflight[u] = r => u = rec.at
  BY DEF Fits
<1>10. /\ cache' \in [Workers -> {Absent} \cup Versions]
       /\ inflight' \in [Workers -> Reads \cup {None}]
  BY <1>6, <1>1 DEF TypeOK
<1>11. \A w \in Workers : inflight'[w] = IF w = rec.at THEN r ELSE inflight[w]
  BY <1>6, <1>1 DEF TypeOK
<1>12. \A w \in Workers : inflight'[w] # None =>
         IF inflight'[w] = r THEN x.at = w /\ x.leads ELSE inflight'[w] = inflight[w]
  BY <1>4, <1>9, <1>11
<1> QED BY <1>4, <1>5, <1>6, <1>7, <1>8, <1>10, <1>12, HttpStep

LEMMA HttpReadStep ==
  ASSUME CacheInv, NEW r \in Reads, NEW w \in Workers, HttpRead(r, w)
  PROVE  CacheInv'
<1>1. http /\ read[r].pc = "idle" /\ UNCHANGED writeVars
  BY DEF HttpRead
<1>2. Fits(r, Asked(w))
  BY <1>1, AskedFits
<1>3. CASE Hit(r, Asked(w))
  BY <1>1, <1>2, <1>3, HitStep
<1>4. CASE Follows(r, Asked(w), "wait")
  <2>1. "wait" \in Waiting
    BY DEF Waiting
  <2> QED BY <1>1, <1>2, <1>4, <2>1, FollowsStep
<1>5. CASE Leads(r, Asked(w))
  BY <1>1, <1>2, <1>5, LeadsStep
<1> QED BY <1>3, <1>4, <1>5 DEF HttpRead

LEMMA WakesStep ==
  ASSUME CacheInv, NEW r \in Reads, Wakes(r) \/ WakesAgain(r)
  PROVE  CacheInv'
<1>1. UNCHANGED writeVars /\ read[r].pc \in Waiting
  BY DEF Wakes, WakesAgain, Waiting
<1>2. http
  BY <1>1 DEF CacheInv, Sane
<1>3. PICK rec : Fits(r, rec) /\ (Hit(r, rec) \/ Follows(r, rec, "rewait") \/ Leads(r, rec))
  <2>1. Fits(r, read[r]) /\ Fits(r, [read[r] EXCEPT !.twice = TRUE])
    BY <1>1, WaitingFits
  <2> QED BY <2>1 DEF Wakes, WakesAgain
<1>4. CASE Hit(r, rec)
  BY <1>1, <1>3, <1>4, HitStep
<1>5. CASE Follows(r, rec, "rewait")
  <2>1. "rewait" \in Waiting
    BY DEF Waiting
  <2> QED BY <1>1, <1>2, <1>3, <1>5, <2>1, FollowsStep
<1>6. CASE Leads(r, rec)
  BY <1>1, <1>2, <1>3, <1>6, LeadsStep
<1> QED BY <1>3, <1>4, <1>5, <1>6

\* The query runs: what it sees is as new as everything applied.
LEMMA LoadStep ==
  ASSUME CacheInv, NEW r \in Reads, Load(r)
  PROVE  CacheInv'
<1>1. TypeOK /\ UNCHANGED writeVars
  BY DEF CacheInv, Load
<1>2. PICK y \in ReadRecords : y = read[r]
  BY <1>1 DEF TypeOK, ReadRecords
<1>3. PICK d \in Versions : d = db
  BY <1>1 DEF TypeOK
<1>4. PICK x : x = [y EXCEPT !.pc = "loaded", !.val = d]
  OBVIOUS
<1>5. /\ x \in ReadRecords /\ x.pc = "loaded" /\ x.val = d /\ x.at = y.at
      /\ x.floor = y.floor /\ x.leads = y.leads
  BY <1>4 DEF ReadRecords, Running
<1>6. read' = [read EXCEPT ![r] = x]
  <2>1. [read EXCEPT ![r].pc = "loaded", ![r].val = d] = [read EXCEPT ![r] = x]
    BY <1>1, <1>2, <1>4 DEF TypeOK
  <2> QED BY <2>1, <1>3 DEF Load
<1>7. cache' = cache /\ full' = full /\ inflight' = inflight /\ flight' = flight
  BY DEF Load, cacheVars
<1>8. y.pc = "load" /\ Sane(y)
  BY <1>2 DEF Load, CacheInv
<1>9. y.at \in Workers /\ y.floor \in Applied(y.at) \cup {Absent}
  BY <1>8 DEF Sane, Running
<1>10. 0 <= d /\ \A w : \A v \in Applied(w) : v <= d
  BY <1>1, <1>3, AppliedVersions DEF Versions
<1>11. ASSUME NEW s \in Reads, read[s].pc = "joined", read[s].on = r
       PROVE  x.at = read[r].at /\ x.pc \in Loading /\ read[s].floor <= x.val
  <2>1. Sane(read[s])
    BY DEF CacheInv
  <2>2. read[s].floor \in Applied(read[s].at) \cup {Absent}
    BY <1>11, <2>1 DEF Sane, Running
  <2> QED BY <2>2, <1>2, <1>5, <1>10 DEF Loading, Absent
<1>12. Sane(x)
  BY <1>5, <1>9, <1>10 DEF Sane, Running, Waiting, Absent
<1>13. NoStaleRefill'
  BY <1>1, <1>7, CacheKept DEF CacheInv
<1>14. TypeOK'
  <2>1. r # None
    BY NoneAssumption
  <2>2. \A u \in Workers : inflight[u] = r => x.at = u /\ x.leads
    BY <1>1, <1>2, <1>5, <2>1 DEF TypeOK
  <2>3. \A u \in Workers : flight[u] = r => x.at = u /\ x.pc \in Loading
    BY <1>1, <1>2, <1>5, <2>1 DEF TypeOK, Loading
  <2>4. /\ cache' \in [Workers -> {Absent} \cup Versions]
        /\ full' \in [Workers -> BOOLEAN]
        /\ inflight' \in [Workers -> Reads \cup {None}]
        /\ flight' \in [Workers -> Reads \cup {None}]
    BY <1>1, <1>7 DEF TypeOK
  <2>5. \A w \in Workers : inflight'[w] # None =>
          IF inflight'[w] = r THEN x.at = w /\ x.leads ELSE inflight'[w] = inflight[w]
    BY <1>7, <2>2
  <2>6. \A w \in Workers : flight'[w] # None =>
          IF flight'[w] = r THEN x.at = w /\ x.pc \in Loading ELSE flight'[w] = flight[w]
    BY <1>7, <2>3
  <2>7. x \in ReadRecords
    BY <1>5
  <2> QED BY <1>1, <1>6, <2>4, <2>5, <2>6, <2>7, OneReadTypes
<1>15. \A u \in Workers : flight'[u] # None => ~http
  BY <1>7 DEF CacheInv, FlightSound
<1>16. x.pc # "joined"
  BY <1>5
<1>17. \A w \in Workers : \A v \in Applied(w) : v <= x.val
  BY <1>5, <1>10
<1> QED BY <1>1, <1>6, <1>7, <1>11, <1>12, <1>13, <1>14, <1>15, <1>16, <1>17, OneReadStep

\* A client that goes away, or a leader that is released, changes no answer.
LEMMA LeaderStep ==
  ASSUME CacheInv, NEW r \in Reads, Abort(r) \/ Close(r)
  PROVE  CacheInv'
<1>1. TypeOK
  BY DEF CacheInv
<1>2. UNCHANGED writeVars /\ cache' = cache /\ full' = full /\ flight' = flight
  BY DEF Abort, Close, Releases, cacheVars, writeVars
<1>3. PICK y \in ReadRecords : y = read[r]
  BY <1>1 DEF TypeOK, ReadRecords
<1>4. PICK x \in ReadRecords :
         /\ x.pc = y.pc /\ x.at = y.at /\ x.on = y.on /\ x.val = y.val
         /\ x.floor = y.floor /\ x.same = y.same
         /\ read' = [read EXCEPT ![r] = x]
         /\ x.leads \in {y.leads, FALSE}
         /\ (inflight' = inflight /\ x.leads = y.leads) \/ Close(r)
  <2>1. CASE Abort(r)
    <3>1. PICK x : x = [y EXCEPT !.gone = TRUE]
      OBVIOUS
    <3>2. /\ x \in ReadRecords /\ x.pc = y.pc /\ x.at = y.at /\ x.on = y.on
          /\ x.val = y.val /\ x.floor = y.floor /\ x.same = y.same /\ x.leads = y.leads
      BY <3>1 DEF ReadRecords
    <3>3. read' = [read EXCEPT ![r] = x]
      BY <2>1, <3>1, <1>3 DEF Abort
    <3> QED BY <2>1, <3>2, <3>3 DEF Abort, cacheVars
  <2>2. CASE Close(r)
    <3>1. PICK x : x = [y EXCEPT !.leads = FALSE]
      OBVIOUS
    <3>2. /\ x \in ReadRecords /\ x.pc = y.pc /\ x.at = y.at /\ x.on = y.on
          /\ x.val = y.val /\ x.floor = y.floor /\ x.same = y.same /\ x.leads = FALSE
      BY <3>1 DEF ReadRecords
    <3>3. read' = [read EXCEPT ![r] = x]
      BY <2>2, <3>1, <1>3 DEF Close, Releases
    <3> QED BY <2>2, <3>2, <3>3
  <2> QED BY <2>1, <2>2
<1>5. r # None
  BY NoneAssumption
<1>6. \A w \in Workers : inflight[w] = r => w = y.at /\ y.leads
  BY <1>1, <1>3, <1>5 DEF TypeOK
<1>7. \A w \in Workers : inflight'[w] # None =>
        IF inflight'[w] = r THEN x.at = w /\ x.leads ELSE inflight'[w] = inflight[w]
  <2>1. CASE inflight' = inflight /\ x.leads = y.leads
    BY <2>1, <1>4, <1>6
  <2>2. CASE Close(r)
    <3>1. inflight' = [inflight EXCEPT ![y.at] = IF @ = r THEN None ELSE @]
      BY <2>2, <1>3 DEF Close, Releases
    <3> QED BY <3>1, <1>6, <1>1, <1>5 DEF TypeOK
  <2> QED BY <2>1, <2>2, <1>4
<1>8. inflight' \in [Workers -> Reads \cup {None}]
  <2>1. CASE inflight' = inflight
    BY <2>1, <1>1 DEF TypeOK
  <2>2. CASE Close(r)
    BY <2>2, <1>1 DEF TypeOK, Close, Releases
  <2> QED BY <2>1, <2>2, <1>4
<1>9. \A w \in Workers : flight[w] = r =>
        /\ x.at = w /\ x.pc \in Loading
        /\ x.pc = "loaded" => \A v \in Applied(w) : v <= x.val
  <2>1. ASSUME NEW w \in Workers, flight[w] = r
        PROVE  y.at = w /\ y.pc \in Loading
               /\ (y.pc = "loaded" => \A v \in Applied(w) : v <= y.val)
    <3>1. y.at = w /\ y.pc \in Loading
      BY <2>1, <1>1, <1>3, <1>5 DEF TypeOK, Loading
    <3>2. y.pc = "loaded" => \A v \in Applied(w) : v <= y.val
      BY <2>1, <1>3, <1>5 DEF CacheInv, FlightSound
    <3> QED BY <3>1, <3>2
  <2> QED BY <2>1, <1>4
<1>10. TypeOK'
  <2>1. /\ cache' \in [Workers -> {Absent} \cup Versions]
        /\ full' \in [Workers -> BOOLEAN]
        /\ flight' \in [Workers -> Reads \cup {None}]
    BY <1>1, <1>2 DEF TypeOK
  <2>2. \A w \in Workers : flight'[w] # None =>
          IF flight'[w] = r THEN x.at = w /\ x.pc \in Loading ELSE flight'[w] = flight[w]
    BY <1>2, <1>9
  <2> QED BY <1>1, <1>2, <1>4, <1>7, <1>8, <2>1, <2>2, OneReadTypes
<1>11. NoStaleRefill'
  BY <1>2, CacheKept DEF CacheInv
<1>12. Sane(y) /\ Joins(y)
  BY <1>3 DEF CacheInv
<1>13. Sane(x)
  <2>1. x.pc = "idle" => ~x.leads
    BY <1>4, <1>12 DEF Sane
  <2> QED BY <2>1, <1>4, <1>12 DEF Sane
<1>14. x.pc = "joined" => x.on # r /\ Joins(x)
  BY <1>3, <1>4, <1>12 DEF Joins, Loading
<1>15. ASSUME NEW s \in Reads, read[s].pc = "joined", read[s].on = r
       PROVE  /\ x.at = read[r].at /\ x.pc \in Loading
              /\ x.pc = "loaded" => read[s].floor <= x.val
  <2>1. Joins(read[s])
    BY DEF CacheInv
  <2> QED BY <2>1, <1>3, <1>4, <1>15 DEF Joins
<1>16. \A w \in Workers : flight'[w] # None =>
         /\ ~http
         /\ IF flight'[w] = r
            THEN x.pc = "loaded" => \A v \in Applied(w) : v <= x.val
            ELSE flight'[w] = flight[w]
  <2>1. \A w \in Workers : flight[w] # None => ~http
    BY DEF CacheInv, FlightSound
  <2> QED BY <2>1, <1>2, <1>9
<1> QED BY <1>2, <1>4, <1>10, <1>11, <1>13, <1>14, <1>15, <1>16, OneReadStep

\* What a load may store: nothing, or what is as new as everything applied.
LEMMA StoredIsFresh ==
  ASSUME CacheInv, UNCHANGED writeVars, NEW r \in Reads, NEW keep,
         read[r].pc = "loaded", cache' = CacheAfter(r, keep)
  PROVE  NoStaleRefill' /\ cache' \in [Workers -> {Absent} \cup Versions]
<1>1. cache \in [Workers -> {Absent} \cup Versions]
  BY DEF CacheInv, TypeOK
<1>2. CASE cache' = cache
  BY <1>1, <1>2, CacheKept DEF CacheInv
<1>3. CASE cache' = [cache EXCEPT ![read[r].at] = read[r].val] /\ read[r].same
  <2>1. PICK y \in ReadRecords : y = read[r]
    BY DEF CacheInv, TypeOK, ReadRecords
  <2>2. Sane(y)
    BY <2>1 DEF CacheInv
  <2>3. y.at \in Workers /\ y.val \in {Absent} \cup Versions
    BY <2>1, <2>2 DEF Sane, ReadRecords
  <2>4. \A v \in Applied(y.at) : v <= y.val
    BY <2>1, <2>2, <1>3 DEF Sane
  <2>5. cache' = [cache EXCEPT ![y.at] = y.val]
    BY <2>1, <1>3
  <2>6. cache' \in [Workers -> {Absent} \cup Versions]
    BY <2>3, <2>5, <1>1
  <2>7. \A w \in Workers : cache'[w] = IF w = y.at THEN y.val ELSE cache[w]
    BY <2>3, <2>5, <1>1
  <2>8. NoStaleRefill
    BY DEF CacheInv
  <2>9. \A w : Applied(w)' = Applied(w)
    BY AppliedKept
  <2>10. ASSUME NEW w \in Workers, cache'[w] # Absent, NEW v \in Applied(w)
         PROVE  v <= cache'[w]
    BY <2>4, <2>7, <2>8, <2>10 DEF NoStaleRefill
  <2> QED BY <2>6, <2>9, <2>10 DEF NoStaleRefill
<1> QED BY <1>2, <1>3 DEF CacheAfter, Stores

\* A middleware load that ends, stored or not.
LEMMA RespondStep ==
  ASSUME CacheInv, NEW r \in Reads,
         RespondFails(r) \/ \E keep \in BOOLEAN : Respond(r, keep)
  PROVE  CacheInv'
<1>1. TypeOK /\ UNCHANGED writeVars /\ http
  BY DEF CacheInv, RespondFails, Respond, writeVars
<1>2. full' = full /\ inflight' = inflight /\ flight' = flight
  BY DEF RespondFails, Respond, cacheVars
<1>3. PICK y \in ReadRecords : y = read[r]
  BY <1>1 DEF TypeOK, ReadRecords
<1>4. PICK end \in Ended, v \in {Absent} \cup Versions :
         /\ read' = [read EXCEPT ![r] = EndedAs(y, end, v)]
         /\ end = "ok" => y.floor <= v
  <2>1. CASE RespondFails(r)
    <3>1. read' = [read EXCEPT ![r] = EndedAs(y, "failed", Absent)]
      BY <2>1, <1>3 DEF RespondFails
    <3> QED BY <3>1 DEF Ended
  <2>2. CASE \E keep \in BOOLEAN : Respond(r, keep)
    <3>1. PICK keep \in BOOLEAN : Respond(r, keep)
      BY <2>2
    <3>2. PICK end \in Ended : end = LoadEnd(r, keep)
      BY DEF LoadEnd, Ended
    <3>3. read' = [read EXCEPT ![r] = EndedAs(y, end, y.val)]
      BY <3>1, <3>2, <1>3 DEF Respond
    <3>4. y.floor <= y.val
      BY <3>1, <1>3 DEF Respond, CacheInv, Sane
    <3>5. y.val \in {Absent} \cup Versions
      BY DEF ReadRecords
    <3> QED BY <3>3, <3>4, <3>5
  <2> QED BY <2>1, <2>2
<1>5. PICK x : x = EndedAs(y, end, v)
  OBVIOUS
<1>6. /\ x \in ReadRecords /\ x.pc = end /\ x.at = y.at /\ x.val = v
      /\ x.floor = y.floor /\ x.leads = y.leads
  BY <1>5 DEF EndedAs, ReadRecords
<1>7. read' = [read EXCEPT ![r] = x]
  BY <1>4, <1>5
<1>8. y.pc \in {"load", "loaded"} /\ Sane(y)
  BY <1>3 DEF RespondFails, Respond, CacheInv
<1>9. Sane(x) /\ x.pc # "joined"
  BY <1>4, <1>6, <1>8 DEF Sane, Running, Waiting, Ended
<1>10. NoStaleRefill' /\ cache' \in [Workers -> {Absent} \cup Versions]
  <2>1. CASE RespondFails(r)
    <3>1. cache' = cache
      BY <2>1 DEF RespondFails, cacheVars
    <3> QED BY <3>1, <1>1, CacheKept DEF CacheInv, TypeOK
  <2>2. CASE \E keep \in BOOLEAN : Respond(r, keep)
    BY <2>2, <1>1, StoredIsFresh DEF Respond
  <2> QED BY <2>1, <2>2
<1>11. r # None
  BY NoneAssumption
<1>12. \A w \in Workers : inflight'[w] # None =>
         IF inflight'[w] = r THEN x.at = w /\ x.leads ELSE inflight'[w] = inflight[w]
  BY <1>1, <1>2, <1>3, <1>6, <1>11 DEF TypeOK
<1>13. inflight' \in [Workers -> Reads \cup {None}]
  BY <1>1, <1>2 DEF TypeOK
<1> QED BY <1>1, <1>2, <1>6, <1>7, <1>9, <1>10, <1>12, <1>13, HttpStep

\* A read of getOrSet that hits, joins the flight of its worker or starts one.
LEMMA ServiceReadStep ==
  ASSUME CacheInv, NEW r \in Reads, NEW w \in Workers, ServiceRead(r, w)
  PROVE  CacheInv'
<1>1. TypeOK /\ ~http /\ read[r].pc = "idle" /\ UNCHANGED writeVars
  BY DEF ServiceRead, CacheInv
<1>2. PICK a : a = Asked(w)
  OBVIOUS
<1>3. Fits(r, a)
  BY <1>1, <1>2, AskedFits
<1>4. /\ a \in ReadRecords /\ a.at = w /\ a.floor = Floor(w)
      /\ a.floor \in Applied(w) \cup {Absent}
      /\ \A u \in Workers : inflight[u] = r => u = w /\ a.leads
  BY <1>2, <1>3 DEF Asked, Unread, Fits
<1>5. /\ \A s \in Reads : read[s].pc = "joined" => read[s].on # r
      /\ \A u \in Workers : flight[u] # r
  BY <1>1, NobodyJoined DEF Loading
<1>6. CASE Hit(r, Asked(w))
  BY <1>1, <1>2, <1>3, <1>6, HitStep
<1>7. CASE /\ cache[w] = Absent /\ flight[w] # None
           /\ read' = [read EXCEPT ![r] = [Asked(w) EXCEPT !.pc = "joined", !.on = flight[w]]]
           /\ UNCHANGED cacheVars
  <2>1. PICK l \in Reads : l = flight[w]
    BY <1>1, <1>7 DEF TypeOK
  <2>2. PICK x : x = [a EXCEPT !.pc = "joined", !.on = l]
    OBVIOUS
  <2>3. /\ x \in ReadRecords /\ x.pc = "joined" /\ x.at = w /\ x.on = l
        /\ x.floor = Floor(w) /\ x.floor \in Applied(w) \cup {Absent} /\ x.leads = a.leads
    BY <2>2, <1>4 DEF ReadRecords, Running
  <2>4. read' = [read EXCEPT ![r] = x]
    BY <2>1, <2>2, <1>2, <1>7
  <2>5. cache' = cache /\ full' = full /\ inflight' = inflight /\ flight' = flight
    BY <1>7 DEF cacheVars
  <2>6. Sane(x)
    BY <2>3, <1>1 DEF Sane, Running, Waiting
  <2>7. l # r /\ read[l].at = w /\ read[l].pc \in Loading
    BY <2>1, <1>1, <1>5, <1>7 DEF TypeOK, Loading
  <2>8. read[l].pc = "loaded" => x.floor <= read[l].val
    <3>1. SUFFICES ASSUME read[l].pc = "loaded" PROVE x.floor <= read[l].val
      OBVIOUS
    <3>2. \A v \in Applied(w) : v <= read[l].val
      BY <2>1, <3>1, <1>7 DEF CacheInv, FlightSound
    <3>3. read[l] \in ReadRecords
      BY <1>1 DEF TypeOK, ReadRecords
    <3>4. read[l].val \in {Absent} \cup Versions
      BY <3>3 DEF ReadRecords
    <3>5. 0 <= read[l].val
      BY <3>4 DEF Absent, Versions
    <3> QED BY <2>3, <3>2, <3>5 DEF Absent
  <2>9. x.on # r /\ Joins(x)
    BY <2>3, <2>7, <2>8 DEF Joins
  <2>10. NoStaleRefill'
    BY <2>5, <1>1, CacheKept DEF CacheInv
  <2>11. TypeOK'
    <3>1. /\ cache' \in [Workers -> {Absent} \cup Versions]
          /\ full' \in [Workers -> BOOLEAN]
          /\ inflight' \in [Workers -> Reads \cup {None}]
          /\ flight' \in [Workers -> Reads \cup {None}]
      BY <1>1, <2>5 DEF TypeOK
    <3>2. \A u \in Workers : inflight'[u] # None =>
            IF inflight'[u] = r THEN x.at = u /\ x.leads ELSE inflight'[u] = inflight[u]
      BY <1>4, <2>3, <2>5
    <3>3. \A u \in Workers : flight'[u] # None =>
            IF flight'[u] = r THEN x.at = u /\ x.pc \in Loading ELSE flight'[u] = flight[u]
      BY <1>5, <2>5
    <3> QED BY <1>1, <2>3, <2>4, <3>1, <3>2, <3>3, OneReadTypes
  <2>12. \A u \in Workers : flight'[u] # None =>
           /\ ~http
           /\ IF flight'[u] = r
              THEN x.pc = "loaded" => \A v \in Applied(u) : v <= x.val
              ELSE flight'[u] = flight[u]
    BY <2>3, <2>5, <1>1
  <2> QED BY <1>1, <1>5, <2>4, <2>6, <2>9, <2>10, <2>11, <2>12, OneReadStep
<1>8. CASE /\ cache[w] = Absent /\ flight[w] = None
           /\ flight' = [flight EXCEPT ![w] = r]
           /\ read' = [read EXCEPT ![r] = [Asked(w) EXCEPT !.pc = "begin"]]
           /\ UNCHANGED <<cache, full, inflight>>
  <2>1. PICK x : x = [a EXCEPT !.pc = "begin"]
    OBVIOUS
  <2>2. /\ x \in ReadRecords /\ x.pc = "begin" /\ x.at = w
        /\ x.floor \in Applied(w) \cup {Absent} /\ x.leads = a.leads
    BY <2>1, <1>4 DEF ReadRecords, Running
  <2>3. read' = [read EXCEPT ![r] = x]
    BY <2>1, <1>2, <1>8
  <2>4. Sane(x)
    BY <2>2, <1>1 DEF Sane, Running, Waiting
  <2>5. NoStaleRefill'
    BY <1>8, <1>1, CacheKept DEF CacheInv
  <2>6. \A u \in Workers : flight'[u] = IF u = w THEN r ELSE flight[u]
    BY <1>1, <1>8 DEF TypeOK
  <2>7. TypeOK'
    <3>1. /\ cache' \in [Workers -> {Absent} \cup Versions]
          /\ full' \in [Workers -> BOOLEAN]
          /\ inflight' \in [Workers -> Reads \cup {None}]
          /\ flight' \in [Workers -> Reads \cup {None}]
      BY <1>1, <1>8 DEF TypeOK
    <3>2. \A u \in Workers : inflight'[u] # None =>
            IF inflight'[u] = r THEN x.at = u /\ x.leads ELSE inflight'[u] = inflight[u]
      BY <1>4, <1>8, <2>2
    <3>3. \A u \in Workers : flight'[u] # None =>
            IF flight'[u] = r THEN x.at = u /\ x.pc \in Loading ELSE flight'[u] = flight[u]
      BY <1>5, <2>2, <2>6 DEF Loading
    <3> QED BY <1>1, <2>2, <2>3, <3>1, <3>2, <3>3, OneReadTypes
  <2>8. \A u \in Workers : flight'[u] # None =>
          /\ ~http
          /\ IF flight'[u] = r
             THEN x.pc = "loaded" => \A v \in Applied(u) : v <= x.val
             ELSE flight'[u] = flight[u]
    BY <2>2, <2>6, <1>1
  <2>9. x.pc # "joined"
    BY <2>2
  <2> QED BY <1>1, <1>5, <2>3, <2>4, <2>5, <2>7, <2>8, <2>9, OneReadStep
<1> QED BY <1>6, <1>7, <1>8 DEF ServiceRead

\* A flight that ends, and everyone who shares its promise with it.
LEMMA SharedStep ==
  ASSUME CacheInv, UNCHANGED writeVars, ~http,
         NEW r \in Reads, read[r].pc \in Loading,
         NEW end \in Ended, NEW v \in {Absent} \cup Versions,
         Shared(r, end, v), FlightOver(r), full' = full, inflight' = inflight,
         NoStaleRefill', cache' \in [Workers -> {Absent} \cup Versions],
         end = "ok" => \A s \in Reads :
           s = r \/ (read[s].pc = "joined" /\ read[s].on = r) => read[s].floor <= v
  PROVE  CacheInv'
<1> DEFINE Ends(s) == s = r \/ (read[s].pc = "joined" /\ read[s].on = r)
<1>1. TypeOK
  BY DEF CacheInv
<1>2. read \in [Reads -> ReadRecords]
  BY <1>1 DEF TypeOK, ReadRecords
<1>3. \A s \in Reads : read'[s] = IF Ends(s) THEN EndedAs(read[s], end, v) ELSE read[s]
  BY DEF Shared
<1>4. ASSUME NEW s \in Reads
      PROVE  /\ read'[s] \in ReadRecords
             /\ read'[s].at = read[s].at /\ read'[s].leads = read[s].leads
             /\ read'[s].floor = read[s].floor
             /\ Ends(s) => read'[s].pc = end /\ read'[s].val = v
  <2>1. PICK y \in ReadRecords : y = read[s]
    BY <1>2
  <2>2. PICK x : x = EndedAs(y, end, v)
    OBVIOUS
  <2>3. /\ x \in ReadRecords /\ x.at = y.at /\ x.leads = y.leads /\ x.floor = y.floor
        /\ x.pc = end /\ x.val = v
    BY <2>2 DEF EndedAs, ReadRecords
  <2> QED BY <2>1, <2>2, <2>3, <1>3
<1>5. \A s \in Reads : ~Ends(s) => read'[s] = read[s]
  BY <1>3
<1>6. \A s \in Reads : read[s].pc \in Loading /\ s # r => ~Ends(s)
  BY DEF Loading
<1>7. r # None
  BY NoneAssumption
<1>8. ASSUME NEW w \in Workers, flight'[w] # None
      PROVE  /\ flight'[w] = flight[w] /\ flight[w] \in Reads
             /\ read'[flight[w]] = read[flight[w]]
             /\ read[flight[w]].at = w /\ read[flight[w]].pc \in Loading
  <2>1. flight'[w] = flight[w] /\ flight[w] \in Reads
    <3>1. read[r].at \in Workers \cup {None}
      BY <1>2 DEF ReadRecords
    <3> QED BY <1>1, <1>8 DEF FlightOver, TypeOK
  <2>2. read[flight[w]].at = w /\ read[flight[w]].pc \in Loading
    BY <2>1, <1>1, <1>8 DEF TypeOK, Loading
  <2>3. flight[w] # r
    BY <2>2, <1>1, <1>7, <1>8 DEF FlightOver, TypeOK
  <2> QED BY <2>1, <2>2, <2>3, <1>5, <1>6
<1> HIDE DEF Ends
<1>9. http' = http /\ \A w : Applied(w)' = Applied(w)
  BY AppliedKept
<1>10. TypeOK'
  <2>1. \A w \in Workers : inflight'[w] # None =>
          read'[inflight'[w]].at = w /\ read'[inflight'[w]].leads
    <3>1. \A w \in Workers : inflight[w] # None =>
            inflight[w] \in Reads /\ read[inflight[w]].at = w /\ read[inflight[w]].leads
      BY <1>1 DEF TypeOK
    <3> QED BY <3>1, <1>4
  <2>2. \A w \in Workers : flight'[w] # None =>
          read'[flight'[w]].at = w /\ read'[flight'[w]].pc \in {"begin", "load", "loaded"}
    BY <1>8 DEF Loading
  <2>3. read' \in [Reads -> ReadRecords]
    BY <1>4 DEF Shared
  <2>4. /\ http' \in BOOLEAN /\ db' \in Versions
        /\ todo' \in [Workers -> SUBSET Versions]
        /\ transit' \in [Workers -> SUBSET Versions]
        /\ lost' \in [Workers -> SUBSET Versions]
    BY <1>1 DEF TypeOK, writeVars
  <2>5. full' \in [Workers -> BOOLEAN] /\ inflight' \in [Workers -> Reads \cup {None}]
    BY <1>1 DEF TypeOK
  <2>6. flight' \in [Workers -> Reads \cup {None}]
    BY <1>1 DEF TypeOK, FlightOver
  <2> QED BY <2>1, <2>2, <2>3, <2>4, <2>5, <2>6 DEF TypeOK, ReadRecords
<1>11. ASSUME NEW s \in Reads PROVE Sane(read[s])'
  <2>1. PICK x \in ReadRecords : x = read'[s]
    BY <1>4
  <2>2. Sane(x)
    <3>1. CASE Ends(s)
      <4>1. Sane(read[s])
        BY DEF CacheInv
      <4>2. read[s].pc \in Running \ Waiting
        BY <3>1 DEF Ends, Loading, Running, Waiting
      <4>3. x.at \in Workers
        BY <4>1, <4>2, <2>1, <1>4 DEF Sane, Running
      <4>4. x.pc = end /\ x.val = v /\ (end = "ok" => x.floor <= v)
        BY <3>1, <2>1, <1>4 DEF Ends
      <4> QED BY <4>3, <4>4 DEF Sane, Running, Waiting, Ended
    <3>2. CASE ~Ends(s)
      BY <3>2, <2>1, <1>5 DEF CacheInv
    <3> QED BY <3>1, <3>2
  <2> QED BY <2>1, <2>2, <1>9 DEF Sane
<1>12. ASSUME NEW s \in Reads PROVE Joins(read[s])'
  <2>1. PICK x : x = read'[s]
    OBVIOUS
  <2>2. SUFFICES ASSUME x.pc = "joined"
                 PROVE  /\ x.on \in Reads /\ read'[x.on].at = x.at /\ read'[x.on].pc \in Loading
                        /\ read'[x.on].pc = "loaded" => x.floor <= read'[x.on].val
    BY <2>1 DEF Joins
  <2>3. ~Ends(s)
    BY <2>1, <2>2, <1>4 DEF Ended
  <2>4. x = read[s] /\ Joins(x)
    BY <2>1, <2>3, <1>5 DEF CacheInv
  <2>5. x.on \in Reads /\ x.on # r /\ read[x.on].pc \in Loading
    BY <2>2, <2>3, <2>4 DEF Ends, Joins
  <2>6. read'[x.on] = read[x.on]
    BY <2>5, <1>5, <1>6
  <2> QED BY <2>2, <2>4, <2>6 DEF Joins
<1>13. ASSUME NEW w \in Workers PROVE FlightSound(w)'
  <2>1. SUFFICES ASSUME flight'[w] # None
                 PROVE  /\ ~http'
                        /\ read'[flight'[w]].pc = "loaded" =>
                             \A u \in Applied(w)' : u <= read'[flight'[w]].val
    BY DEF FlightSound
  <2>2. flight'[w] = flight[w] /\ read'[flight[w]] = read[flight[w]]
    BY <2>1, <1>8
  <2>3. FlightSound(w)
    BY DEF CacheInv
  <2> QED BY <2>1, <2>2, <2>3, <1>9 DEF FlightSound
<1> QED BY <1>10, <1>11, <1>12, <1>13 DEF CacheInv

\* The loader's microtask: it finds the key cached, or starts to load.
LEMMA BeginStep ==
  ASSUME CacheInv, NEW r \in Reads, Begin(r)
  PROVE  CacheInv'
<1>1. TypeOK /\ UNCHANGED writeVars /\ read[r].pc = "begin"
      /\ cache' = cache /\ full' = full /\ inflight' = inflight
  BY DEF CacheInv, Begin, writeVars
<1>2. PICK y \in ReadRecords : y = read[r]
  BY <1>1 DEF TypeOK, ReadRecords
<1>3. Sane(y) /\ y.pc = "begin"
  BY <1>1, <1>2 DEF CacheInv
<1>4. ~http /\ y.at \in Workers /\ y.floor \in Applied(y.at) \cup {Absent}
  BY <1>3 DEF Sane, Running
<1>5. NoStaleRefill' /\ cache' \in [Workers -> {Absent} \cup Versions]
  BY <1>1, CacheKept DEF CacheInv, TypeOK
<1>6. CASE cache[y.at] # Absent /\ Shared(r, "ok", cache[y.at]) /\ FlightOver(r)
  <2>1. PICK c \in Versions : c = cache[y.at]
    BY <1>1, <1>4, <1>6 DEF TypeOK
  <2>2. \A v \in Applied(y.at) : v <= c
    BY <2>1, <1>4, <1>6 DEF CacheInv, NoStaleRefill
  <2>3. 0 <= c
    BY DEF Versions
  <2>4. ASSUME NEW s \in Reads, s = r \/ (read[s].pc = "joined" /\ read[s].on = r)
        PROVE  read[s].floor <= c
    <3>1. read[s].floor \in Applied(y.at) \cup {Absent}
      <4>1. CASE s = r
        BY <4>1, <1>2, <1>4
      <4>2. CASE read[s].pc = "joined" /\ read[s].on = r
        <5>1. Sane(read[s]) /\ Joins(read[s])
          BY DEF CacheInv
        <5>2. read[s].at = y.at
          BY <5>1, <4>2, <1>2 DEF Joins
        <5> QED BY <5>1, <5>2, <4>2 DEF Sane, Running
      <4> QED BY <4>1, <4>2, <2>4
    <3> QED BY <3>1, <2>2, <2>3 DEF Absent
  <2>5. Shared(r, "ok", c) /\ FlightOver(r)
    BY <1>6, <2>1
  <2>6. "ok" \in Ended /\ read[r].pc \in Loading /\ c \in {Absent} \cup Versions
    BY <1>1 DEF Ended, Loading
  <2> QED BY <1>1, <1>4, <1>5, <2>4, <2>5, <2>6, SharedStep
<1>7. CASE /\ cache[y.at] = Absent
           /\ read' = [read EXCEPT ![r].pc = "load", ![r].same = TRUE]
           /\ UNCHANGED flight
  <2>1. PICK x : x = [y EXCEPT !.pc = "load", !.same = TRUE]
    OBVIOUS
  <2>2. /\ x \in ReadRecords /\ x.pc = "load" /\ x.at = y.at /\ x.floor = y.floor
        /\ x.leads = y.leads
    BY <2>1 DEF ReadRecords, Running
  <2>3. read' = [read EXCEPT ![r] = x]
    <3>1. [read EXCEPT ![r].pc = "load", ![r].same = TRUE] = [read EXCEPT ![r] = x]
      BY <1>1, <1>2, <2>1 DEF TypeOK
    <3> QED BY <3>1, <1>7
  <2>4. Sane(x) /\ x.pc # "joined" /\ x.pc \in Loading
    BY <2>2, <1>4 DEF Sane, Running, Waiting, Loading
  <2>5. r # None
    BY NoneAssumption
  <2>6. TypeOK'
    <3>1. \A w \in Workers : inflight'[w] # None =>
            IF inflight'[w] = r THEN x.at = w /\ x.leads ELSE inflight'[w] = inflight[w]
      BY <1>1, <1>2, <2>2, <2>5 DEF TypeOK
    <3>2. \A w \in Workers : flight'[w] # None =>
            IF flight'[w] = r THEN x.at = w /\ x.pc \in Loading ELSE flight'[w] = flight[w]
      BY <1>1, <1>2, <1>7, <2>2, <2>4, <2>5 DEF TypeOK
    <3>3. /\ full' \in [Workers -> BOOLEAN]
          /\ inflight' \in [Workers -> Reads \cup {None}]
          /\ flight' \in [Workers -> Reads \cup {None}]
      BY <1>1, <1>7 DEF TypeOK
    <3> QED BY <1>1, <1>5, <2>2, <2>3, <3>1, <3>2, <3>3, OneReadTypes
  <2>7. \A s \in Reads : read[s].pc = "joined" /\ read[s].on = r =>
          /\ x.at = read[r].at /\ x.pc \in Loading
          /\ x.pc = "loaded" => read[s].floor <= x.val
    BY <1>2, <2>2, <2>4
  <2>8. \A w \in Workers : flight'[w] # None =>
          /\ ~http
          /\ IF flight'[w] = r
             THEN x.pc = "loaded" => \A v \in Applied(w) : v <= x.val
             ELSE flight'[w] = flight[w]
    BY <1>4, <1>7, <2>2
  <2> QED BY <1>1, <1>5, <2>3, <2>4, <2>6, <2>7, <2>8, OneReadStep
<1> QED BY <1>2, <1>6, <1>7 DEF Begin

\* A flight whose load is answered or has failed.
LEMMA EndStep ==
  ASSUME CacheInv, NEW r \in Reads,
         LoadFails(r) \/ \E keep \in BOOLEAN : Finish(r, keep)
  PROVE  CacheInv'
<1>1. TypeOK /\ UNCHANGED writeVars /\ ~http /\ read[r].pc \in Loading
      /\ full' = full /\ inflight' = inflight /\ FlightOver(r)
  BY DEF CacheInv, LoadFails, Finish, writeVars, Loading
<1>2. CASE LoadFails(r)
  <2>1. NoStaleRefill' /\ cache' \in [Workers -> {Absent} \cup Versions]
    BY <1>1, <1>2, CacheKept DEF CacheInv, TypeOK, LoadFails
  <2>2. Shared(r, "failed", Absent)
    BY <1>2 DEF LoadFails
  <2>3. "failed" \in Ended /\ "failed" # "ok" /\ Absent \in {Absent} \cup Versions
    BY DEF Ended
  <2> QED BY <1>1, <2>1, <2>2, <2>3, SharedStep
<1>3. CASE \E keep \in BOOLEAN : Finish(r, keep)
  <2>1. PICK keep \in BOOLEAN : Finish(r, keep)
    BY <1>3
  <2>2. PICK end \in Ended : end = LoadEnd(r, keep)
    BY DEF LoadEnd, Ended
  <2>3. PICK v \in {Absent} \cup Versions : v = read[r].val
    <3>1. read[r] \in ReadRecords
      BY <1>1 DEF TypeOK, ReadRecords
    <3> QED BY <3>1 DEF ReadRecords
  <2>4. Shared(r, end, v) /\ read[r].pc = "loaded" /\ cache' = CacheAfter(r, keep)
    BY <2>1, <2>2, <2>3 DEF Finish
  <2>5. NoStaleRefill' /\ cache' \in [Workers -> {Absent} \cup Versions]
    BY <1>1, <2>4, StoredIsFresh
  <2>6. ASSUME NEW s \in Reads, s = r \/ (read[s].pc = "joined" /\ read[s].on = r)
        PROVE  read[s].floor <= v
    <3>1. Sane(read[s]) /\ Joins(read[s])
      BY DEF CacheInv
    <3> QED BY <3>1, <2>3, <2>4, <2>6 DEF Sane, Joins
  <2> QED BY <1>1, <2>4, <2>5, <2>6, SharedStep
<1> QED BY <1>2, <1>3

-----------------------------------------------------------------------------
(* Writes and their invalidation.                                          *)

\* The versions u has still to apply, or will never apply.
Owed(u) == lost[u] \cup transit[u] \cup UNION {todo[t] : t \in Workers}

LEMMA AppliedIsNotOwed ==
  ASSUME NEW u
  PROVE  /\ Applied(u) = 1..db \ Owed(u)
         /\ Applied(u)' = 1..db' \ Owed(u)'
BY DEF Applied, Owed

\* A commit, or an invalidation that is lost, makes nobody apply a version.
LEMMA AppliedSame ==
  ASSUME TypeOK, NEW w \in Workers,
         Write(w) \/ InvalidationSkipped(w) \/ RelayLost(w)
  PROVE  \A u \in Workers : Applied(u)' = Applied(u)
<1>1. db \in Nat
  BY AppliedVersions
<1>2. /\ todo \in [Workers -> SUBSET Versions]
      /\ transit \in [Workers -> SUBSET Versions]
      /\ lost \in [Workers -> SUBSET Versions]
  BY DEF TypeOK
<1>3. CASE Write(w)
  <2>1. db' = db + 1 /\ transit' = transit /\ lost' = lost
        /\ todo' = [todo EXCEPT ![w] = @ \cup {db + 1}]
    BY <1>3 DEF Write
  <2>2. \A t \in Workers : todo'[t] = IF t = w THEN todo[w] \cup {db + 1} ELSE todo[t]
    BY <2>1, <1>2
  <2>3. \A u \in Workers : Owed(u)' = Owed(u) \cup {db + 1}
    BY <2>1, <2>2 DEF Owed
  <2>4. 1..(db + 1) = 1..db \cup {db + 1} /\ db + 1 \notin 1..db
    BY <1>1
  <2> QED BY <2>1, <2>3, <2>4, AppliedIsNotOwed
<1>4. CASE InvalidationSkipped(w)
  <2>1. PICK v \in todo[w] :
          /\ todo' = [todo EXCEPT ![w] = @ \ {v}]
          /\ lost' = [u \in Workers |-> lost[u] \cup {v}]
          /\ db' = db /\ transit' = transit
    BY <1>4 DEF InvalidationSkipped
  <2>2. \A t \in Workers : todo'[t] = IF t = w THEN todo[w] \ {v} ELSE todo[t]
    BY <2>1, <1>2
  <2>3. \A u \in Workers : Owed(u)' = Owed(u)
    BY <2>1, <2>2 DEF Owed
  <2> QED BY <2>1, <2>3, AppliedIsNotOwed
<1>5. CASE RelayLost(w)
  <2>1. PICK v \in transit[w] :
          /\ transit' = [transit EXCEPT ![w] = @ \ {v}]
          /\ lost' = [lost EXCEPT ![w] = @ \cup {v}]
          /\ db' = db /\ todo' = todo
    BY <1>5 DEF RelayLost
  <2>2. \A u \in Workers : Owed(u)' = Owed(u)
    BY <2>1, <1>2 DEF Owed
  <2> QED BY <2>1, <2>2, AppliedIsNotOwed
<1> QED BY <1>3, <1>4, <1>5

\* To invalidate, here or for the relay, makes this worker apply more, and no other.
LEMMA AppliedHere ==
  ASSUME TypeOK, NEW w \in Workers, Invalidate(w) \/ RelayApplies(w)
  PROVE  /\ Applied(w) \subseteq Applied(w)'
         /\ \A u \in Workers : u # w => Applied(u)' = Applied(u)
<1>1. /\ todo \in [Workers -> SUBSET Versions]
      /\ transit \in [Workers -> SUBSET Versions]
  BY DEF TypeOK
<1>2. CASE Invalidate(w)
  <2>1. PICK v \in todo[w] :
          /\ todo' = [todo EXCEPT ![w] = @ \ {v}]
          /\ transit' = [u \in Workers |-> IF u = w THEN transit[u] ELSE transit[u] \cup {v}]
          /\ db' = db /\ lost' = lost
    BY <1>2 DEF Invalidate
  <2>2. \A t \in Workers : todo'[t] = IF t = w THEN todo[w] \ {v} ELSE todo[t]
    BY <2>1, <1>1
  <2>3. Owed(w)' \subseteq Owed(w)
    BY <2>1, <2>2 DEF Owed
  <2>4. \A u \in Workers : u # w => Owed(u)' = Owed(u)
    BY <2>1, <2>2 DEF Owed
  <2> QED BY <2>1, <2>3, <2>4, AppliedIsNotOwed
<1>3. CASE RelayApplies(w)
  <2>1. PICK v \in transit[w] :
          /\ transit' = [transit EXCEPT ![w] = @ \ {v}]
          /\ db' = db /\ todo' = todo /\ lost' = lost
    BY <1>3 DEF RelayApplies
  <2>2. \A u \in Workers : transit'[u] = IF u = w THEN transit[w] \ {v} ELSE transit[u]
    BY <2>1, <1>1
  <2>3. Owed(w)' \subseteq Owed(w)
    BY <2>1, <2>2 DEF Owed
  <2>4. \A u \in Workers : u # w => Owed(u)' = Owed(u)
    BY <2>1, <2>2 DEF Owed
  <2> QED BY <2>1, <2>3, <2>4, AppliedIsNotOwed
<1> QED BY <1>2, <1>3

\* What a dead worker owed is lost for the others: they apply no more than before.
LEMMA AppliedByOthers ==
  ASSUME TypeOK, NEW w \in Workers, WorkerDies(w)
  PROVE  \A u \in Workers : u # w => Applied(u)' = Applied(u)
<1>1. /\ todo \in [Workers -> SUBSET Versions]
      /\ transit \in [Workers -> SUBSET Versions]
  BY DEF TypeOK
<1>2. /\ todo' = [todo EXCEPT ![w] = {}]
      /\ transit' = [transit EXCEPT ![w] = {}]
      /\ lost' = [u \in Workers |-> IF u = w THEN {} ELSE lost[u] \cup todo[w]]
      /\ db' = db
  BY DEF WorkerDies
<1>3. \A t \in Workers : todo'[t] = IF t = w THEN {} ELSE todo[t]
  BY <1>1, <1>2
<1>4. \A u \in Workers : u # w => transit'[u] = transit[u] /\ lost'[u] = lost[u] \cup todo[w]
  BY <1>1, <1>2
<1>5. \A u \in Workers : u # w => Owed(u)' = Owed(u)
  BY <1>3, <1>4 DEF Owed
<1> QED BY <1>2, <1>5, AppliedIsNotOwed

\* The types of what writes change.
LEMMA WriteTypes ==
  ASSUME TypeOK, NEW w \in Workers,
         \/ Write(w) \/ Invalidate(w) \/ RelayApplies(w)
         \/ InvalidationSkipped(w) \/ RelayLost(w) \/ WorkerDies(w)
  PROVE  /\ http' = http /\ http' \in BOOLEAN /\ db' \in Versions
         /\ todo' \in [Workers -> SUBSET Versions]
         /\ transit' \in [Workers -> SUBSET Versions]
         /\ lost' \in [Workers -> SUBSET Versions]
<1>1. /\ http \in BOOLEAN /\ db \in Versions
      /\ todo \in [Workers -> SUBSET Versions]
      /\ transit \in [Workers -> SUBSET Versions]
      /\ lost \in [Workers -> SUBSET Versions]
  BY DEF TypeOK
<1>2. CASE Write(w)
  <2>1. db' = db + 1 /\ http' = http /\ transit' = transit /\ lost' = lost
        /\ todo' = [todo EXCEPT ![w] = @ \cup {db + 1}] /\ db < MaxVersion
    BY <1>2 DEF Write
  <2>2. db + 1 \in Versions
    BY <2>1, <1>1, BoundAssumption DEF Versions
  <2> QED BY <2>1, <2>2, <1>1
<1>3. CASE Invalidate(w)
  BY <1>1, <1>3 DEF Invalidate
<1>4. CASE RelayApplies(w)
  BY <1>1, <1>4 DEF RelayApplies
<1>5. CASE InvalidationSkipped(w)
  BY <1>1, <1>5 DEF InvalidationSkipped
<1>6. CASE RelayLost(w)
  BY <1>1, <1>6 DEF RelayLost
<1>7. CASE WorkerDies(w)
  BY <1>1, <1>7 DEF WorkerDies
<1> QED BY <1>2, <1>3, <1>4, <1>5, <1>6, <1>7

\* A commit, and an invalidation that is lost, leave what was sound sound.
LEMMA CommitStep ==
  ASSUME CacheInv, NEW w \in Workers,
         Write(w) \/ InvalidationSkipped(w) \/ RelayLost(w)
  PROVE  CacheInv'
<1>1. /\ cache' = cache /\ full' = full /\ inflight' = inflight /\ flight' = flight
      /\ read' = read
  BY DEF Write, InvalidationSkipped, RelayLost, cacheVars
<1>2. TypeOK
  BY DEF CacheInv
<1>3. \A u \in Workers : Applied(u)' = Applied(u)
  BY <1>2, AppliedSame
<1>4. http' = http /\ http' \in BOOLEAN /\ db' \in Versions
      /\ todo' \in [Workers -> SUBSET Versions]
      /\ transit' \in [Workers -> SUBSET Versions]
      /\ lost' \in [Workers -> SUBSET Versions]
  BY <1>2, WriteTypes
<1>5. TypeOK'
  BY <1>1, <1>2, <1>4 DEF TypeOK
<1>6. NoStaleRefill'
  BY <1>1, <1>3 DEF CacheInv, NoStaleRefill
<1>7. ASSUME NEW r \in Reads PROVE Sane(read[r])' /\ Joins(read[r])'
  <2>1. PICK x \in ReadRecords : x = read[r]
    BY <1>2 DEF TypeOK, ReadRecords
  <2>2. Sane(x) /\ Joins(x)
    BY <2>1 DEF CacheInv
  <2>3. x.at \in Workers => Applied(x.at)' = Applied(x.at)
    BY <1>3
  <2>4. read'[r] = x
    BY <1>1, <2>1
  <2>5. Sane(read[r])'
    BY <2>2, <2>3, <2>4, <1>4 DEF Sane, Running
  <2>6. Joins(read[r])'
    BY <2>2, <2>4, <1>1 DEF Joins
  <2> QED BY <2>5, <2>6
<1>8. \A u \in Workers : FlightSound(u)'
  BY <1>1, <1>3, <1>4 DEF CacheInv, FlightSound
<1> QED BY <1>5, <1>6, <1>7, <1>8 DEF CacheInv

\* An invalidation empties the cache of its worker, starts a new generation and
\* a new flight there; what loads go on there may no longer be stored.
LEMMA ClearStep ==
  ASSUME CacheInv, NEW w \in Workers, Invalidate(w) \/ RelayApplies(w)
  PROVE  CacheInv'
<1>1. TypeOK /\ Clears(w)
  BY DEF CacheInv, Invalidate, RelayApplies
<1>2. read \in [Reads -> ReadRecords]
  BY <1>1 DEF TypeOK, ReadRecords
<1>3. Applied(w) \subseteq Applied(w)'
      /\ \A u \in Workers : u # w => Applied(u)' = Applied(u)
  BY <1>1, AppliedHere
<1>4. http' = http /\ http' \in BOOLEAN /\ db' \in Versions
      /\ todo' \in [Workers -> SUBSET Versions]
      /\ transit' \in [Workers -> SUBSET Versions]
      /\ lost' \in [Workers -> SUBSET Versions]
  BY <1>1, WriteTypes
<1>5. /\ cache' = [cache EXCEPT ![w] = Absent]
      /\ full' = [full EXCEPT ![w] = @ /\ cache[w] = Absent]
      /\ flight' = [flight EXCEPT ![w] = None]
      /\ inflight' = inflight
      /\ read' = [r \in Reads |-> IF read[r].at # w THEN read[r] ELSE
                    [read[r] EXCEPT !.same = FALSE, !.fresh = FALSE]]
  BY <1>1 DEF Clears
<1>6. ASSUME NEW r \in Reads
      PROVE  /\ read'[r] \in ReadRecords
             /\ read'[r].pc = read[r].pc /\ read'[r].at = read[r].at
             /\ read'[r].on = read[r].on /\ read'[r].val = read[r].val
             /\ read'[r].floor = read[r].floor /\ read'[r].leads = read[r].leads
             /\ IF read[r].at = w THEN ~read'[r].same ELSE read'[r] = read[r]
  <2>1. PICK y \in ReadRecords : y = read[r]
    BY <1>2
  <2>2. PICK x : x = [y EXCEPT !.same = FALSE, !.fresh = FALSE]
    OBVIOUS
  <2>3. /\ x \in ReadRecords /\ x.pc = y.pc /\ x.at = y.at /\ x.on = y.on
        /\ x.val = y.val /\ x.floor = y.floor /\ x.leads = y.leads /\ ~x.same
    BY <2>2 DEF ReadRecords
  <2>4. read'[r] = IF y.at # w THEN y ELSE x
    BY <1>5, <2>1, <2>2
  <2> QED BY <2>1, <2>3, <2>4
<1>7. \A u \in Workers : /\ cache'[u] = IF u = w THEN Absent ELSE cache[u]
                         /\ flight'[u] = IF u = w THEN None ELSE flight[u]
  BY <1>1, <1>5 DEF TypeOK
<1>8. TypeOK'
  <2>1. read' \in [Reads -> ReadRecords]
    BY <1>5, <1>6
  <2>2. ASSUME NEW u \in Workers, inflight'[u] # None
        PROVE  read'[inflight'[u]].at = u /\ read'[inflight'[u]].leads
    <3>1. inflight'[u] = inflight[u]
      BY <1>5
    <3>2. inflight[u] \in Reads /\ read[inflight[u]].at = u /\ read[inflight[u]].leads
      BY <2>2, <3>1, <1>1 DEF TypeOK
    <3> QED BY <3>1, <3>2, <1>6
  <2>3. \A u \in Workers : flight'[u] # None =>
          read'[flight'[u]].at = u /\ read'[flight'[u]].pc \in {"begin", "load", "loaded"}
    <3>1. \A u \in Workers : flight[u] # None => flight[u] \in Reads
            /\ read[flight[u]].at = u /\ read[flight[u]].pc \in {"begin", "load", "loaded"}
      BY <1>1 DEF TypeOK
    <3> QED BY <3>1, <1>6, <1>7
  <2>4. /\ cache' \in [Workers -> {Absent} \cup Versions]
        /\ full' \in [Workers -> BOOLEAN]
        /\ inflight' \in [Workers -> Reads \cup {None}]
        /\ flight' \in [Workers -> Reads \cup {None}]
    BY <1>1, <1>5 DEF TypeOK
  <2> QED BY <1>4, <2>1, <2>2, <2>3, <2>4 DEF TypeOK, ReadRecords
<1>9. NoStaleRefill'
  BY <1>3, <1>7 DEF CacheInv, NoStaleRefill
<1>10. ASSUME NEW r \in Reads PROVE Sane(read[r])' /\ Joins(read[r])'
  <2>1. PICK x \in ReadRecords : x = read'[r]
    BY <1>6
  <2>2. PICK y \in ReadRecords : y = read[r]
    BY <1>2
  <2>3. /\ x.pc = y.pc /\ x.at = y.at /\ x.on = y.on /\ x.val = y.val
        /\ x.floor = y.floor /\ x.leads = y.leads
        /\ IF y.at = w THEN ~x.same ELSE x.same = y.same
    BY <1>6, <2>1, <2>2
  <2>4. Sane(y) /\ Joins(y)
    BY <2>2 DEF CacheInv
  <2>5. Sane(read[r])'
    <3>1. x.pc # "idle" => x.at \in Workers
      BY <2>3, <2>4 DEF Sane
    <3>2. x.pc \in Running => x.floor \in Applied(x.at)' \cup {Absent}
      <4>1. x.pc \in Running => x.floor \in Applied(x.at) \cup {Absent} /\ x.at \in Workers
        BY <2>3, <2>4 DEF Sane, Running
      <4> QED BY <4>1, <1>3
    <3>3. x.pc = "loaded" /\ x.same => \A v \in Applied(x.at)' : v <= x.val
      <4>1. SUFFICES ASSUME x.pc = "loaded", x.same PROVE \A v \in Applied(x.at)' : v <= x.val
        OBVIOUS
      <4>2. y.at # w /\ y.same
        BY <4>1, <2>3
      <4>3. Applied(y.at)' = Applied(y.at)
        BY <4>1, <4>2, <3>1, <2>3, <1>3
      <4> QED BY <4>1, <4>2, <4>3, <2>3, <2>4 DEF Sane
    <3> QED BY <2>1, <2>3, <2>4, <3>1, <3>2, <3>3, <1>4 DEF Sane
  <2>6. Joins(read[r])'
    <3>1. SUFFICES ASSUME x.pc = "joined"
                   PROVE  /\ x.on \in Reads /\ read'[x.on].at = x.at /\ read'[x.on].pc \in Loading
                          /\ read'[x.on].pc = "loaded" => x.floor <= read'[x.on].val
      BY <2>1 DEF Joins
    <3>2. x.on \in Reads
      BY <3>1, <2>3, <2>4 DEF Joins
    <3> QED BY <3>1, <3>2, <2>3, <2>4, <1>6 DEF Joins
  <2> QED BY <2>5, <2>6
<1>11. ASSUME NEW u \in Workers PROVE FlightSound(u)'
  <2>1. SUFFICES ASSUME flight'[u] # None
                 PROVE  /\ ~http'
                        /\ read'[flight'[u]].pc = "loaded" =>
                             \A v \in Applied(u)' : v <= read'[flight'[u]].val
    BY DEF FlightSound
  <2>2. u # w /\ flight'[u] = flight[u] /\ flight[u] \in Reads
    BY <2>1, <1>1, <1>7 DEF TypeOK
  <2>3. FlightSound(u)
    BY DEF CacheInv
  <2> QED BY <2>1, <2>2, <2>3, <1>3, <1>4, <1>6 DEF FlightSound
<1> QED BY <1>8, <1>9, <1>10, <1>11 DEF CacheInv

\* A worker that dies ends its reads and starts with nothing.
LEMMA DeathStep ==
  ASSUME CacheInv, NEW w \in Workers, WorkerDies(w)
  PROVE  CacheInv'
<1>1. TypeOK
  BY DEF CacheInv
<1>2. read \in [Reads -> ReadRecords]
  BY <1>1 DEF TypeOK, ReadRecords
<1>3. \A u \in Workers : u # w => Applied(u)' = Applied(u)
  BY <1>1, AppliedByOthers
<1>4. http' = http /\ http' \in BOOLEAN /\ db' \in Versions
      /\ todo' \in [Workers -> SUBSET Versions]
      /\ transit' \in [Workers -> SUBSET Versions]
      /\ lost' \in [Workers -> SUBSET Versions]
  BY <1>1, WriteTypes
<1>5. /\ cache' = [cache EXCEPT ![w] = Absent]
      /\ full' = [full EXCEPT ![w] = FALSE]
      /\ inflight' = [inflight EXCEPT ![w] = None]
      /\ flight' = [flight EXCEPT ![w] = None]
      /\ read' = [r \in Reads |->
           IF read[r].at # w THEN read[r]
           ELSE IF read[r].pc \in Running
           THEN [EndedAs(read[r], "failed", Absent) EXCEPT !.leads = FALSE]
           ELSE [read[r] EXCEPT !.leads = FALSE]]
  BY DEF WorkerDies
<1>6. ASSUME NEW r \in Reads, read[r].at # w
      PROVE  read'[r] = read[r]
  BY <1>5, <1>6
<1>7. ASSUME NEW r \in Reads, read[r].at = w
      PROVE  /\ read'[r] \in ReadRecords /\ read'[r].at = w /\ ~read'[r].leads
             /\ read'[r].pc \notin Running
             /\ \/ read'[r].pc = "failed"
                \/ /\ read'[r].pc = read[r].pc
                   /\ read'[r].floor = read[r].floor /\ read'[r].val = read[r].val
  <2>1. PICK y \in ReadRecords : y = read[r]
    BY <1>2
  <2>2. CASE y.pc \in Running
    <3>1. PICK x : x = [EndedAs(y, "failed", Absent) EXCEPT !.leads = FALSE]
      OBVIOUS
    <3>2. x \in ReadRecords /\ x.at = y.at /\ ~x.leads /\ x.pc = "failed"
      BY <3>1 DEF EndedAs, ReadRecords, Ended
    <3>3. read'[r] = x
      BY <3>1, <2>1, <2>2, <1>5, <1>7
    <3> QED BY <3>2, <3>3, <2>1, <1>7 DEF Running
  <2>3. CASE y.pc \notin Running
    <3>1. PICK x : x = [y EXCEPT !.leads = FALSE]
      OBVIOUS
    <3>2. /\ x \in ReadRecords /\ x.at = y.at /\ ~x.leads /\ x.pc = y.pc
          /\ x.floor = y.floor /\ x.val = y.val
      BY <3>1 DEF ReadRecords
    <3>3. read'[r] = x
      BY <3>1, <2>1, <2>3, <1>5, <1>7
    <3> QED BY <3>2, <3>3, <2>1, <2>3, <1>7
  <2> QED BY <2>2, <2>3
<1>8. \A u \in Workers : /\ cache'[u] = IF u = w THEN Absent ELSE cache[u]
                         /\ flight'[u] = IF u = w THEN None ELSE flight[u]
                         /\ inflight'[u] = IF u = w THEN None ELSE inflight[u]
  BY <1>1, <1>5 DEF TypeOK
<1>9. TypeOK'
  <2>1. \A r \in Reads : read'[r] \in ReadRecords
    BY <1>2, <1>6, <1>7
  <2>2. read' \in [Reads -> ReadRecords]
    BY <2>1, <1>5
  <2>3. ASSUME NEW u \in Workers, inflight'[u] # None
        PROVE  read'[inflight'[u]].at = u /\ read'[inflight'[u]].leads
    <3>1. u # w /\ inflight'[u] = inflight[u]
      BY <2>3, <1>8
    <3>2. inflight[u] \in Reads /\ read[inflight[u]].at = u /\ read[inflight[u]].leads
      BY <2>3, <3>1, <1>1 DEF TypeOK
    <3> QED BY <3>1, <3>2, <1>6
  <2>4. ASSUME NEW u \in Workers, flight'[u] # None
        PROVE  read'[flight'[u]].at = u /\ read'[flight'[u]].pc \in {"begin", "load", "loaded"}
    <3>1. u # w /\ flight'[u] = flight[u]
      BY <2>4, <1>8
    <3>2. flight[u] \in Reads /\ read[flight[u]].at = u
          /\ read[flight[u]].pc \in {"begin", "load", "loaded"}
      BY <2>4, <3>1, <1>1 DEF TypeOK
    <3> QED BY <3>1, <3>2, <1>6
  <2>5. /\ cache' \in [Workers -> {Absent} \cup Versions]
        /\ full' \in [Workers -> BOOLEAN]
        /\ inflight' \in [Workers -> Reads \cup {None}]
        /\ flight' \in [Workers -> Reads \cup {None}]
    BY <1>1, <1>5 DEF TypeOK
  <2> QED BY <1>4, <2>2, <2>3, <2>4, <2>5 DEF TypeOK, ReadRecords
<1>10. NoStaleRefill'
  BY <1>3, <1>8 DEF CacheInv, NoStaleRefill
<1>11. ASSUME NEW r \in Reads PROVE Sane(read[r])' /\ Joins(read[r])'
  <2>1. PICK y \in ReadRecords : y = read[r]
    BY <1>2
  <2>2. Sane(y) /\ Joins(y)
    BY <2>1 DEF CacheInv
  <2>3. CASE y.at = w
    <3>1. PICK x \in ReadRecords : x = read'[r]
      BY <2>1, <2>3, <1>7
    <3>2. /\ x.at = w /\ ~x.leads /\ x.pc \notin Running
          /\ x.pc = "failed" \/ (x.pc = y.pc /\ x.floor = y.floor /\ x.val = y.val)
      BY <2>1, <2>3, <3>1, <1>7
    <3>3. Sane(read[r])'
      BY <3>1, <3>2, <2>2 DEF Sane, Running, Waiting
    <3>4. Joins(read[r])'
      BY <3>1, <3>2 DEF Joins, Running
    <3> QED BY <3>3, <3>4
  <2>4. CASE y.at # w
    <3>1. read'[r] = y
      BY <2>1, <2>4, <1>6
    <3>2. y.at \in Workers => Applied(y.at)' = Applied(y.at)
      BY <2>4, <1>3
    <3>3. Sane(read[r])'
      BY <3>1, <3>2, <2>2, <1>4 DEF Sane, Running
    <3>4. y.pc = "joined" => y.on \in Reads /\ read'[y.on] = read[y.on]
      BY <2>2, <2>4, <1>6 DEF Joins
    <3>5. Joins(read[r])'
      BY <3>1, <3>4, <2>2 DEF Joins
    <3> QED BY <3>3, <3>5
  <2> QED BY <2>3, <2>4
<1>12. ASSUME NEW u \in Workers PROVE FlightSound(u)'
  <2>1. SUFFICES ASSUME flight'[u] # None
                 PROVE  /\ ~http'
                        /\ read'[flight'[u]].pc = "loaded" =>
                             \A v \in Applied(u)' : v <= read'[flight'[u]].val
    BY DEF FlightSound
  <2>2. /\ u # w /\ flight'[u] = flight[u] /\ flight[u] \in Reads
        /\ read[flight[u]].at = u
    BY <2>1, <1>1, <1>8 DEF TypeOK
  <2>3. FlightSound(u) /\ read'[flight[u]] = read[flight[u]]
    BY <2>2, <1>6 DEF CacheInv
  <2> QED BY <2>1, <2>2, <2>3, <1>3, <1>4 DEF FlightSound
<1> QED BY <1>9, <1>10, <1>11, <1>12 DEF CacheInv

\* An entry that expires, and other keys that come and go.
LEMMA StoreStep ==
  ASSUME CacheInv, NEW w \in Workers, Expire(w) \/ OtherKeys(w)
  PROVE  CacheInv'
<1>1. /\ UNCHANGED writeVars /\ inflight' = inflight /\ flight' = flight /\ read' = read
      /\ cache' = cache \/ cache' = [cache EXCEPT ![w] = Absent]
  BY DEF Expire, OtherKeys
<1>2. TypeOK
  BY DEF CacheInv
<1>3. http' = http /\ db' = db /\ todo' = todo /\ transit' = transit /\ lost' = lost
      /\ \A u : Applied(u)' = Applied(u)
  BY <1>1, AppliedKept
<1>4. full' \in [Workers -> BOOLEAN] /\ cache' \in [Workers -> {Absent} \cup Versions]
  BY <1>2 DEF TypeOK, Expire, OtherKeys
<1>5. TypeOK'
  BY <1>1, <1>2, <1>3, <1>4 DEF TypeOK
<1>6. \A u \in Workers : cache'[u] = cache[u] \/ cache'[u] = Absent
  BY <1>1, <1>2 DEF TypeOK
<1>7. NoStaleRefill'
  BY <1>3, <1>6 DEF CacheInv, NoStaleRefill
<1>8. \A r \in Reads : Sane(read[r])' /\ Joins(read[r])'
  BY <1>1, <1>3 DEF CacheInv, Sane, Joins
<1>9. \A u \in Workers : FlightSound(u)'
  BY <1>1, <1>3 DEF CacheInv, FlightSound
<1> QED BY <1>5, <1>7, <1>8, <1>9 DEF CacheInv

-----------------------------------------------------------------------------

LEMMA CacheInvInit == Init => CacheInv
<1> SUFFICES ASSUME Init PROVE CacheInv
  OBVIOUS
<1>1. Unread \in ReadRecords
  BY DEF Unread, ReadRecords
<1>2. TypeOK
  BY <1>1, BoundAssumption DEF Init, TypeOK, ReadRecords, Versions, Absent
<1>3. NoStaleRefill /\ \A w \in Workers : FlightSound(w)
  BY DEF Init, NoStaleRefill, FlightSound
<1>4. \A r \in Reads : read[r].pc = "idle" /\ ~read[r].leads
  BY DEF Init, Unread
<1>5. \A r \in Reads : Sane(read[r]) /\ Joins(read[r])
  BY <1>4 DEF Sane, Joins, Running, Waiting
<1> QED BY <1>2, <1>3, <1>5 DEF CacheInv

LEMMA CacheInvStep == CacheInv /\ [Next]_vars => CacheInv'
<1> SUFFICES ASSUME CacheInv, [Next]_vars PROVE CacheInv'
  OBVIOUS
<1>1. ASSUME NEW r \in Reads, NEW w \in Workers, HttpRead(r, w) \/ ServiceRead(r, w)
      PROVE  CacheInv'
  BY <1>1, HttpReadStep, ServiceReadStep
<1>2. ASSUME NEW r \in Reads,
             \/ Wakes(r) \/ WakesAgain(r) \/ Load(r) \/ RespondFails(r)
             \/ Abort(r) \/ Close(r) \/ Begin(r) \/ LoadFails(r)
      PROVE  CacheInv'
  <2>1. CASE Wakes(r) \/ WakesAgain(r)
    BY <2>1, WakesStep
  <2>2. CASE Load(r)
    BY <2>2, LoadStep
  <2>3. CASE RespondFails(r)
    BY <2>3, RespondStep
  <2>4. CASE Abort(r) \/ Close(r)
    BY <2>4, LeaderStep
  <2>5. CASE Begin(r)
    BY <2>5, BeginStep
  <2>6. CASE LoadFails(r)
    BY <2>6, EndStep
  <2> QED BY <1>2, <2>1, <2>2, <2>3, <2>4, <2>5, <2>6
<1>3. ASSUME NEW r \in Reads, NEW keep \in BOOLEAN, Respond(r, keep) \/ Finish(r, keep)
      PROVE  CacheInv'
  BY <1>3, RespondStep, EndStep
<1>4. ASSUME NEW w \in Workers,
             \/ Write(w) \/ Invalidate(w) \/ RelayApplies(w)
             \/ InvalidationSkipped(w) \/ RelayLost(w)
             \/ WorkerDies(w) \/ Expire(w) \/ OtherKeys(w)
      PROVE  CacheInv'
  BY <1>4, CommitStep, ClearStep, DeathStep, StoreStep
<1>5. CASE UNCHANGED vars
  <2>1. /\ UNCHANGED writeVars /\ cache' = cache /\ full' = full
        /\ inflight' = inflight /\ flight' = flight /\ read' = read
    BY <1>5 DEF vars, cacheVars
  <2>2. http' = http /\ db' = db /\ todo' = todo /\ transit' = transit /\ lost' = lost
        /\ \A u : Applied(u)' = Applied(u)
    BY <2>1, AppliedKept
  <2> QED BY <2>1, <2>2 DEF CacheInv, TypeOK, NoStaleRefill, Sane, Joins, FlightSound
<1> QED BY <1>1, <1>2, <1>3, <1>4, <1>5 DEF Next

THEOREM CacheInvariant == Spec => []CacheInv
<1>1. Init => CacheInv
  BY CacheInvInit
<1>2. CacheInv /\ [Next]_vars => CacheInv'
  BY CacheInvStep
<1> QED BY <1>1, <1>2, PTL DEF Spec

\* Nothing stored and nothing answered is older than an invalidation that the
\* worker had applied when it stored it, or when the read came in: for any
\* number of workers, reads and writes, and whichever relays are lost.
THEOREM CacheIsSoundTheorem == Spec => []CacheIsSound
<1>1. CacheInv => CacheIsSound
  BY DEF CacheInv, CacheIsSound, NothingStale, NoStaleAnswer, Sane
<1> QED BY <1>1, CacheInvariant, PTL

-----------------------------------------------------------------------------
(* Sharing.  The two modes of a store are never mixed, so one argument each. *)

\* A load of getOrSet to which readers of this generation belong is the one
\* that readers join.
FreshLoads == ~http => \A r \in Reads :
  read[r].pc \in Loading /\ read[r].fresh => flight[read[r].at] = r

Waits(p, w) == read[p].at = w /\ read[p].pc \in Waiting
Led(p)      == read[read[p].on].leads

\* The middleware at w: a leader that has not waited twice is the one recorded;
\* a waiting read waits for the recorded leader or for one that is released,
\* and then all woken reads were waiting for the same one; a second wait that is
\* over leaves no new leader but one that waited twice as well.
LeaderSound(w) ==
  /\ \A r \in Reads : read[r].at = w /\ read[r].leads /\ ~read[r].twice => inflight[w] = r
  /\ \A p \in Reads : Waits(p, w) =>
       /\ ~read[p].leads
       /\ read[p].on \in Reads /\ read[read[p].on].at = w
       /\ read[read[p].on].pc \notin {"idle"} \cup Waiting
       /\ Led(p) => inflight[w] = read[p].on
  /\ \A p, q \in Reads : Waits(p, w) /\ Waits(q, w) /\ ~Led(p) /\ ~Led(q) =>
       read[p].on = read[q].on
  /\ \A p \in Reads : Waits(p, w) /\ read[p].pc = "rewait" /\ ~Led(p) =>
       /\ inflight[w] # None => read[inflight[w]].twice
       /\ \A q \in Reads : Waits(q, w) => ~Led(q)

LeaderInv ==
  /\ ~http => \A r \in Reads : ~read[r].leads
  /\ \A w \in Workers : LeaderSound(w)

\* No step turns a store of one mode into one of the other.
LEMMA HttpKept == ASSUME [Next]_vars PROVE http' = http
<1>1. ASSUME NEW r \in Reads, NEW w \in Workers, HttpRead(r, w) \/ ServiceRead(r, w)
      PROVE  http' = http
  BY <1>1 DEF HttpRead, ServiceRead, writeVars
<1>2. ASSUME NEW r \in Reads,
             \/ Wakes(r) \/ WakesAgain(r) \/ Load(r) \/ RespondFails(r)
             \/ Abort(r) \/ Close(r) \/ Begin(r) \/ LoadFails(r)
      PROVE  http' = http
  BY <1>2 DEF Wakes, WakesAgain, Load, RespondFails, Abort, Close, Releases, Begin,
              LoadFails, writeVars
<1>3. ASSUME NEW r \in Reads, NEW keep \in BOOLEAN, Respond(r, keep) \/ Finish(r, keep)
      PROVE  http' = http
  BY <1>3 DEF Respond, Finish, writeVars
<1>4. ASSUME NEW w \in Workers,
             \/ Write(w) \/ Invalidate(w) \/ RelayApplies(w)
             \/ InvalidationSkipped(w) \/ RelayLost(w)
             \/ WorkerDies(w) \/ Expire(w) \/ OtherKeys(w)
      PROVE  http' = http
  BY <1>4 DEF Write, Invalidate, RelayApplies, InvalidationSkipped, RelayLost,
              WorkerDies, Expire, OtherKeys, writeVars
<1>5. CASE UNCHANGED vars
  BY <1>5 DEF vars, writeVars
<1> QED BY <1>1, <1>2, <1>3, <1>4, <1>5 DEF Next

\* One read of getOrSet changes: it is recorded if it loads for its generation.
LEMMA OneReadFresh ==
  ASSUME CacheInv, FreshLoads, ~http, NEW r \in Reads, NEW x,
         read' = [read EXCEPT ![r] = x],
         x.pc \in Loading /\ x.fresh => flight'[x.at] = r,
         \A s \in Reads : s # r /\ flight[read[s].at] = s => flight'[read[s].at] = s
  PROVE  FreshLoads'
<1>1. read \in [Reads -> ReadRecords]
  BY DEF CacheInv, TypeOK, ReadRecords
<1>2. read'[r] = x /\ \A s \in Reads : s # r => read'[s] = read[s]
  BY <1>1
<1> QED BY <1>2 DEF FreshLoads

\* Steps that start no load for its generation, and forget none.
LEMMA NoneFresher ==
  ASSUME FreshLoads, ~http,
         \A s \in Reads : read'[s].pc \in Loading /\ read'[s].fresh =>
           /\ read[s].pc \in Loading /\ read[s].fresh
           /\ flight'[read'[s].at] = flight[read[s].at]
  PROVE  FreshLoads'
BY DEF FreshLoads

\* A flight that ends, with all who share it, leaves the other loads recorded.
LEMMA SharedFresh ==
  ASSUME CacheInv, FreshLoads, ~http, NEW r \in Reads, read[r].pc \in Loading,
         NEW end \in Ended, NEW v, Shared(r, end, v), FlightOver(r)
  PROVE  FreshLoads'
<1>1. read \in [Reads -> ReadRecords] /\ flight \in [Workers -> Reads \cup {None}]
  BY DEF CacheInv, TypeOK, ReadRecords
<1>2. ASSUME NEW s \in Reads, read'[s].pc \in Loading, read'[s].fresh
      PROVE  /\ read[s].pc \in Loading /\ read[s].fresh
             /\ flight'[read'[s].at] = flight[read[s].at]
  <2>1. PICK y \in ReadRecords : y = read[s]
    BY <1>1
  <2>2. PICK x : x = EndedAs(y, end, v)
    OBVIOUS
  <2>3. x.pc = end
    BY <2>2 DEF EndedAs, ReadRecords
  <2>4. read'[s] = IF s = r \/ (y.pc = "joined" /\ y.on = r) THEN x ELSE y
    BY <2>1, <2>2 DEF Shared
  <2>5. read'[s] = y /\ s # r
    BY <2>3, <2>4, <1>2 DEF Loading, Ended
  <2>6. flight[y.at] = s
    BY <2>1, <2>5, <1>2 DEF FreshLoads
  <2>7. Sane(y)
    BY <2>1 DEF CacheInv
  <2>8. y.at \in Workers
    BY <2>5, <2>7, <1>2 DEF Sane, Loading
  <2>9. flight'[y.at] = flight[y.at]
    BY <2>5, <2>6, <2>8, <1>1 DEF FlightOver
  <2> QED BY <2>1, <2>5, <2>9, <1>2
<1> QED BY <1>2, NoneFresher

LEMMA FreshLoadsStep ==
  ASSUME CacheInv, FreshLoads, [Next]_vars
  PROVE  FreshLoads'
<1>1. CASE http
  <2>1. http'
    BY <1>1, HttpKept
  <2> QED BY <2>1 DEF FreshLoads
<1> SUFFICES ASSUME ~http PROVE FreshLoads'
  BY <1>1
<1>2. TypeOK
  BY DEF CacheInv
<1>3. read \in [Reads -> ReadRecords]
  BY <1>2 DEF TypeOK, ReadRecords
<1>4. ASSUME NEW r \in Reads, NEW w \in Workers, ServiceRead(r, w)
      PROVE  FreshLoads'
  <2>1. PICK a : a = Asked(w)
    OBVIOUS
  <2>2. Fits(r, a)
    BY <1>4, <2>1, AskedFits DEF ServiceRead
  <2>3. a \in ReadRecords /\ a.at = w /\ a.fresh
    BY <2>1, <2>2 DEF Fits, Asked, Unread
  <2>4. CASE Hit(r, Asked(w))
    <3>1. PICK x : x = EndedAs(a, "ok", cache[a.at])
      OBVIOUS
    <3>2. read' = [read EXCEPT ![r] = x] /\ flight' = flight
      BY <2>1, <2>4, <3>1 DEF Hit, cacheVars
    <3>3. x.pc = "ok"
      BY <3>1, <2>3 DEF EndedAs, ReadRecords
    <3> QED BY <3>2, <3>3, OneReadFresh DEF Loading
  <2>5. CASE /\ cache[w] = Absent /\ flight[w] # None
             /\ read' = [read EXCEPT ![r] = [Asked(w) EXCEPT !.pc = "joined", !.on = flight[w]]]
             /\ UNCHANGED cacheVars
    <3>1. PICK x : x = [a EXCEPT !.pc = "joined", !.on = flight[w]]
      OBVIOUS
    <3>2. read' = [read EXCEPT ![r] = x] /\ flight' = flight
      BY <2>1, <2>5, <3>1 DEF cacheVars
    <3>3. x.pc = "joined"
      BY <3>1, <2>3 DEF ReadRecords
    <3> QED BY <3>2, <3>3, OneReadFresh DEF Loading
  <2>6. CASE /\ cache[w] = Absent /\ flight[w] = None
             /\ flight' = [flight EXCEPT ![w] = r]
             /\ read' = [read EXCEPT ![r] = [Asked(w) EXCEPT !.pc = "begin"]]
             /\ UNCHANGED <<cache, full, inflight>>
    <3>1. PICK x : x = [a EXCEPT !.pc = "begin"]
      OBVIOUS
    <3>2. read' = [read EXCEPT ![r] = x]
      BY <2>1, <2>6, <3>1
    <3>3. x.at = w
      BY <3>1, <2>3 DEF ReadRecords
    <3>4. \A u \in Workers : flight'[u] = IF u = w THEN r ELSE flight[u]
      BY <2>6, <1>2 DEF TypeOK
    <3>5. ASSUME NEW s \in Reads, s # r, flight[read[s].at] = s
          PROVE  flight'[read[s].at] = s
      <4>1. s # None
        BY NoneAssumption
      <4>2. read[s].at # w
        BY <3>5, <4>1, <2>6
      <4> QED BY <3>5, <4>2, <2>6, <1>2 DEF TypeOK
    <3> QED BY <3>2, <3>3, <3>4, <3>5, OneReadFresh
  <2> QED BY <1>4, <2>4, <2>5, <2>6 DEF ServiceRead
<1>5. ASSUME NEW r \in Reads, Load(r) \/ Abort(r) \/ Close(r)
                              \/ (Begin(r) /\ flight' = flight /\ cache[read[r].at] = Absent)
      PROVE  FreshLoads'
  <2>1. PICK y \in ReadRecords : y = read[r]
    BY <1>3
  <2>2. flight' = flight
    BY <1>5 DEF Load, Abort, Close, Releases, cacheVars
  <2>3. PICK x : /\ read' = [read EXCEPT ![r] = x]
                 /\ x.at = y.at /\ x.fresh = y.fresh
                 /\ x.pc \in Loading => y.pc \in Loading
    <3>1. CASE Load(r)
      <4>1. PICK x : x = [y EXCEPT !.pc = "loaded", !.val = db]
        OBVIOUS
      <4>2. x.at = y.at /\ x.fresh = y.fresh
        BY <4>1 DEF ReadRecords
      <4>3. read' = [read EXCEPT ![r] = x]
        <5>1. [read EXCEPT ![r].pc = "loaded", ![r].val = db] = [read EXCEPT ![r] = x]
          BY <1>2, <2>1, <4>1 DEF TypeOK
        <5> QED BY <5>1, <3>1 DEF Load
      <4>4. y.pc \in Loading
        BY <3>1, <2>1 DEF Load, Loading
      <4> QED BY <4>2, <4>3, <4>4
    <3>2. CASE Abort(r)
      <4>1. PICK x : x = [y EXCEPT !.gone = TRUE]
        OBVIOUS
      <4>2. x.at = y.at /\ x.fresh = y.fresh /\ x.pc = y.pc
        BY <4>1 DEF ReadRecords
      <4> QED BY <4>1, <4>2, <3>2, <2>1 DEF Abort
    <3>3. CASE Close(r)
      <4>1. PICK x : x = [y EXCEPT !.leads = FALSE]
        OBVIOUS
      <4>2. x.at = y.at /\ x.fresh = y.fresh /\ x.pc = y.pc
        BY <4>1 DEF ReadRecords
      <4> QED BY <4>1, <4>2, <3>3, <2>1 DEF Close, Releases
    <3>4. CASE Begin(r) /\ flight' = flight /\ cache[read[r].at] = Absent
      <4>1. PICK x : x = [y EXCEPT !.pc = "load", !.same = TRUE]
        OBVIOUS
      <4>2. x.at = y.at /\ x.fresh = y.fresh /\ y.pc \in Loading
        BY <4>1, <3>4, <2>1 DEF ReadRecords, Begin, Loading
      <4>3. read' = [read EXCEPT ![r] = x]
        <5>1. [read EXCEPT ![r].pc = "load", ![r].same = TRUE] = [read EXCEPT ![r] = x]
          BY <1>2, <2>1, <4>1 DEF TypeOK
        <5> QED BY <5>1, <3>4 DEF Begin
      <4> QED BY <4>2, <4>3
    <3> QED BY <1>5, <3>1, <3>2, <3>3, <3>4
  <2>4. x.pc \in Loading /\ x.fresh => flight'[x.at] = r
    BY <2>1, <2>2, <2>3 DEF FreshLoads
  <2> QED BY <2>2, <2>3, <2>4, OneReadFresh
<1>6. ASSUME NEW r \in Reads, Begin(r)
      PROVE  FreshLoads'
  <2>1. CASE Shared(r, "ok", cache[read[r].at]) /\ FlightOver(r)
    <3>1. read[r].pc \in Loading /\ "ok" \in Ended
      BY <1>6 DEF Begin, Loading, Ended
    <3> QED BY <2>1, <3>1, SharedFresh
  <2>2. CASE cache[read[r].at] = Absent /\ flight' = flight
    BY <1>5, <1>6, <2>2
  <2> QED BY <1>6, <2>1, <2>2 DEF Begin
<1>7. ASSUME NEW r \in Reads, LoadFails(r) \/ \E keep \in BOOLEAN : Finish(r, keep)
      PROVE  FreshLoads'
  <2>1. \E end \in Ended : \E v : Shared(r, end, v)
    BY <1>7 DEF LoadFails, Finish, LoadEnd, Ended
  <2>2. FlightOver(r) /\ read[r].pc \in Loading
    BY <1>7 DEF LoadFails, Finish, Loading
  <2> QED BY <2>1, <2>2, SharedFresh
<1>8. ASSUME NEW w \in Workers,
             Write(w) \/ InvalidationSkipped(w) \/ RelayLost(w) \/ Expire(w) \/ OtherKeys(w)
      PROVE  FreshLoads'
  <2>1. read' = read /\ flight' = flight
    BY <1>8 DEF Write, InvalidationSkipped, RelayLost, Expire, OtherKeys, cacheVars
  <2> QED BY <2>1, NoneFresher
<1>9. ASSUME NEW w \in Workers, Invalidate(w) \/ RelayApplies(w) \/ WorkerDies(w)
      PROVE  FreshLoads'
  <2>1. flight' = [flight EXCEPT ![w] = None]
    BY <1>9 DEF Invalidate, RelayApplies, Clears, WorkerDies
  <2>2. ASSUME NEW s \in Reads, read[s].at = w
        PROVE  read'[s].pc \notin Loading \/ ~read'[s].fresh
    <3>1. PICK y \in ReadRecords : y = read[s]
      BY <1>3
    <3>2. CASE Invalidate(w) \/ RelayApplies(w)
      <4>1. PICK x : x = [y EXCEPT !.same = FALSE, !.fresh = FALSE]
        OBVIOUS
      <4>2. ~x.fresh
        BY <4>1 DEF ReadRecords
      <4>3. read'[s] = x
        BY <3>1, <3>2, <4>1, <2>2 DEF Invalidate, RelayApplies, Clears
      <4> QED BY <4>2, <4>3
    <3>3. CASE WorkerDies(w) /\ y.pc \in Running
      <4>1. PICK x : x = [EndedAs(y, "failed", Absent) EXCEPT !.leads = FALSE]
        OBVIOUS
      <4>2. ~x.fresh
        BY <4>1 DEF ReadRecords, EndedAs
      <4>3. read'[s] = x
        BY <3>1, <3>3, <4>1, <2>2 DEF WorkerDies
      <4> QED BY <4>2, <4>3
    <3>4. CASE WorkerDies(w) /\ y.pc \notin Running
      <4>1. PICK x : x = [y EXCEPT !.leads = FALSE]
        OBVIOUS
      <4>2. x.pc = y.pc
        BY <4>1 DEF ReadRecords
      <4>3. read'[s] = x
        BY <3>1, <3>4, <4>1, <2>2 DEF WorkerDies
      <4> QED BY <4>2, <4>3, <3>4 DEF Loading, Running
    <3> QED BY <1>9, <3>2, <3>3, <3>4
  <2>3. ASSUME NEW s \in Reads, read[s].at # w
        PROVE  read'[s] = read[s] /\ flight'[read[s].at] = flight[read[s].at]
    <3>1. read'[s] = read[s]
      BY <1>9, <2>3 DEF Invalidate, RelayApplies, Clears, WorkerDies
    <3> QED BY <3>1, <2>1, <2>3, <1>2 DEF TypeOK
  <2> QED BY <2>2, <2>3, NoneFresher
<1>10. CASE UNCHANGED vars
  <2>1. read' = read /\ flight' = flight
    BY <1>10 DEF vars, cacheVars
  <2> QED BY <2>1, NoneFresher
<1>11. ASSUME NEW r \in Reads
       PROVE  /\ ~RespondFails(r) /\ ~Wakes(r) /\ ~WakesAgain(r)
              /\ \A w \in Workers : ~HttpRead(r, w)
              /\ \A keep \in BOOLEAN : ~Respond(r, keep)
  <2>1. Sane(read[r])
    BY DEF CacheInv
  <2>2. read[r].pc \notin Waiting
    BY <2>1 DEF Sane
  <2> QED BY <2>2 DEF RespondFails, Wakes, WakesAgain, HttpRead, Respond, Waiting
<1> QED BY <1>4, <1>5, <1>6, <1>7, <1>8, <1>9, <1>10, <1>11 DEF Next

\* Steps that leave who leads, and who waits for whom, as it is.
LEMMA LeadersKept ==
  ASSUME CacheInv, LeaderInv, inflight' = inflight, http' = http,
         \A s \in Reads :
           /\ read'[s].at = read[s].at /\ read'[s].leads = read[s].leads
           /\ read'[s].twice = read[s].twice
           /\ read'[s].pc \in Waiting \/ read[s].pc \in Waiting =>
                read'[s].pc = read[s].pc /\ read'[s].on = read[s].on
           /\ read'[s].pc = "idle" => read[s].pc = "idle"
  PROVE  LeaderInv'
<1>1. ASSUME NEW w \in Workers PROVE LeaderSound(w)'
  <2>1. LeaderSound(w)
    BY DEF LeaderInv
  <2>2. inflight'[w] \in Reads \cup {None} /\ inflight'[w] = inflight[w]
    BY DEF CacheInv, TypeOK
  <2>3. \A p \in Reads : Waits(p, w)' => Waits(p, w) /\ read'[p].on = read[p].on
                                         /\ read'[p].pc = read[p].pc
    BY DEF Waits
  <2>4. \A p \in Reads : Waits(p, w)' => read[p].on \in Reads /\ Led(p)' = Led(p)
    <3>1. \A p \in Reads : Waits(p, w)' => read[p].on \in Reads
      BY <2>1, <2>3 DEF LeaderSound
    <3> QED BY <3>1, <2>3 DEF Led
  <2>5. \A r \in Reads : read'[r].at = w /\ read'[r].leads /\ ~read'[r].twice => inflight'[w] = r
    BY <2>1 DEF LeaderSound
  <2>6. ASSUME NEW p \in Reads, Waits(p, w)'
        PROVE  /\ ~read'[p].leads
               /\ read'[p].on \in Reads /\ read'[read'[p].on].at = w
               /\ read'[read'[p].on].pc \notin {"idle"} \cup Waiting
               /\ Led(p)' => inflight'[w] = read'[p].on
    BY <2>1, <2>3, <2>4, <2>6 DEF LeaderSound
  <2>7. \A p, q \in Reads : Waits(p, w)' /\ Waits(q, w)' /\ ~Led(p)' /\ ~Led(q)' =>
          read'[p].on = read'[q].on
    BY <2>1, <2>3, <2>4 DEF LeaderSound
  <2>8. ASSUME NEW p \in Reads, Waits(p, w)', read'[p].pc = "rewait", ~Led(p)'
        PROVE  /\ inflight'[w] # None => read'[inflight'[w]].twice
               /\ \A q \in Reads : Waits(q, w)' => ~Led(q)'
    BY <2>1, <2>2, <2>3, <2>4, <2>8, NoneAssumption DEF LeaderSound
  <2> QED BY <2>5, <2>6, <2>7, <2>8 DEF LeaderSound
<1>2. ~http' => \A r \in Reads : ~read'[r].leads
  BY DEF LeaderInv
<1> QED BY <1>1, <1>2 DEF LeaderInv

\* Nobody waits for a read that has not led, and it is not recorded.
LEMMA NotALeader ==
  ASSUME CacheInv, LeaderInv, NEW r \in Reads, read[r].pc \in {"idle"} \cup Waiting
  PROVE  /\ ~read[r].leads
         /\ \A w \in Workers : inflight[w] # r
         /\ \A p \in Reads : read[p].pc \in Waiting =>
              read[p].at \in Workers /\ read[p].on \in Reads /\ read[p].on # r
<1>1. \A p \in Reads : Sane(read[p])
  BY DEF CacheInv
<1>2. \A p \in Reads : read[p].pc \in Waiting => read[p].at \in Workers
  BY <1>1 DEF Sane, Waiting
<1>3. \A p \in Reads : read[p].pc \in Waiting =>
        /\ ~read[p].leads /\ read[p].on \in Reads
        /\ read[read[p].on].pc \notin {"idle"} \cup Waiting
  BY <1>2 DEF LeaderInv, LeaderSound, Waits
<1>4. ~read[r].leads
  BY <1>1, <1>3 DEF Sane
<1>5. r # None
  BY NoneAssumption
<1>6. \A w \in Workers : inflight[w] # r
  BY <1>4, <1>5 DEF CacheInv, TypeOK
<1> QED BY <1>2, <1>3, <1>4, <1>6

\* A read that waited or has just arrived, and is answered from the cache.
LEMMA HitLeaders ==
  ASSUME CacheInv, LeaderInv, http' = http, NEW r \in Reads, NEW rec,
         read[r].pc \in {"idle"} \cup Waiting, Fits(r, rec), ~rec.leads, Hit(r, rec)
  PROVE  LeaderInv'
<1>1. PICK x : x = EndedAs(rec, "ok", cache[rec.at])
  OBVIOUS
<1>2. x.pc = "ok" /\ ~x.leads
  BY <1>1 DEF EndedAs, Fits, ReadRecords
<1>3. read \in [Reads -> ReadRecords]
  BY DEF CacheInv, TypeOK, ReadRecords
<1>4. read'[r] = x /\ \A s \in Reads : s # r => read'[s] = read[s]
  BY <1>1, <1>3 DEF Hit
<1>5. inflight' = inflight
  BY DEF Hit, cacheVars
<1>6. /\ ~read[r].leads
      /\ \A w \in Workers : inflight[w] # r
      /\ \A p \in Reads : read[p].pc \in Waiting => read[p].on \in Reads /\ read[p].on # r
  BY NotALeader
<1>7. ASSUME NEW w \in Workers PROVE LeaderSound(w)'
  <2>1. LeaderSound(w)
    BY DEF LeaderInv
  <2>2. \A p \in Reads : Waits(p, w)' =>
          /\ p # r /\ Waits(p, w) /\ read'[p] = read[p]
          /\ read[p].on \in Reads /\ read'[read[p].on] = read[read[p].on]
    BY <1>2, <1>4, <1>6 DEF Waits, Waiting
  <2>3. \A p \in Reads : Waits(p, w)' => Led(p)' = Led(p)
    BY <2>2 DEF Led
  <2>4. inflight[w] # None => read'[inflight[w]] = read[inflight[w]]
    BY <1>4, <1>6 DEF CacheInv, TypeOK
  <2>5. \A s \in Reads : read'[s].at = w /\ read'[s].leads /\ ~read'[s].twice => inflight'[w] = s
    BY <2>1, <1>2, <1>4, <1>5 DEF LeaderSound
  <2>6. ASSUME NEW p \in Reads, Waits(p, w)'
        PROVE  /\ ~read'[p].leads
               /\ read'[p].on \in Reads /\ read'[read'[p].on].at = w
               /\ read'[read'[p].on].pc \notin {"idle"} \cup Waiting
               /\ Led(p)' => inflight'[w] = read'[p].on
    BY <2>1, <2>2, <2>3, <2>6, <1>5 DEF LeaderSound
  <2>7. \A p, q \in Reads : Waits(p, w)' /\ Waits(q, w)' /\ ~Led(p)' /\ ~Led(q)' =>
          read'[p].on = read'[q].on
    BY <2>1, <2>2, <2>3 DEF LeaderSound
  <2>8. ASSUME NEW p \in Reads, Waits(p, w)', read'[p].pc = "rewait", ~Led(p)'
        PROVE  /\ inflight'[w] # None => read'[inflight'[w]].twice
               /\ \A q \in Reads : Waits(q, w)' => ~Led(q)'
    BY <2>1, <2>2, <2>3, <2>4, <2>8, <1>5 DEF LeaderSound
  <2> QED BY <2>5, <2>6, <2>7, <2>8 DEF LeaderSound
<1>8. ~http' => \A s \in Reads : ~read'[s].leads
  BY <1>2, <1>4 DEF LeaderInv
<1> QED BY <1>7, <1>8 DEF LeaderInv

\* A read that waits for the recorded leader, while no second wait is over.
LEMMA FollowsLeaders ==
  ASSUME CacheInv, LeaderInv, http, http', NEW r \in Reads, NEW rec, NEW phase \in Waiting,
         read[r].pc \in {"idle"} \cup Waiting, Fits(r, rec), ~rec.leads,
         Follows(r, rec, phase),
         \A p \in Reads : p # r /\ Waits(p, rec.at) /\ read[p].pc = "rewait" => Led(p)
  PROVE  LeaderInv'
<1>1. PICK l \in Reads : l = inflight[rec.at]
  BY DEF Follows, CacheInv, TypeOK, Fits
<1>2. PICK x : x = [rec EXCEPT !.pc = phase, !.on = l]
  OBVIOUS
<1>3. x.pc = phase /\ ~x.leads /\ x.on = l /\ x.at = rec.at
  BY <1>2 DEF Fits, ReadRecords
<1>4. read \in [Reads -> ReadRecords]
  BY DEF CacheInv, TypeOK, ReadRecords
<1>5. read'[r] = x /\ \A s \in Reads : s # r => read'[s] = read[s]
  BY <1>1, <1>2, <1>4 DEF Follows
<1>6. inflight' = inflight
  BY DEF Follows, cacheVars
<1>7. /\ ~read[r].leads
      /\ \A w \in Workers : inflight[w] # r
      /\ \A p \in Reads : read[p].pc \in Waiting => read[p].on \in Reads /\ read[p].on # r
  BY NotALeader
<1>8. rec.at \in Workers
  BY DEF Fits
<1>9. l # r /\ read[l].at = rec.at /\ read[l].leads
  <2>1. l # None
    BY NoneAssumption
  <2> QED BY <2>1, <1>1, <1>7, <1>8 DEF CacheInv, TypeOK
<1>10. read[l].pc \notin {"idle"} \cup Waiting
  BY <1>9, NotALeader
<1>11. ASSUME NEW w \in Workers PROVE LeaderSound(w)'
  <2>1. LeaderSound(w)
    BY DEF LeaderInv
  <2>2. \A p \in Reads : p # r /\ Waits(p, w)' =>
          /\ Waits(p, w) /\ read'[p] = read[p]
          /\ read[p].on \in Reads /\ read'[read[p].on] = read[read[p].on]
    BY <1>5, <1>7 DEF Waits
  <2>3. \A p \in Reads : p # r /\ Waits(p, w)' => Led(p)' = Led(p)
    BY <2>2 DEF Led
  <2>4. Led(r)' /\ (Waits(r, w)' => w = rec.at)
    BY <1>3, <1>5, <1>9 DEF Led, Waits
  <2>5. inflight[w] # None => read'[inflight[w]] = read[inflight[w]]
    BY <1>5, <1>7 DEF CacheInv, TypeOK
  <2>6. \A s \in Reads : read'[s].at = w /\ read'[s].leads /\ ~read'[s].twice => inflight'[w] = s
    BY <2>1, <1>3, <1>5, <1>6 DEF LeaderSound
  <2>7. ASSUME NEW p \in Reads, Waits(p, w)'
        PROVE  /\ ~read'[p].leads
               /\ read'[p].on \in Reads /\ read'[read'[p].on].at = w
               /\ read'[read'[p].on].pc \notin {"idle"} \cup Waiting
               /\ Led(p)' => inflight'[w] = read'[p].on
    <3>1. CASE p = r
      BY <3>1, <2>4, <2>7, <1>1, <1>3, <1>5, <1>6, <1>9, <1>10
    <3>2. CASE p # r
      BY <3>2, <2>1, <2>2, <2>3, <2>7, <1>6 DEF LeaderSound
    <3> QED BY <3>1, <3>2
  <2>8. \A p, q \in Reads : Waits(p, w)' /\ Waits(q, w)' /\ ~Led(p)' /\ ~Led(q)' =>
          read'[p].on = read'[q].on
    BY <2>1, <2>2, <2>3, <2>4 DEF LeaderSound
  <2>9. ASSUME NEW p \in Reads, Waits(p, w)', read'[p].pc = "rewait", ~Led(p)'
        PROVE  /\ inflight'[w] # None => read'[inflight'[w]].twice
               /\ \A q \in Reads : Waits(q, w)' => ~Led(q)'
    <3>1. p # r
      BY <2>4, <2>9
    <3>2. Waits(p, w) /\ ~Led(p) /\ read[p].pc = "rewait"
      BY <3>1, <2>2, <2>3, <2>9
    <3>3. w # rec.at
      BY <3>1, <3>2
    <3> QED BY <3>2, <3>3, <2>1, <2>2, <2>3, <2>4, <2>5, <1>6 DEF LeaderSound
  <2> QED BY <2>6, <2>7, <2>8, <2>9 DEF LeaderSound
<1> QED BY <1>11 DEF LeaderInv

\* A read becomes the leader: no leader is left but such as waited twice, and
\* all who wait at its worker are woken; it waited twice if one of them did.
LEMMA LeadsLeaders ==
  ASSUME CacheInv, LeaderInv, http, http', NEW r \in Reads, NEW rec,
         read[r].pc \in {"idle"} \cup Waiting, Fits(r, rec), Leads(r, rec),
         inflight[rec.at] # None => read[inflight[rec.at]].twice,
         \A p \in Reads : p # r /\ Waits(p, rec.at) => ~Led(p),
         rec.twice \/ \A p \in Reads : p # r /\ Waits(p, rec.at) => read[p].pc # "rewait"
  PROVE  LeaderInv'
<1>1. PICK x : x = [rec EXCEPT !.pc = "load", !.on = None, !.same = TRUE, !.leads = TRUE]
  OBVIOUS
<1>2. x.pc = "load" /\ x.leads /\ x.at = rec.at /\ x.twice = rec.twice
  BY <1>1 DEF Fits, ReadRecords
<1>3. read \in [Reads -> ReadRecords]
  BY DEF CacheInv, TypeOK, ReadRecords
<1>4. read'[r] = x /\ \A s \in Reads : s # r => read'[s] = read[s]
  BY <1>1, <1>3 DEF Leads
<1>5. rec.at \in Workers
  BY DEF Fits
<1>6. \A w \in Workers : inflight'[w] = IF w = rec.at THEN r ELSE inflight[w]
  BY <1>5 DEF Leads, CacheInv, TypeOK
<1>7. /\ ~read[r].leads
      /\ \A w \in Workers : inflight[w] # r
      /\ \A p \in Reads : read[p].pc \in Waiting => read[p].on \in Reads /\ read[p].on # r
  BY NotALeader
<1>8. ASSUME NEW w \in Workers PROVE LeaderSound(w)'
  <2>1. LeaderSound(w)
    BY DEF LeaderInv
  <2>2. \A p \in Reads : Waits(p, w)' =>
          /\ p # r /\ Waits(p, w) /\ read'[p] = read[p]
          /\ read[p].on \in Reads /\ read'[read[p].on] = read[read[p].on]
    BY <1>2, <1>4, <1>7 DEF Waits, Waiting
  <2>3. \A p \in Reads : Waits(p, w)' => Led(p)' = Led(p)
    BY <2>2 DEF Led
  <2>4. inflight[w] # None => read'[inflight[w]] = read[inflight[w]]
    BY <1>4, <1>7 DEF CacheInv, TypeOK
  <2>5. ASSUME NEW s \in Reads, read'[s].at = w, read'[s].leads, ~read'[s].twice
        PROVE  inflight'[w] = s
    <3>1. CASE s = r
      BY <3>1, <2>5, <1>2, <1>4, <1>6
    <3>2. CASE s # r
      <4>1. inflight[w] = s /\ ~read[s].twice
        BY <3>2, <2>1, <2>5, <1>4 DEF LeaderSound
      <4>2. s # None
        BY NoneAssumption
      <4> QED BY <4>1, <4>2, <1>6
    <3> QED BY <3>1, <3>2
  <2>6. ASSUME NEW p \in Reads, Waits(p, w)'
        PROVE  /\ ~read'[p].leads
               /\ read'[p].on \in Reads /\ read'[read'[p].on].at = w
               /\ read'[read'[p].on].pc \notin {"idle"} \cup Waiting
               /\ Led(p)' => inflight'[w] = read'[p].on
    BY <2>1, <2>2, <2>3, <2>6, <1>6 DEF LeaderSound
  <2>7. \A p, q \in Reads : Waits(p, w)' /\ Waits(q, w)' /\ ~Led(p)' /\ ~Led(q)' =>
          read'[p].on = read'[q].on
    BY <2>1, <2>2, <2>3 DEF LeaderSound
  <2>8. ASSUME NEW p \in Reads, Waits(p, w)', read'[p].pc = "rewait", ~Led(p)'
        PROVE  /\ inflight'[w] # None => read'[inflight'[w]].twice
               /\ \A q \in Reads : Waits(q, w)' => ~Led(q)'
    <3>1. p # r /\ Waits(p, w) /\ read[p].pc = "rewait" /\ ~Led(p)
      BY <2>2, <2>3, <2>8
    <3>2. CASE w = rec.at
      <4>1. rec.twice
        BY <3>1, <3>2
      <4> QED BY <4>1, <3>2, <2>2, <2>3, <1>2, <1>4, <1>6
    <3>3. CASE w # rec.at
      BY <3>1, <3>3, <2>1, <2>2, <2>3, <2>4, <1>6 DEF LeaderSound
    <3> QED BY <3>2, <3>3
  <2> QED BY <2>5, <2>6, <2>7, <2>8 DEF LeaderSound
<1> QED BY <1>8 DEF LeaderInv

LEMMA HttpReadLeaders ==
  ASSUME CacheInv, LeaderInv, http', NEW r \in Reads, NEW w \in Workers, HttpRead(r, w)
  PROVE  LeaderInv'
<1>1. http /\ read[r].pc = "idle" /\ Settled(w)
  BY DEF HttpRead
<1>2. PICK a : a = Asked(w)
  OBVIOUS
<1>3. Fits(r, a) /\ a.at = w /\ ~a.leads
  BY <1>1, <1>2, AskedFits DEF Asked, Unread
<1>4. \A p \in Reads : Waits(p, w) => Led(p)
  BY <1>1 DEF Settled, Waits, Led, Waiting
<1>5. read[r].pc \in {"idle"} \cup Waiting
  BY <1>1
<1>6. CASE Hit(r, Asked(w))
  BY <1>1, <1>2, <1>3, <1>5, <1>6, HitLeaders
<1>7. CASE Follows(r, Asked(w), "wait")
  <2>1. "wait" \in Waiting
    BY DEF Waiting
  <2> QED BY <1>1, <1>2, <1>3, <1>4, <1>5, <1>7, <2>1, FollowsLeaders
<1>8. CASE inflight[w] = None /\ Leads(r, Asked(w))
  <2>1. \A p \in Reads : ~Waits(p, w)
    <3>1. LeaderSound(w)
      BY DEF LeaderInv
    <3>2. \A p \in Reads : Waits(p, w) => read[p].on \in Reads /\ inflight[w] = read[p].on
      BY <1>4, <3>1 DEF LeaderSound
    <3> QED BY <3>2, <1>8, NoneAssumption
  <2> QED BY <1>1, <1>2, <1>3, <1>5, <1>8, <2>1, LeadsLeaders
<1> QED BY <1>6, <1>7, <1>8 DEF HttpRead

LEMMA WakesLeaders ==
  ASSUME CacheInv, LeaderInv, http', http, NEW r \in Reads, Wakes(r)
  PROVE  LeaderInv'
<1>1. PICK y \in ReadRecords : y = read[r]
  BY DEF CacheInv, TypeOK, ReadRecords
<1>2. /\ y.pc = "wait" /\ ~Led(r)
      /\ \A s \in Reads : read[s].pc = "rewait" => read[s].on # y.on
  BY <1>1 DEF Wakes, Led
<1>3. y.pc \in Waiting /\ y.pc \in {"idle"} \cup Waiting
  BY <1>2 DEF Waiting
<1>4. Fits(r, y)
  BY <1>1, <1>3, WaitingFits
<1>5. y.at \in Workers /\ Waits(r, y.at)
  BY <1>1, <1>3, <1>4 DEF Fits, Waits
<1>6. LeaderSound(y.at)
  BY <1>5 DEF LeaderInv
<1>7. ~y.leads
  BY <1>1, <1>5, <1>6 DEF LeaderSound
<1>8. \A p \in Reads : Waits(p, y.at) /\ read[p].pc = "rewait" => Led(p)
  BY <1>1, <1>2, <1>5, <1>6 DEF LeaderSound
<1>9. CASE Hit(r, read[r])
  BY <1>1, <1>3, <1>4, <1>7, <1>9, HitLeaders
<1>10. CASE Follows(r, read[r], "rewait")
  <2>1. "rewait" \in Waiting
    BY DEF Waiting
  <2> QED BY <1>1, <1>3, <1>4, <1>7, <1>8, <1>10, <2>1, FollowsLeaders
<1>11. CASE inflight[read[r].at] = None /\ Leads(r, read[r])
  <2>1. \A p \in Reads : Waits(p, y.at) => ~Led(p)
    <3>1. \A p \in Reads : Waits(p, y.at) /\ Led(p) =>
            read[p].on \in Reads /\ inflight[y.at] = read[p].on
      BY <1>6 DEF LeaderSound
    <3> QED BY <3>1, <1>1, <1>11, NoneAssumption
  <2>2. \A p \in Reads : Waits(p, y.at) => read[p].pc # "rewait"
    BY <2>1, <1>8
  <2> QED BY <1>1, <1>3, <1>4, <1>11, <2>1, <2>2, LeadsLeaders
<1> QED BY <1>9, <1>10, <1>11 DEF Wakes

LEMMA WakesAgainLeaders ==
  ASSUME CacheInv, LeaderInv, http', http, NEW r \in Reads, WakesAgain(r)
  PROVE  LeaderInv'
<1>1. PICK y \in ReadRecords : y = read[r]
  BY DEF CacheInv, TypeOK, ReadRecords
<1>2. y.pc = "rewait" /\ ~Led(r)
  BY <1>1 DEF WakesAgain, Led
<1>3. y.pc \in Waiting /\ y.pc \in {"idle"} \cup Waiting
  BY <1>2 DEF Waiting
<1>4. PICK z : z = [y EXCEPT !.twice = TRUE]
  OBVIOUS
<1>5. Fits(r, y) /\ Fits(r, z)
  BY <1>1, <1>3, <1>4, WaitingFits
<1>6. z.at = y.at /\ z.twice
  BY <1>4 DEF ReadRecords
<1>7. y.at \in Workers /\ Waits(r, y.at)
  BY <1>1, <1>3, <1>5 DEF Fits, Waits
<1>8. LeaderSound(y.at)
  BY <1>7 DEF LeaderInv
<1>9. ~y.leads
  BY <1>1, <1>7, <1>8 DEF LeaderSound
<1>10. /\ inflight[y.at] # None => read[inflight[y.at]].twice
       /\ \A p \in Reads : Waits(p, y.at) => ~Led(p)
  BY <1>1, <1>2, <1>7, <1>8 DEF LeaderSound
<1>11. CASE Hit(r, read[r])
  BY <1>1, <1>3, <1>5, <1>9, <1>11, HitLeaders
<1>12. CASE Leads(r, [read[r] EXCEPT !.twice = TRUE])
  BY <1>1, <1>3, <1>4, <1>5, <1>6, <1>10, <1>12, LeadsLeaders
<1> QED BY <1>11, <1>12 DEF WakesAgain

\* The release of a leader, when those it woke before have run: all who wait at
\* its worker wait for it, or none does.
LEMMA CloseLeaders ==
  ASSUME CacheInv, LeaderInv, http', http, NEW r \in Reads, Close(r)
  PROVE  LeaderInv'
<1>1. PICK y \in ReadRecords : y = read[r]
  BY DEF CacheInv, TypeOK, ReadRecords
<1>2. PICK x : x = [y EXCEPT !.leads = FALSE]
  OBVIOUS
<1>3. x.pc = y.pc /\ x.at = y.at /\ ~x.leads /\ x.twice = y.twice /\ x.on = y.on
  BY <1>2 DEF ReadRecords
<1>4. read \in [Reads -> ReadRecords]
  BY DEF CacheInv, TypeOK, ReadRecords
<1>5. read'[r] = x /\ \A s \in Reads : s # r => read'[s] = read[s]
  BY <1>1, <1>2, <1>4 DEF Close, Releases
<1>6. y.leads /\ Settled(y.at)
  BY <1>1 DEF Close
<1>7. y.pc \notin {"idle"} \cup Waiting
  BY <1>1, <1>6, NotALeader
<1>8. Sane(y)
  BY <1>1 DEF CacheInv
<1>9. y.at \in Workers
  BY <1>7, <1>8 DEF Sane
<1>10. \A w \in Workers : inflight'[w] = IF w = y.at /\ inflight[w] = r THEN None ELSE inflight[w]
  BY <1>1, <1>9 DEF Close, Releases, CacheInv, TypeOK
<1>11. \A p \in Reads : Waits(p, y.at) => Led(p)
  BY <1>6 DEF Settled, Waits, Led, Waiting
<1>12. \A w \in Workers : \A p \in Reads : Waits(p, w) => read[p].on \in Reads /\ read[read[p].on].at = w
  BY DEF LeaderInv, LeaderSound
<1>13. r # None
  BY NoneAssumption
<1>14. ASSUME NEW w \in Workers PROVE LeaderSound(w)'
  <2>1. LeaderSound(w)
    BY DEF LeaderInv
  <2>2. \A p \in Reads : Waits(p, w)' =>
          /\ p # r /\ Waits(p, w) /\ read'[p] = read[p]
          /\ read[p].on \in Reads /\ read'[read[p].on].at = w
          /\ read'[read[p].on].pc \notin {"idle"} \cup Waiting
    <3>1. \A p \in Reads : Waits(p, w)' => p # r /\ Waits(p, w) /\ read'[p] = read[p]
      BY <1>3, <1>5, <1>7 DEF Waits
    <3> QED BY <3>1, <2>1, <1>1, <1>3, <1>5, <1>7 DEF LeaderSound
  <2>3. \A p \in Reads : Waits(p, w)' => (Led(p)' <=> Led(p) /\ read[p].on # r)
    BY <2>2, <1>3, <1>5 DEF Led
  <2>4. \A s \in Reads : read'[s].at = w /\ read'[s].leads /\ ~read'[s].twice => inflight'[w] = s
    BY <2>1, <1>3, <1>5, <1>10 DEF LeaderSound
  <2>5. ASSUME NEW p \in Reads, Waits(p, w)'
        PROVE  /\ ~read'[p].leads
               /\ read'[p].on \in Reads /\ read'[read'[p].on].at = w
               /\ read'[read'[p].on].pc \notin {"idle"} \cup Waiting
               /\ Led(p)' => inflight'[w] = read'[p].on
    BY <2>1, <2>2, <2>3, <2>5, <1>10 DEF LeaderSound
  <2>6. CASE w = y.at
    <3>1. \A p \in Reads : Waits(p, w)' => inflight[w] = read[p].on
      BY <2>1, <2>2, <2>6, <1>11 DEF LeaderSound
    <3>2. \A p \in Reads : Waits(p, w)' /\ ~Led(p)' => read[p].on = r /\ inflight[w] = r
      BY <3>1, <2>2, <2>3, <2>6, <1>11
    <3>3. \A p, q \in Reads : Waits(p, w)' /\ Waits(q, w)' /\ ~Led(p)' /\ ~Led(q)' =>
            read'[p].on = read'[q].on
      BY <3>2, <2>2
    <3>4. ASSUME NEW p \in Reads, Waits(p, w)', ~Led(p)'
          PROVE  /\ inflight'[w] = None
                 /\ \A q \in Reads : Waits(q, w)' => ~Led(q)'
      BY <3>1, <3>2, <3>4, <2>3, <2>6, <1>10
    <3> QED BY <3>3, <3>4, <2>4, <2>5 DEF LeaderSound
  <2>7. CASE w # y.at
    <3>1. \A p \in Reads : Waits(p, w)' => read[p].on # r
      BY <2>2, <2>7, <1>12, <1>1
    <3>2. \A p \in Reads : Waits(p, w)' => Led(p)' = Led(p)
      BY <3>1, <2>2, <1>5 DEF Led
    <3>3. inflight'[w] = inflight[w]
      BY <2>7, <1>10
    <3>4. inflight[w] # None => inflight[w] # r /\ read'[inflight[w]] = read[inflight[w]]
      BY <2>7, <1>1, <1>5, <1>13 DEF CacheInv, TypeOK
    <3>5. \A p, q \in Reads : Waits(p, w)' /\ Waits(q, w)' /\ ~Led(p)' /\ ~Led(q)' =>
            read'[p].on = read'[q].on
      BY <3>2, <2>1, <2>2 DEF LeaderSound
    <3>6. ASSUME NEW p \in Reads, Waits(p, w)', read'[p].pc = "rewait", ~Led(p)'
          PROVE  /\ inflight'[w] # None => read'[inflight'[w]].twice
                 /\ \A q \in Reads : Waits(q, w)' => ~Led(q)'
      BY <3>2, <3>3, <3>4, <3>6, <2>1, <2>2 DEF LeaderSound
    <3> QED BY <3>5, <3>6, <2>4, <2>5 DEF LeaderSound
  <2> QED BY <2>6, <2>7
<1> QED BY <1>14 DEF LeaderInv

\* A death ends all waits and leads at its worker, and touches no other.
LEMMA DeathLeaders ==
  ASSUME CacheInv, LeaderInv, http', http, NEW d \in Workers, WorkerDies(d)
  PROVE  LeaderInv'
<1>1. read \in [Reads -> ReadRecords]
  BY DEF CacheInv, TypeOK, ReadRecords
<1>2. ASSUME NEW s \in Reads, read[s].at # d
      PROVE  read'[s] = read[s]
  BY <1>2 DEF WorkerDies
<1>3. ASSUME NEW s \in Reads, read[s].at = d
      PROVE  read'[s].at = d /\ ~read'[s].leads /\ read'[s].pc \notin Waiting
  <2>1. PICK y \in ReadRecords : y = read[s]
    BY <1>1
  <2>2. CASE y.pc \in Running
    <3>1. PICK x : x = [EndedAs(y, "failed", Absent) EXCEPT !.leads = FALSE]
      OBVIOUS
    <3>2. x.at = y.at /\ ~x.leads /\ x.pc = "failed"
      BY <3>1 DEF EndedAs, ReadRecords
    <3>3. read'[s] = x
      BY <3>1, <2>1, <2>2, <1>3 DEF WorkerDies
    <3> QED BY <3>2, <3>3, <2>1, <1>3 DEF Waiting
  <2>3. CASE y.pc \notin Running
    <3>1. PICK x : x = [y EXCEPT !.leads = FALSE]
      OBVIOUS
    <3>2. x.at = y.at /\ ~x.leads /\ x.pc = y.pc
      BY <3>1 DEF ReadRecords
    <3>3. read'[s] = x
      BY <3>1, <2>1, <2>3, <1>3 DEF WorkerDies
    <3> QED BY <3>2, <3>3, <2>1, <2>3, <1>3 DEF Waiting, Running
  <2> QED BY <2>2, <2>3
<1>4. \A w \in Workers : inflight'[w] = IF w = d THEN None ELSE inflight[w]
  BY DEF WorkerDies, CacheInv, TypeOK
<1>5. ASSUME NEW w \in Workers PROVE LeaderSound(w)'
  <2>1. LeaderSound(w)
    BY DEF LeaderInv
  <2>2. CASE w = d
    <3>1. \A s \in Reads : read'[s].at = w => ~read'[s].leads /\ read'[s].pc \notin Waiting
      BY <2>2, <1>2, <1>3
    <3>2. \A s \in Reads : ~Waits(s, w)'
      BY <3>1 DEF Waits
    <3> QED BY <3>1, <3>2 DEF LeaderSound
  <2>3. CASE w # d
    <3>1. \A s \in Reads : read'[s].at = w => read[s].at = w /\ read'[s] = read[s]
      BY <2>3, <1>2, <1>3
    <3>2. \A p \in Reads : Waits(p, w)' =>
            /\ Waits(p, w) /\ read'[p] = read[p]
            /\ read[p].on \in Reads /\ read[read[p].on].at = w
      BY <3>1, <2>1 DEF Waits, LeaderSound
    <3>3. \A p \in Reads : Waits(p, w)' => read'[read[p].on] = read[read[p].on]
      BY <3>2, <2>3, <1>2
    <3>4. \A p \in Reads : Waits(p, w)' => Led(p)' = Led(p)
      BY <3>2, <3>3 DEF Led
    <3>5. inflight'[w] = inflight[w]
      BY <2>3, <1>4
    <3>6. inflight[w] # None => read'[inflight[w]] = read[inflight[w]]
      BY <2>3, <1>2 DEF CacheInv, TypeOK
    <3>7. \A s \in Reads : read'[s].at = w /\ read'[s].leads /\ ~read'[s].twice => inflight'[w] = s
      BY <3>1, <3>5, <2>1 DEF LeaderSound
    <3>8. ASSUME NEW p \in Reads, Waits(p, w)'
          PROVE  /\ ~read'[p].leads
                 /\ read'[p].on \in Reads /\ read'[read'[p].on].at = w
                 /\ read'[read'[p].on].pc \notin {"idle"} \cup Waiting
                 /\ Led(p)' => inflight'[w] = read'[p].on
      BY <3>2, <3>3, <3>4, <3>5, <3>8, <2>1 DEF LeaderSound
    <3>9. \A p, q \in Reads : Waits(p, w)' /\ Waits(q, w)' /\ ~Led(p)' /\ ~Led(q)' =>
            read'[p].on = read'[q].on
      BY <3>2, <3>4, <2>1 DEF LeaderSound
    <3>10. ASSUME NEW p \in Reads, Waits(p, w)', read'[p].pc = "rewait", ~Led(p)'
           PROVE  /\ inflight'[w] # None => read'[inflight'[w]].twice
                  /\ \A q \in Reads : Waits(q, w)' => ~Led(q)'
      BY <3>2, <3>4, <3>5, <3>6, <3>10, <2>1 DEF LeaderSound
    <3> QED BY <3>7, <3>8, <3>9, <3>10 DEF LeaderSound
  <2> QED BY <2>2, <2>3
<1> QED BY <1>5 DEF LeaderInv

\* Steps of both modes that change no leader, and nobody's wait.
LEMMA OtherLeaders ==
  ASSUME CacheInv, LeaderInv, http' = http,
         \/ \E r \in Reads : Load(r) \/ RespondFails(r) \/ Abort(r)
         \/ \E r \in Reads, keep \in BOOLEAN : Respond(r, keep)
         \/ \E w \in Workers : \/ Write(w) \/ Invalidate(w) \/ RelayApplies(w)
                               \/ InvalidationSkipped(w) \/ RelayLost(w)
                               \/ Expire(w) \/ OtherKeys(w)
         \/ UNCHANGED vars
  PROVE  LeaderInv'
<1> DEFINE Kept(s) ==
      /\ read'[s].at = read[s].at /\ read'[s].leads = read[s].leads
      /\ read'[s].twice = read[s].twice
      /\ read'[s].pc \in Waiting \/ read[s].pc \in Waiting =>
           read'[s].pc = read[s].pc /\ read'[s].on = read[s].on
      /\ read'[s].pc = "idle" => read[s].pc = "idle"
<1>1. read \in [Reads -> ReadRecords]
  BY DEF CacheInv, TypeOK, ReadRecords
<1>2. ASSUME NEW r \in Reads, NEW x, read' = [read EXCEPT ![r] = x],
             x.at = read[r].at, x.leads = read[r].leads, x.twice = read[r].twice,
             \/ x.pc = read[r].pc /\ x.on = read[r].on
             \/ x.pc \notin {"idle"} \cup Waiting /\ read[r].pc \notin Waiting
      PROVE  \A s \in Reads : Kept(s)
  BY <1>1, <1>2
<1>3. ASSUME NEW r \in Reads,
             Load(r) \/ RespondFails(r) \/ Abort(r) \/ \E keep \in BOOLEAN : Respond(r, keep)
      PROVE  inflight' = inflight /\ \A s \in Reads : Kept(s)
  <2>1. PICK y \in ReadRecords : y = read[r]
    BY <1>1
  <2>2. inflight' = inflight
    BY <1>3 DEF Load, RespondFails, Abort, Respond, cacheVars
  <2>3. PICK x : /\ read' = [read EXCEPT ![r] = x]
                 /\ x.at = y.at /\ x.leads = y.leads /\ x.twice = y.twice
                 /\ \/ x.pc = y.pc /\ x.on = y.on
                    \/ x.pc \notin {"idle"} \cup Waiting /\ y.pc \notin Waiting
    <3>1. CASE Load(r)
      <4>1. PICK x : x = [y EXCEPT !.pc = "loaded", !.val = db]
        OBVIOUS
      <4>2. x.at = y.at /\ x.leads = y.leads /\ x.twice = y.twice /\ x.pc = "loaded"
        BY <4>1 DEF ReadRecords
      <4>3. read' = [read EXCEPT ![r] = x]
        <5>1. [read EXCEPT ![r].pc = "loaded", ![r].val = db] = [read EXCEPT ![r] = x]
          BY <1>1, <2>1, <4>1
        <5> QED BY <5>1, <3>1 DEF Load
      <4>4. y.pc = "load"
        BY <3>1, <2>1 DEF Load
      <4> QED BY <4>2, <4>3, <4>4 DEF Waiting
    <3>2. CASE Abort(r)
      <4>1. PICK x : x = [y EXCEPT !.gone = TRUE]
        OBVIOUS
      <4>2. /\ x.at = y.at /\ x.leads = y.leads /\ x.twice = y.twice
            /\ x.pc = y.pc /\ x.on = y.on
        BY <4>1 DEF ReadRecords
      <4> QED BY <4>1, <4>2, <3>2, <2>1 DEF Abort
    <3>3. CASE RespondFails(r) \/ \E keep \in BOOLEAN : Respond(r, keep)
      <4>1. PICK end \in Ended : \E v : read' = [read EXCEPT ![r] = EndedAs(y, end, v)]
        BY <3>3, <2>1 DEF RespondFails, Respond, LoadEnd, Ended
      <4>2. PICK v : read' = [read EXCEPT ![r] = EndedAs(y, end, v)]
        BY <4>1
      <4>3. PICK x : x = EndedAs(y, end, v)
        OBVIOUS
      <4>4. x.at = y.at /\ x.leads = y.leads /\ x.twice = y.twice /\ x.pc = end
        BY <4>3 DEF EndedAs, ReadRecords
      <4>5. y.pc \in {"load", "loaded"}
        BY <3>3, <2>1 DEF RespondFails, Respond
      <4> QED BY <4>2, <4>3, <4>4, <4>5 DEF Waiting, Ended
    <3> QED BY <1>3, <3>1, <3>2, <3>3
  <2>4. \A s \in Reads : Kept(s)
    <3> HIDE DEF Kept
    <3> QED BY <2>1, <2>3, <1>2
  <2> QED BY <2>2, <2>4
<1>4. ASSUME NEW w \in Workers, Invalidate(w) \/ RelayApplies(w)
      PROVE  inflight' = inflight /\ \A s \in Reads : Kept(s)
  <2>1. ASSUME NEW s \in Reads PROVE Kept(s)
    <3>1. PICK y \in ReadRecords : y = read[s]
      BY <1>1
    <3>2. PICK x : x = [y EXCEPT !.same = FALSE, !.fresh = FALSE]
      OBVIOUS
    <3>3. /\ x.at = y.at /\ x.leads = y.leads /\ x.twice = y.twice
          /\ x.pc = y.pc /\ x.on = y.on
      BY <3>2 DEF ReadRecords
    <3>4. read'[s] = x \/ read'[s] = y
      BY <1>4, <3>1, <3>2 DEF Invalidate, RelayApplies, Clears
    <3> QED BY <3>1, <3>3, <3>4
  <2> QED BY <1>4, <2>1 DEF Invalidate, RelayApplies, Clears
<1>5. ASSUME \/ \E w \in Workers : \/ Write(w) \/ InvalidationSkipped(w) \/ RelayLost(w)
                                   \/ Expire(w) \/ OtherKeys(w)
             \/ UNCHANGED vars
      PROVE  inflight' = inflight /\ \A s \in Reads : Kept(s)
  <2>1. inflight' = inflight /\ read' = read
    BY <1>5 DEF Write, InvalidationSkipped, RelayLost, Expire, OtherKeys, vars, cacheVars
  <2> QED BY <2>1
<1>6. inflight' = inflight /\ \A s \in Reads : Kept(s)
  <2> HIDE DEF Kept
  <2> QED BY <1>3, <1>4, <1>5
<1> QED BY <1>6, LeadersKept

\* In a store of getOrSet nobody ever leads.
LEMMA ServiceLeaders ==
  ASSUME CacheInv, LeaderInv, ~http, [Next]_vars
  PROVE  LeaderInv'
<1>1. read \in [Reads -> ReadRecords] /\ \A r \in Reads : ~read[r].leads
  BY DEF CacheInv, TypeOK, ReadRecords, LeaderInv
<1>2. ~http'
  BY HttpKept
<1>3. CacheInv'
  BY CacheInvStep
<1>4. \A s \in Reads : read'[s].pc \notin Waiting
  BY <1>2, <1>3 DEF CacheInv, Sane
<1>5. SUFFICES \A s \in Reads : ~read'[s].leads
  <2>1. ASSUME \A s \in Reads : ~read'[s].leads, NEW w \in Workers
        PROVE  LeaderSound(w)'
    BY <1>4, <2>1 DEF LeaderSound, Waits
  <2> QED BY <2>1 DEF LeaderInv
<1>6. ASSUME NEW r \in Reads, NEW x, read' = [read EXCEPT ![r] = x], ~x.leads
      PROVE  \A s \in Reads : ~read'[s].leads
  BY <1>1, <1>6
<1>7. ASSUME NEW r \in Reads, NEW w \in Workers, ServiceRead(r, w)
      PROVE  \A s \in Reads : ~read'[s].leads
  <2>1. PICK a : a = Asked(w)
    OBVIOUS
  <2>2. a \in ReadRecords /\ ~a.leads
    <3>1. Fits(r, a)
      BY <1>7, <2>1, AskedFits DEF ServiceRead
    <3> QED BY <3>1, <2>1 DEF Fits, Asked, Unread
  <2>3. PICK x : read' = [read EXCEPT ![r] = x] /\ ~x.leads
    <3>1. ~EndedAs(a, "ok", cache[a.at]).leads
      BY <2>2 DEF EndedAs, ReadRecords
    <3>2. ~[a EXCEPT !.pc = "joined", !.on = flight[w]].leads
      BY <2>2 DEF ReadRecords
    <3>3. ~[a EXCEPT !.pc = "begin"].leads
      BY <2>2 DEF ReadRecords
    <3> QED BY <1>7, <2>1, <3>1, <3>2, <3>3 DEF ServiceRead, Hit
  <2> QED BY <1>6, <2>3
<1>8. ASSUME NEW r \in Reads, NEW end, NEW v, Shared(r, end, v)
      PROVE  \A s \in Reads : ~read'[s].leads
  <2>1. ASSUME NEW s \in Reads PROVE ~read'[s].leads
    <3>1. PICK y \in ReadRecords : y = read[s]
      BY <1>1
    <3>2. PICK x : x = EndedAs(y, end, v)
      OBVIOUS
    <3>3. x.leads = y.leads
      BY <3>2 DEF EndedAs, ReadRecords
    <3>4. read'[s] = x \/ read'[s] = y
      BY <1>8, <3>1, <3>2 DEF Shared
    <3> QED BY <3>1, <3>3, <3>4, <1>1
  <2> QED BY <2>1
<1>9. ASSUME NEW r \in Reads, Begin(r)
      PROVE  \A s \in Reads : ~read'[s].leads
  <2>1. CASE Shared(r, "ok", cache[read[r].at])
    BY <2>1, <1>8
  <2>2. CASE read' = [read EXCEPT ![r].pc = "load", ![r].same = TRUE]
    <3>1. PICK y \in ReadRecords : y = read[r]
      BY <1>1
    <3>2. PICK x : x = [y EXCEPT !.pc = "load", !.same = TRUE]
      OBVIOUS
    <3>3. ~x.leads
      BY <3>1, <3>2, <1>1 DEF ReadRecords
    <3>4. [read EXCEPT ![r].pc = "load", ![r].same = TRUE] = [read EXCEPT ![r] = x]
      BY <3>1, <3>2, <1>1
    <3> QED BY <3>3, <3>4, <2>2, <1>6
  <2> QED BY <1>9, <2>1, <2>2 DEF Begin
<1>10. ASSUME NEW r \in Reads, LoadFails(r) \/ \E keep \in BOOLEAN : Finish(r, keep)
       PROVE  \A s \in Reads : ~read'[s].leads
  BY <1>8, <1>10 DEF LoadFails, Finish
<1>11. ASSUME NEW r \in Reads
       PROVE  /\ ~RespondFails(r) /\ ~Wakes(r) /\ ~WakesAgain(r) /\ ~Close(r)
              /\ \A w \in Workers : ~HttpRead(r, w)
              /\ \A keep \in BOOLEAN : ~Respond(r, keep)
  <2>1. Sane(read[r])
    BY DEF CacheInv
  <2>2. read[r].pc \notin Waiting
    BY <2>1 DEF Sane
  <2> QED BY <2>2, <1>1 DEF RespondFails, Wakes, WakesAgain, HttpRead, Respond, Waiting, Close
<1>12. ASSUME NEW w \in Workers, WorkerDies(w)
       PROVE  \A s \in Reads : ~read'[s].leads
  <2>1. ASSUME NEW s \in Reads PROVE ~read'[s].leads
    <3>1. PICK y \in ReadRecords : y = read[s]
      BY <1>1
    <3>2. ~[EndedAs(y, "failed", Absent) EXCEPT !.leads = FALSE].leads
      BY DEF EndedAs, ReadRecords
    <3>3. ~[y EXCEPT !.leads = FALSE].leads
      BY DEF ReadRecords
    <3> QED BY <3>1, <3>2, <3>3, <1>1, <1>12 DEF WorkerDies
  <2> QED BY <2>1
<1>13. ASSUME \/ \E r \in Reads : Load(r) \/ RespondFails(r) \/ Abort(r)
              \/ \E r \in Reads, keep \in BOOLEAN : Respond(r, keep)
              \/ \E w \in Workers : \/ Write(w) \/ Invalidate(w) \/ RelayApplies(w)
                                    \/ InvalidationSkipped(w) \/ RelayLost(w)
                                    \/ Expire(w) \/ OtherKeys(w)
              \/ UNCHANGED vars
       PROVE  \A s \in Reads : ~read'[s].leads
  <2>1. http' = http
    BY HttpKept
  <2>2. LeaderInv'
    BY <1>13, <2>1, OtherLeaders
  <2> QED BY <2>2, <1>2 DEF LeaderInv
<1> QED BY <1>7, <1>9, <1>10, <1>11, <1>12, <1>13 DEF Next

LEMMA LeaderInvStep == CacheInv /\ LeaderInv /\ [Next]_vars => LeaderInv'
<1> SUFFICES ASSUME CacheInv, LeaderInv, [Next]_vars PROVE LeaderInv'
  OBVIOUS
<1>1. http' = http
  BY HttpKept
<1>2. CASE ~http
  BY <1>2, ServiceLeaders
<1>3. CASE http
  <2>1. ASSUME NEW r \in Reads, NEW w \in Workers, HttpRead(r, w)
        PROVE  LeaderInv'
    BY <1>1, <1>3, <2>1, HttpReadLeaders
  <2>2. ASSUME NEW r \in Reads, Wakes(r) \/ WakesAgain(r) \/ Close(r)
        PROVE  LeaderInv'
    BY <1>1, <1>3, <2>2, WakesLeaders, WakesAgainLeaders, CloseLeaders
  <2>3. ASSUME NEW w \in Workers, WorkerDies(w)
        PROVE  LeaderInv'
    BY <1>1, <1>3, <2>3, DeathLeaders
  <2>4. ASSUME NEW r \in Reads
        PROVE  /\ ~Begin(r) /\ ~LoadFails(r) /\ \A w \in Workers : ~ServiceRead(r, w)
               /\ \A keep \in BOOLEAN : ~Finish(r, keep)
    BY <1>3, NoFlights DEF Begin, LoadFails, ServiceRead, Finish
  <2>5. ASSUME \/ \E r \in Reads : Load(r) \/ RespondFails(r) \/ Abort(r)
               \/ \E r \in Reads, keep \in BOOLEAN : Respond(r, keep)
               \/ \E w \in Workers : \/ Write(w) \/ Invalidate(w) \/ RelayApplies(w)
                                     \/ InvalidationSkipped(w) \/ RelayLost(w)
                                     \/ Expire(w) \/ OtherKeys(w)
               \/ UNCHANGED vars
        PROVE  LeaderInv'
    BY <1>1, <2>5, OtherLeaders
  <2> QED BY <2>1, <2>2, <2>3, <2>4, <2>5 DEF Next
<1> QED BY <1>2, <1>3

\* Of the readers of getOrSet that came after the last invalidation one at most
\* loads, and two requests run the controller of one key side by side only if
\* one of them waited for two leaders in vain: for any number of readers.
THEOREM LoadsAreSharedTheorem == Spec => []LoadsAreShared
<1> DEFINE Inv == CacheInv /\ FreshLoads /\ LeaderInv
<1>1. Init => Inv
  <2> SUFFICES ASSUME Init PROVE Inv
    OBVIOUS
  <2>1. \A r \in Reads : read[r].pc = "idle" /\ ~read[r].leads
    BY DEF Init, Unread
  <2>2. CacheInv
    BY CacheInvInit
  <2>3. FreshLoads
    BY <2>1 DEF FreshLoads, Loading
  <2>4. LeaderInv
    BY <2>1 DEF LeaderInv, LeaderSound, Waits, Waiting
  <2> QED BY <2>2, <2>3, <2>4
<1>2. Inv /\ [Next]_vars => Inv'
  BY CacheInvStep, FreshLoadsStep, LeaderInvStep
<1>3. Inv => LoadsAreShared
  <2> SUFFICES ASSUME Inv PROVE LoadsAreShared
    OBVIOUS
  <2>1. OneLoadPerGeneration
    BY DEF OneLoadPerGeneration, FreshLoads, Loading
  <2>2. NoStampede
    <3>1. ASSUME NEW r \in Reads, read[r].leads PROVE read[r].at \in Workers
      BY <3>1 DEF CacheInv, Sane
    <3>2. \A w \in Workers : LeaderSound(w)
      BY DEF LeaderInv
    <3> QED BY <3>1, <3>2 DEF NoStampede, LeaderSound
  <2> QED BY <2>1, <2>2 DEF LoadsAreShared
<1> HIDE DEF Inv
<1> QED BY <1>1, <1>2, <1>3, PTL DEF Spec

=============================================================================
