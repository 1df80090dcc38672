---------------------------- MODULE LoginLockout ----------------------------
(***************************************************************************)
(* The per-account login lockout of a cluster:                             *)
(*   Backend/src/middleware/authentication/LoginLockoutPolicy.js  the rules*)
(*   .../LoginLockoutState.js       the bounded table in the primary       *)
(*   .../LoginLockoutMiddleware.js  the calls of a worker, and the table   *)
(*                                  it falls back to                       *)
(* A login asks for the lock, verifies the password and then reports the   *)
(* outcome; other logins run in between.  A call to the primary may fail   *)
(* before or after the primary has handled it.                             *)
(***************************************************************************)
EXTENDS Naturals, FiniteSets

CONSTANTS
  Workers, Accounts,
  Logins,           \* bound: login attempts
  MaxAttempts, MaxCycles, Duration, Multiplier, Decrement,   \* LOGIN_*
  Incremental,      \* LOGIN_LOCKOUT_MODE
  MaxKeys,          \* accounts the primary tracks
  EntryTtl,         \* life of an entry after its last write
  MaxTime           \* bound

VARIABLES
  now,
  table,    \* primary: account -> policy state and expiry
  order,    \* primary: pairs of tracked accounts, the one written first in front
  swept,    \* when a sweep last found nothing to evict
  local,    \* per worker: account -> policy state (CacheStore)
  relays,   \* deletes on their way to sibling workers
  login     \* attempts

vars == <<now, table, order, swept, local, relays, login>>

Initial == [cycles |-> 0, max |-> MaxAttempts, fails |-> 0, until |-> 0]
NoEntry == [state |-> Initial, expires |-> 0]

Init ==
  /\ now = 1 /\ swept = 0
  /\ table = [a \in Accounts |-> NoEntry] /\ order = {}
  /\ local = [w \in Workers |-> [a \in Accounts |-> Initial]]
  /\ relays = {}
  /\ \E w \in Workers, a \in Accounts :
       login = [l \in Logins |-> [pc |-> "idle", at |-> w, user |-> a]]

-----------------------------------------------------------------------------
(* LoginLockoutPolicy                                                      *)

LockedAt(s, t) == s.until > t

Locked(s)  == LockedAt(s, now)
HrReset(s) == ~Locked(s) /\ s.cycles >= MaxCycles
Lapsed(s)  == s.until > 0 /\ ~Locked(s)

\* evaluate: a lock window that ended is cleared.
Evaluated(s) == IF Lapsed(s) THEN [s EXCEPT !.until = 0, !.fails = 0] ELSE s

LockDuration(cycles) ==
  IF Incremental THEN Duration * Multiplier ^ (cycles - 1) ELSE Duration

\* fail, of an account that is not locked.
Failed(s) ==
  LET t == [Evaluated(s) EXCEPT !.fails = @ + 1]
  IN  IF t.fails < t.max THEN t
      ELSE [cycles |-> t.cycles + 1, fails |-> 0,
            max |-> IF t.max > Decrement THEN t.max - Decrement ELSE 1,
            until |-> now + LockDuration(t.cycles + 1)]

-----------------------------------------------------------------------------
(* LoginLockoutState                                                       *)

\* The Map keeps its keys in the order of their last writes.
Tracked(R)      == {a \in Accounts : <<a, a>> \in R}
Only(R, S)      == R \cap (S \X S)
Without(R, a)   == Only(R, Tracked(R) \ {a})
MovedLast(R, a) == Without(R, a) \cup ((Tracked(R) \cup {a}) \X {a})
Full(R)         == Cardinality(Tracked(R)) >= MaxKeys

Oldest(a, S, R) == a \in S /\ \A b \in S : <<a, b>> \in R

Live(a) == a \in Tracked(order) /\ table[a].expires > now

Written(T, a, s) == [T EXCEPT ![a] = [state |-> s, expires |-> now + EntryTtl]]

Unlocked(a) == ~Locked(table[a].state) /\ ~HrReset(Evaluated(table[a].state))

\* Deviation: the oldest entry goes, locked or not.
EvictOldest(R) == Only(R, {a \in Tracked(R) : ~Oldest(a, Tracked(R), R)})

\* #makeRoom: entries that expired, else the oldest one that is not locked.
Evict(R) ==
  LET fresh == {a \in Tracked(R) : Live(a)}
      loose == {a \in fresh : Unlocked(a)}
  IN  Only(R, IF Cardinality(fresh) < MaxKeys THEN fresh
              ELSE {a \in fresh : ~Oldest(a, loose, R)})

\* check.
PrimaryCheck(a) ==
  /\ order' = IF ~Live(a) THEN Without(order, a)
              ELSE IF Lapsed(table[a].state) THEN MovedLast(order, a) ELSE order
  /\ table' = IF Live(a) /\ Lapsed(table[a].state)
              THEN Written(table, a, Evaluated(table[a].state)) ELSE table
  /\ UNCHANGED swept

Admits(s) == ~Locked(s) /\ ~HrReset(s)

PrimaryAdmits(a) == Live(a) => Admits(table[a].state)

\* fail of an account that is tracked, or for which there is room.
PrimaryCounts(a) ==
  LET known == Live(a)
      R     == Without(order, a)
      s     == IF known THEN table[a].state ELSE Initial
      room  == IF known \/ ~Full(R) THEN R ELSE Evict(R)
  IN  /\ known \/ ~Full(R) \/ (swept # now /\ ~Full(Evict(R)))
      /\ \/ Locked(s) /\ UNCHANGED <<table, order>>
         \/ /\ ~Locked(s)
            /\ table' = Written(table, a, Failed(s)) /\ order' = MovedLast(room, a)
      /\ UNCHANGED swept

\* fail with a table full of locked accounts: not counted.
PrimaryDeclines(a) ==
  LET R == Without(order, a)
  IN  /\ ~Live(a) /\ Full(R)
      /\ swept = now \/ Full(Evict(R))
      /\ order' = IF swept = now THEN R ELSE Evict(R)
      /\ swept' = now
      /\ UNCHANGED table

primaryVars == <<table, order, swept>>

-----------------------------------------------------------------------------
(* LoginLockoutMiddleware, for one login                                   *)

Becomes(l, phase) == login' = [login EXCEPT ![l].pc = phase]

\* Its own table, when the primary did not answer.
LocalCheck(w, a) == local' = [local EXCEPT ![w][a] = Evaluated(@)]
LocalFail(w, a)  == local' = [local EXCEPT ![w][a] = IF Locked(@) THEN @ ELSE Failed(@)]

\* checkAsync.
Check(l, w, a) ==
  LET Admitted(ok) == login' = [login EXCEPT ![l] =
                        [pc |-> IF ok THEN "verify" ELSE "refused", at |-> w, user |-> a]]
  IN  /\ login[l].pc = "idle"
      /\ \/ PrimaryCheck(a) /\ Admitted(PrimaryAdmits(a)) /\ UNCHANGED local
         \/ PrimaryCheck(a) /\ LocalCheck(w, a) /\ Admitted(Admits(local[w][a]))
         \/ /\ UNCHANGED primaryVars
            /\ LocalCheck(w, a) /\ Admitted(Admits(local[w][a]))
      /\ UNCHANGED <<now, relays>>

\* recordFailureAsync, before the login is answered.
WrongPassword(l) ==
  LET w == login[l].at
      a == login[l].user
  IN  /\ login[l].pc = "verify"
      /\ \/ PrimaryCounts(a) /\ UNCHANGED local
         \/ PrimaryCounts(a) /\ LocalFail(w, a)      \* answered too late
         \/ PrimaryDeclines(a) /\ LocalFail(w, a)
         \/ LocalFail(w, a) /\ UNCHANGED primaryVars
      /\ Becomes(l, "failed")
      /\ UNCHANGED <<now, relays>>

\* recordSuccessAsync: this worker and its siblings, then the primary.
RightPassword(l) ==
  LET w == login[l].at
      a == login[l].user
  IN  /\ login[l].pc = "verify"
      /\ local' = [local EXCEPT ![w][a] = Initial]
      /\ relays' = relays \cup {<<v, a>> : v \in Workers \ {w}}
      /\ \/ order' = Without(order, a)
         \/ UNCHANGED order                         \* the call was lost
      /\ Becomes(l, "ok")
      /\ UNCHANGED <<now, table, swept>>

RelayDelete(w, a) ==
  /\ <<w, a>> \in relays
  /\ relays' = relays \ {<<w, a>>}
  /\ local' = [local EXCEPT ![w][a] = Initial]
  /\ UNCHANGED <<now, primaryVars, login>>

Tick == now < MaxTime /\ now' = now + 1
          /\ UNCHANGED <<primaryVars, local, relays, login>>

Next ==
  \/ Tick
  \/ \E l \in Logins : WrongPassword(l) \/ RightPassword(l)
  \/ \E l \in Logins, w \in Workers, a \in Accounts : Check(l, w, a)
  \/ \E w \in Workers, a \in Accounts : RelayDelete(w, a)

Spec == Init /\ [][Next]_vars

-----------------------------------------------------------------------------
(* Properties                                                              *)

Refuses(a) == Live(a) /\ ~Admits(Evaluated(table[a].state))

Succeeds(a) == \E l \in Logins : /\ login[l].user = a /\ login[l].pc = "verify"
                                 /\ login'[l].pc = "ok"

\* An account the primary has locked stays locked until its window ends or the
\* entry's life does, whatever the other accounts do to the bounded table and
\* however late the logins that were admitted before report; only a login that
\* succeeds lifts the lock.
LockHolds ==
  [][\A a \in Accounts :
       Refuses(a) => \/ Refuses(a)' \/ Succeeds(a)
                     \/ now' >= table[a].expires
                     \/ Locked(table[a].state) /\ ~LockedAt(table[a].state, now')]_vars
=============================================================================
