--------------------------- MODULE RequestCache ----------------------------
(***************************************************************************)
(* The hook that the pages of the front end read through:                  *)
(*   Frontend/src/hooks/useRequest.js                                      *)
(*                                                                         *)
(* A module-wide cache and a table of requests in flight, shared by every  *)
(* view that is mounted.  A view keeps its own copy of what it shows and   *)
(* the call it has started last; whoever changes data on the server        *)
(* invalidates its key afterwards.  A disabled hook is modelled as one    *)
(* with a null key: neither starts calls or listens.                      *)
(***************************************************************************)
EXTENDS Naturals

CONSTANTS
  Views, Keys,
  NoKey,        \* a null key, or a hook that is not enabled
  MaxOpen,      \* bound: requests in flight at once
  MaxVersion    \* bound: writes of a key

VARIABLES
  server,    \* per key: its version
  owed,      \* keys that were written and are not yet invalidated
  fetch,     \* requests: the key, what the server answered, and old: the key was
             \* invalidated since the request was made
  inFlight,  \* IN_FLIGHT, 0 for none
  cache,     \* CACHE
  view,      \* per view: its state, and the request its last call awaits
  floor      \* history: per key the version of its last invalidation

vars == <<server, owed, fetch, inFlight, cache, view, floor>>

Open    == 1..MaxOpen
NoFetch == [at |-> "free", key |-> NoKey, version |-> 0, old |-> FALSE]
NoEntry == [version |-> 0, fresh |-> FALSE, late |-> FALSE]
NoData  == [key |-> NoKey, version |-> 0, late |-> FALSE]
Off     == [on |-> FALSE, key |-> NoKey, data |-> NoData,
            loading |-> FALSE, error |-> FALSE, waits |-> 0]

Init ==
  /\ server = [k \in Keys |-> 1] /\ owed = {} /\ floor = [k \in Keys |-> 0]
  /\ fetch = [f \in Open |-> NoFetch]
  /\ inFlight = [k \in Keys |-> 0]
  /\ cache = [k \in Keys |-> NoEntry]
  /\ view = [v \in Views |-> Off]

-----------------------------------------------------------------------------
(* execute()                                                               *)

Active(w) == w.on /\ w.key # NoKey
Cached(k) == [key |-> k, version |-> cache[k].version, late |-> cache[k].late]

Loads(w, f) == [w EXCEPT !.loading = TRUE, !.error = FALSE, !.waits = f]

\* Deviation: a call that the cache answers does not count as the newest one.
ShowsKeepingCall(w, data) == [w EXCEPT !.data = data, !.loading = FALSE, !.error = FALSE]

Shows(w, data) ==
  [w EXCEPT !.data = data, !.loading = FALSE, !.error = FALSE, !.waits = 0]

\* The request a call for k awaits: the one in flight, or a new one.
Joins(k, f) == IF inFlight[k] # 0 THEN f = inFlight[k]
               ELSE fetch[f].at = "free" /\ \A g \in 1..(f - 1) : fetch[g].at # "free"

Asks(k, f) ==
  /\ inFlight' = [inFlight EXCEPT ![k] = f]
  /\ fetch' = IF inFlight[k] = f THEN fetch
              ELSE [fetch EXCEPT ![f] = [NoFetch EXCEPT !.at = "asked", !.key = k]]

\* execute(force) of view v, whose state is w.
Execute(v, w, force) ==
  \/ ~Active(w) /\ view' = [view EXCEPT ![v] = w] /\ UNCHANGED <<fetch, inFlight>>
  \/ /\ Active(w) /\ ~force /\ cache[w.key].fresh
     /\ view' = [view EXCEPT ![v] = Shows(w, Cached(w.key))]
     /\ UNCHANGED <<fetch, inFlight>>
  \/ /\ Active(w) /\ (force \/ ~cache[w.key].fresh)
     /\ \E f \in Open : /\ Joins(w.key, f) /\ Asks(w.key, f)
                        /\ view' = [view EXCEPT ![v] = Loads(w, f)]

-----------------------------------------------------------------------------
(* What a view does                                                        *)

\* Its first render takes what the cache has, however old.
Mount(v, k) ==
  /\ ~view[v].on
  /\ LET hit == k # NoKey /\ cache[k] # NoEntry
     IN  Execute(v, [Off EXCEPT !.on = TRUE, !.key = k,
                                !.data = IF hit THEN Cached(k) ELSE NoData,
                                !.loading = IF hit THEN ~cache[k].fresh
                                                   ELSE k # NoKey],
                 FALSE)
  /\ UNCHANGED <<server, owed, cache, floor>>

Unmount(v) ==
  /\ view[v].on
  /\ view' = [view EXCEPT ![v] = Off]
  /\ UNCHANGED <<server, owed, fetch, inFlight, cache, floor>>

\* The effect on a new key.
Change(v, k) ==
  /\ view[v].on /\ k # view[v].key
  /\ Execute(v, [view[v] EXCEPT !.key = k], FALSE)
  /\ UNCHANGED <<server, owed, cache, floor>>

Refetch(v) ==
  /\ view[v].on
  /\ Execute(v, view[v], TRUE)
  /\ UNCHANGED <<server, owed, cache, floor>>

-----------------------------------------------------------------------------
(* Requests and writes                                                     *)

Serve(f) ==
  /\ fetch[f].at = "asked"
  /\ fetch' = [fetch EXCEPT ![f].at = "served", ![f].version = server[fetch[f].key]]
  /\ UNCHANGED <<server, owed, inFlight, cache, view, floor>>

\* The promise resolves: the cache and the table first, then who awaits it.
Resolve(f) ==
  LET k == fetch[f].key
      n == fetch[f].version
  IN  /\ fetch[f].at = "served"
      /\ cache' = [cache EXCEPT ![k] = [version |-> n, fresh |-> TRUE, late |-> fetch[f].old]]
      /\ view' = [v \in Views |->
           IF view[v].waits = f
           THEN Shows(view[v], [key |-> k, version |-> n, late |-> FALSE]) ELSE view[v]]
      /\ inFlight' = [inFlight EXCEPT ![k] = 0]
      /\ fetch' = [fetch EXCEPT ![f] = NoFetch]
      /\ UNCHANGED <<server, owed, floor>>

Reject(f) ==
  /\ fetch[f].at # "free"
  /\ view' = [v \in Views |->
       IF view[v].waits = f
       THEN [view[v] EXCEPT !.loading = FALSE, !.error = TRUE, !.waits = 0] ELSE view[v]]
  /\ inFlight' = [inFlight EXCEPT ![fetch[f].key] = 0]
  /\ fetch' = [fetch EXCEPT ![f] = NoFetch]
  /\ UNCHANGED <<server, owed, cache, floor>>

\* A save of this page, which will invalidate the key.
Write(k) ==
  /\ server[k] < MaxVersion
  /\ server' = [server EXCEPT ![k] = @ + 1]
  /\ owed' = owed \cup {k}
  /\ UNCHANGED <<fetch, inFlight, cache, view, floor>>

Subscribers(k) == {v \in Views : Active(view[v]) /\ view[v].key = k}
Aged(k)        == [f \in Open |-> [fetch[f] EXCEPT !.old = @ \/ fetch[f].key = k]]

\* Deviation: the request in flight stays in the table, and is joined.
InvalidateKeepsFlight(k) ==
  /\ k \in owed /\ owed' = owed \ {k}
  /\ cache' = [cache EXCEPT ![k] = NoEntry]
  /\ floor' = [floor EXCEPT ![k] = server[k]]
  /\ \/ Subscribers(k) = {} /\ UNCHANGED <<view, inFlight>> /\ fetch' = Aged(k)
     \/ /\ Subscribers(k) # {}
        /\ \E f \in Open :
             /\ Joins(k, f) /\ Asks(k, f)
             /\ view' = [v \in Views |-> IF v \in Subscribers(k) THEN Loads(view[v], f) ELSE view[v]]
  /\ UNCHANGED server

\* invalidateCache(key): every mounted consumer calls execute(true), and the first of
\* them makes the request that the others join.
Invalidate(k) ==
  /\ k \in owed /\ owed' = owed \ {k}
  /\ cache' = [cache EXCEPT ![k] = NoEntry]
  /\ floor' = [floor EXCEPT ![k] = server[k]]
  /\ \/ /\ Subscribers(k) = {}
        /\ inFlight' = [inFlight EXCEPT ![k] = 0] /\ fetch' = Aged(k) /\ UNCHANGED view
     \/ /\ Subscribers(k) # {}
        /\ \E f \in Open :
             /\ fetch[f].at = "free" /\ \A g \in 1..(f - 1) : fetch[g].at # "free"
             /\ inFlight' = [inFlight EXCEPT ![k] = f]
             /\ fetch' = [Aged(k) EXCEPT ![f] = [NoFetch EXCEPT !.at = "asked", !.key = k]]
             /\ view' = [v \in Views |-> IF v \in Subscribers(k) THEN Loads(view[v], f) ELSE view[v]]
  /\ UNCHANGED server

\* staleTime passes, or other keys push the entry out.
Ages(k) ==
  /\ cache[k] # NoEntry
  /\ \/ cache[k].fresh /\ cache' = [cache EXCEPT ![k].fresh = FALSE]
     \/ cache' = [cache EXCEPT ![k] = NoEntry]
  /\ UNCHANGED <<server, owed, fetch, inFlight, view, floor>>

Next ==
  \/ \E v \in Views :
       \/ Unmount(v) \/ Refetch(v)
       \/ \E k \in Keys \cup {NoKey} : Mount(v, k) \/ Change(v, k)
  \/ \E f \in Open : Serve(f) \/ Resolve(f) \/ Reject(f)
  \/ \E k \in Keys : Write(k) \/ Invalidate(k) \/ Ages(k)

Spec == Init /\ [][Next]_vars

-----------------------------------------------------------------------------
(* Properties                                                              *)

\* A view that is not loading and shows no error shows the data of its own key,
\* whatever keys it had while older requests were under way.
OwnData(w) == w.data.key = w.key

\* ... and nothing from before the key was last invalidated.  (Excused: what came
\* from a cache entry that a request from before the invalidation wrote after it.)
Recent(w) == w.data.version >= floor[w.key] \/ w.data.late

ScreenIsRight ==
  \A v \in Views : LET w == view[v]
                   IN  Active(w) /\ ~w.loading /\ ~w.error => OwnData(w) /\ Recent(w)
=============================================================================
