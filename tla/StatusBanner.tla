---------------------------- MODULE StatusBanner -----------------------------
(***************************************************************************)
(* From the state of the database to the banner in a browser tab.          *)
(*   Backend/src/services/HealthStreamHub.js, ReadinessService.js          *)
(*   Backend/src/routes/health.route.js                                    *)
(*   Frontend/src/utils/serverStatus.js           the store of a tab       *)
(*   Frontend/src/components/shared/serverStatus/ its stream, loop, watch  *)
(*                                                                         *)
(* One worker and its tabs.  The verdict of an evaluation is what its probe*)
(* saw of the database; everything after the probe may come late.          *)
(***************************************************************************)
EXTENDS Naturals, Sequences

CONSTANTS
  Tabs,
  MaxFlips,  \* bound: changes of the database
  MaxStops,  \* bound: ends of the worker
  MaxCuts    \* bound: streams that the network cuts

VARIABLES
  db,       \* "ready" or "down"
  worker,   \* "up", "draining" or "gone"
  eval,     \* ReadinessService's _inFlight: what it saw, and who awaits it
  hub,      \* _last, _evaluating, _pending
  clients,  \* tabs whose stream the hub writes to
  check,    \* a health check that is not yet reported, or NoCheck; fresh: the
            \* database has not changed since
  stream,   \* per tab: "open", "connecting" or "refused"
  frames,   \* per tab: what the hub wrote and the tab has not read
  tab,      \* per tab: the store's phase, and strict
  probe,    \* per tab: its readiness probe
  told,     \* history: a check has told the hub what the database is now, and no
            \* evaluation that saw it otherwise was to be the last word on it
  bounds,   \* [flips, stops, cuts] so far
  answered  \* history, per tab: a probe's 200 ended its episode

vars == <<db, worker, eval, hub, clients, check, stream, frames, tab, probe,
          told, bounds, answered>>
server == <<db, worker, eval, hub, clients, check, told, bounds>>

NoEval  == [on |-> FALSE, saw |-> "none", hub |-> FALSE, tabs |-> {}]
NoHub   == [last |-> "none", busy |-> FALSE, again |-> FALSE]
NoCheck == [res |-> "none", fresh |-> FALSE]
NoProbe == [at |-> "no", ans |-> "none", stale |-> FALSE, watch |-> FALSE]

Init ==
  /\ db = "ready" /\ worker = "up"
  /\ eval = NoEval /\ hub = NoHub /\ clients = {} /\ check = NoCheck
  /\ stream = [t \in Tabs |-> "connecting"]
  /\ frames = [t \in Tabs |-> <<>>]
  /\ tab = [t \in Tabs |-> [phase |-> "idle", strict |-> FALSE]]
  /\ probe = [t \in Tabs |-> NoProbe]
  /\ told = FALSE /\ bounds = [flips |-> 0, stops |-> 0, cuts |-> 0]
  /\ answered = [t \in Tabs |-> FALSE]

-----------------------------------------------------------------------------
(* The store of a tab: what each report makes of it.                       *)

Down == {"unavailable", "restarting"}
Goes(s, phase) == [s EXCEPT !.phase = phase]

OnShutdown(s) == Goes(s, "restarting")
OnNetworkFailure(s) == IF s.phase \in {"idle", "recovered"} THEN Goes(s, "pending") ELSE s
OnOutage(s) == [phase |-> "unavailable", strict |-> TRUE]

\* Deviation: any answer ends an outage.
OnOkLax(s, stale, healthy) ==
  IF s.phase \in {"idle", "recovered"} \/ stale THEN s
  ELSE [phase |-> IF s.phase = "pending" THEN "idle" ELSE "recovered", strict |-> FALSE]

OnOk(s, stale, healthy) ==
  IF s.phase \in {"idle", "recovered"} \/ stale \/ (s.strict /\ ~healthy) THEN s
  ELSE [phase |-> IF s.phase = "pending" THEN "idle" ELSE "recovered", strict |-> FALSE]

\* commit: an episode that ends aborts the loop's probe; a drain makes an older
\* probe stale.
Reports(t, new) ==
  /\ tab' = [tab EXCEPT ![t] = new]
  /\ answered' = [answered EXCEPT ![t] = @ /\ ~new.strict]

Kept(p, new) == IF new.phase \notin Down /\ ~p.watch THEN NoProbe ELSE p
Aged(p) == IF p = NoProbe THEN p ELSE [p EXCEPT !.stale = TRUE]

ReportsShutdown(t) ==
  /\ Reports(t, OnShutdown(tab[t]))
  /\ probe' = [probe EXCEPT ![t] = Aged(@)]

ReportsOther(t, new) ==
  /\ Reports(t, new)
  /\ probe' = [probe EXCEPT ![t] = Kept(@, new)]

ShowTimer(t) ==
  /\ tab[t].phase = "pending"
  /\ ReportsOther(t, Goes(tab[t], "unavailable"))
  /\ UNCHANGED <<server, stream, frames>>

RecoveryTimer(t) ==
  /\ tab[t].phase = "recovered"
  /\ tab' = [tab EXCEPT ![t].phase = "idle"]
  /\ UNCHANGED <<server, stream, frames, probe, answered>>

\* What other requests of the tab report: HttpClient, useLiveStream.
Traffic(t) ==
  /\ \/ ReportsOther(t, OnNetworkFailure(tab[t]))
     \/ worker = "up" /\ ReportsOther(t, OnOk(tab[t], FALSE, FALSE))
     \/ worker = "up" /\ db = "down" /\ ReportsOther(t, OnOutage(tab[t]))
     \/ worker = "draining" /\ ReportsShutdown(t)
  /\ UNCHANGED <<server, stream, frames>>

-----------------------------------------------------------------------------
(* The worker: evaluations and the hub.                                    *)

\* Deviation: nothing is queued behind an evaluation that runs (no _pending).
RequestUnqueued(h, e, cs) ==
  IF cs = {} \/ worker # "up" \/ h.busy THEN <<h, e>>
  ELSE <<[h EXCEPT !.busy = TRUE], [e EXCEPT !.on = TRUE, !.hub = TRUE]>>

\* _requestEvaluate with these clients: one runs, at most one is queued; it
\* joins the evaluation that is under way, whoever asked for it.
RequestEvaluate(h, e, cs) ==
  IF cs = {} \/ worker # "up" THEN <<h, e>>
  ELSE IF h.busy THEN <<[h EXCEPT !.again = TRUE], e>>
  ELSE <<[h EXCEPT !.busy = TRUE], [e EXCEPT !.on = TRUE, !.hub = TRUE]>>

Evaluates(h, e, cs) ==
  /\ hub' = RequestEvaluate(h, e, cs)[1]
  /\ eval' = RequestEvaluate(h, e, cs)[2]

EvalSees ==
  /\ eval.on /\ eval.saw = "none"
  /\ eval' = [eval EXCEPT !.saw = db]
  /\ UNCHANGED <<db, worker, hub, clients, check, told, bounds, stream, frames, tab, probe, answered>>

\* Deviation: a verdict is sent when it is good news only.
BroadcastsReady(v) == v = "ready" /\ hub.last # v

\* _publish: a verdict is sent when it differs from the last one.
Broadcasts(v) == hub.last # v

\* The evaluation ends: its requests are answered, the hub publishes.
EvalEnds ==
  /\ eval.on /\ eval.saw # "none"
  /\ probe' = [t \in Tabs |-> IF t \in eval.tabs /\ probe[t].at = "waits"
                              THEN [probe[t] EXCEPT !.at = "back", !.ans = eval.saw] ELSE probe[t]]
  /\ IF eval.hub
     THEN LET h == [last |-> eval.saw, busy |-> FALSE, again |-> FALSE] IN
          /\ frames' = [t \in Tabs |-> IF t \in clients /\ Broadcasts(eval.saw)
                                       THEN Append(frames[t], eval.saw) ELSE frames[t]]
          /\ IF hub.again THEN Evaluates(h, NoEval, clients) ELSE hub' = h /\ eval' = NoEval
     ELSE eval' = NoEval /\ UNCHANGED <<hub, frames>>
  /\ UNCHANGED <<db, worker, clients, check, told, bounds, stream, tab, answered>>

\* HEALTH_STREAM_EVAL_MS.
EvalTimer ==
  /\ clients # {} /\ worker = "up"
  /\ Evaluates(hub, eval, clients)
  /\ UNCHANGED <<db, worker, clients, check, told, bounds, stream, frames, tab, probe, answered>>

CheckSees ==
  /\ worker = "up" /\ check = NoCheck
  /\ check' = [res |-> db, fresh |-> TRUE]
  /\ UNCHANGED <<db, worker, eval, hub, clients, told, bounds, stream, frames, tab, probe, answered>>

\* An evaluation is under way that saw what the database no longer is.
Outdated == eval.saw \notin {"none", db}

\* The check asks for an evaluation while the hub's own runs.
Queued == hub.busy /\ hub.last # check.res

\* onPoolHealthCheck: a result that contradicts the last verdict is looked into.
CheckReports ==
  /\ check # NoCheck /\ check' = NoCheck
  /\ IF clients = {} THEN UNCHANGED <<hub, eval, told>>
     ELSE /\ told' = (told \/ (check.fresh /\ (Outdated => Queued)))
          /\ IF hub.last # check.res THEN Evaluates(hub, eval, clients)
                                     ELSE UNCHANGED <<hub, eval>>
  /\ UNCHANGED <<db, worker, clients, bounds, stream, frames, tab, probe, answered>>

\* _remove, and _stop after the last client.
Without(h, cs) == IF cs = {} THEN [h EXCEPT !.last = "none"] ELSE h

Flips ==
  /\ bounds.flips < MaxFlips
  /\ db' = (IF db = "ready" THEN "down" ELSE "ready") /\ told' = FALSE
  /\ check' = IF check = NoCheck THEN check ELSE [check EXCEPT !.fresh = FALSE]
  /\ bounds' = [bounds EXCEPT !.flips = @ + 1]
  /\ UNCHANGED <<worker, eval, hub, clients, stream, frames, tab, probe, answered>>

\* beginShutdown and endAll: every stream is told and ended.
Stop ==
  /\ worker = "up" /\ bounds.stops < MaxStops
  /\ worker' = "draining" /\ bounds' = [bounds EXCEPT !.stops = @ + 1]
  /\ frames' = [t \in Tabs |-> IF t \in clients THEN Append(frames[t], "shutdown") ELSE frames[t]]
  /\ clients' = {} /\ hub' = IF clients = {} THEN hub ELSE Without(hub, {})
  /\ check' = NoCheck
  /\ UNCHANGED <<db, eval, told, stream, tab, probe, answered>>

\* The process ends, drained or not; what waits for it fails.
Gone ==
  /\ worker = "draining" \/ (worker = "up" /\ bounds.stops < MaxStops)
  /\ worker' = "gone"
  /\ bounds' = IF worker = "up" THEN [bounds EXCEPT !.stops = @ + 1] ELSE bounds
  /\ eval' = NoEval /\ hub' = NoHub /\ clients' = {} /\ check' = NoCheck
  /\ probe' = [t \in Tabs |-> IF probe[t].at = "waits" THEN [probe[t] EXCEPT !.at = "back", !.ans = "fail"]
                                                     ELSE probe[t]]
  /\ UNCHANGED <<db, told, stream, frames, tab, answered>>

Restart ==
  /\ worker = "gone" /\ worker' = "up"
  /\ UNCHANGED <<db, eval, hub, clients, check, told, bounds, stream, frames, tab, probe, answered>>

-----------------------------------------------------------------------------
(* The stream of a tab.                                                    *)

\* Deviation: a new client is not told the last verdict.
FirstFramesNone(h) == <<>>

FirstFrames(h) == IF h.last = "none" THEN <<>> ELSE <<h.last>>

\* The browser connects or reconnects: open, the refusal of a drain, or nothing.
Connect(t) ==
  /\ stream[t] = "connecting"
  /\ \/ /\ worker = "up"
        /\ stream' = [stream EXCEPT ![t] = "open"]
        /\ clients' = clients \cup {t}
        /\ frames' = [frames EXCEPT ![t] = FirstFrames(hub)]
        /\ told' = (told /\ clients # {})
        /\ Evaluates(hub, eval, clients')
        /\ UNCHANGED <<tab, probe, answered>>
     \/ /\ worker # "gone"   \* draining, or the per-IP cap
        /\ stream' = [stream EXCEPT ![t] = "refused"]
        /\ UNCHANGED <<hub, eval, clients, told, frames, tab, probe, answered>>
     \/ /\ worker # "up"
        /\ ReportsOther(t, OnNetworkFailure(tab[t]))
        /\ UNCHANGED <<hub, eval, clients, told, frames, stream>>
  /\ UNCHANGED <<db, worker, check, bounds>>

\* STREAM_RETRY_AFTER_REFUSAL_MS.
Retry(t) ==
  /\ stream[t] = "refused" /\ stream' = [stream EXCEPT ![t] = "connecting"]
  /\ probe' = [probe EXCEPT ![t] = IF @.watch THEN NoProbe ELSE @]
  /\ UNCHANGED <<server, frames, tab, answered>>

\* A frame arrives.
Frame(t) ==
  /\ stream[t] = "open" /\ frames[t] # <<>>
  /\ frames' = [frames EXCEPT ![t] = Tail(@)]
  /\ CASE Head(frames[t]) = "ready"    -> ReportsOther(t, OnOk(tab[t], FALSE, TRUE))
       [] Head(frames[t]) = "down"     -> ReportsOther(t, OnOutage(tab[t]))
       [] Head(frames[t]) = "shutdown" -> ReportsShutdown(t)
  /\ UNCHANGED <<server, stream>>

\* The network cuts the stream: the hub's side closes.
Cut(t) ==
  /\ t \in clients /\ bounds.cuts < MaxCuts
  /\ bounds' = [bounds EXCEPT !.cuts = @ + 1]
  /\ clients' = clients \ {t} /\ hub' = Without(hub, clients')
  /\ UNCHANGED <<db, worker, eval, check, told, stream, frames, tab, probe, answered>>

\* onerror, or no frame for HEARTBEAT_STALE_MS: the browser connects again, and
\* what was not yet read may be lost.
Lost(t) ==
  /\ stream[t] = "open" /\ t \notin clients
  /\ stream' = [stream EXCEPT ![t] = "connecting"]
  /\ frames' = [frames EXCEPT ![t] = <<>>]
  /\ ReportsOther(t, OnNetworkFailure(tab[t]))
  /\ UNCHANGED server

-----------------------------------------------------------------------------
(* Probes: of the banner's loop in an episode, of the watch without stream. *)

Probe(t) ==
  /\ probe[t] = NoProbe
  /\ \E watch \in BOOLEAN :
       /\ IF watch THEN tab[t].phase = "idle" /\ stream[t] = "refused" ELSE tab[t].phase \in Down
       /\ probe' = [probe EXCEPT ![t] = [NoProbe EXCEPT !.at = "sent", !.watch = watch]]
  /\ UNCHANGED <<server, stream, frames, tab, answered>>

\* GET /ready: 503 while draining, else an evaluation, shared with others.
Arrives(t) ==
  /\ probe[t].at = "sent"
  /\ IF worker = "up"
     THEN /\ eval' = [eval EXCEPT !.on = TRUE, !.tabs = @ \cup {t}]
          /\ probe' = [probe EXCEPT ![t].at = "waits"]
     ELSE /\ probe' = [probe EXCEPT ![t].at = "back",
                         ![t].ans = IF worker = "gone" THEN "fail" ELSE "drain"]
          /\ UNCHANGED eval
  /\ UNCHANGED <<db, worker, hub, clients, check, told, bounds, stream, frames, tab, answered>>

\* What the loop reports of an answer.
LoopReports(t, ans, stale) ==
  CASE ans = "ready" -> OnOk(tab[t], stale, TRUE)
    [] ans = "down"  -> OnOutage(tab[t])
    [] ans = "fail"  -> IF tab[t].strict /\ tab[t].phase \in Down THEN OnOutage(tab[t]) ELSE tab[t]
    [] ans = "drain" -> OnShutdown(tab[t])

\* reportReadiness: only while the store is idle.
WatchReports(t, ans) ==
  CASE tab[t].phase # "idle" \/ ans = "ready" -> tab[t]
    [] tab[t].phase = "idle" /\ ans = "down"  -> OnOutage(tab[t])
    [] tab[t].phase = "idle" /\ ans = "fail"  -> OnNetworkFailure(tab[t])
    [] tab[t].phase = "idle" /\ ans = "drain" -> OnShutdown(tab[t])

Back(t) ==
  /\ probe[t].at = "back"
  /\ LET p == probe[t]
         new == IF p.watch THEN WatchReports(t, p.ans) ELSE LoopReports(t, p.ans, p.stale)
     IN /\ tab' = [tab EXCEPT ![t] = new]
        /\ answered' = [answered EXCEPT ![t] =
             (tab[t].phase \in Down /\ new.phase = "recovered") \/ (@ /\ ~new.strict)]
  /\ probe' = [probe EXCEPT ![t] = NoProbe]
  /\ UNCHANGED <<server, stream, frames>>

Next ==
  \/ EvalSees \/ EvalEnds \/ EvalTimer \/ CheckSees \/ CheckReports
  \/ Flips \/ Stop \/ Gone \/ Restart
  \/ \E t \in Tabs :
       \/ ShowTimer(t) \/ RecoveryTimer(t) \/ Traffic(t)
       \/ Connect(t) \/ Retry(t) \/ Frame(t) \/ Cut(t) \/ Lost(t)
       \/ Probe(t) \/ Arrives(t) \/ Back(t)

Spec == Init /\ [][Next]_vars

-----------------------------------------------------------------------------
(* Properties                                                              *)

Quiet(t) == ~eval.on /\ frames[t] = <<>> /\ t \in clients

\* Once a health check has told the hub what the database is, and nothing is under
\* way, it knows: an evaluation that the hub had started before does not have the
\* last word, as the check is looked into after it (_pending).  Excused, until the
\* next check: an evaluation that saw the database otherwise is under way, and the
\* hub joins it, as a probe had asked for it, or the check agrees with the verdict
\* that it will replace; either way nothing is queued behind it.
HubIsCurrent == \A t \in Tabs : Quiet(t) /\ told => hub.last = db

\* ... and no tab with a stream, new or old, sits there without the banner in an
\* outage.  Excused: a tab whose probe was answered 200 before this outage began
\* or between two, as the hub does not know that it showed "Back online".
OutageIsShown ==
  \A t \in Tabs :
    Quiet(t) /\ told /\ db = "down" /\ ~answered[t] => tab[t].phase \in Down

\* A drain is the last thing a stream says: no verdict follows that would call a
\* restart an outage of the database.
DrainIsLast ==
  \A t \in Tabs : \A i \in DOMAIN frames[t] : frames[t][i] = "shutdown" => i = Len(frames[t])

BannerIsRight == HubIsCurrent /\ OutageIsShown /\ DrainIsLast
=============================================================================
