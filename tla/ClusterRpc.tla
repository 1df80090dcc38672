----------------------------- MODULE ClusterRpc -----------------------------
(***************************************************************************)
(* Shared-state calls between the workers of a cluster and its primary:    *)
(*   Backend/src/utils/cluster/ClusterRpcClient.js  one per worker         *)
(*   Backend/src/utils/cluster/ClusterRpcHub.js     in the primary         *)
(*                                                                         *)
(* A request goes to the primary's own handlers, is forwarded to the cron  *)
(* leader, or gathers an answer from every live worker.  Both ends keep a  *)
(* table of what they wait for.  Messages of a channel are a set: what a   *)
(* worker sent may still arrive after its exit was handled, what was sent  *)
(* to it is lost with it, and a worker may take a call and never answer.   *)
(***************************************************************************)
EXTENDS Naturals, FiniteSets

CONSTANTS
  Workers,          \* ids the supervisor forks; an id is used once
  Spares,           \* those that replace workers that exit
  Reqs,             \* bound: calls made
  NoWorker,
  MaxPending,       \* calls one client waits for
  MaxLeaderCalls, MaxGathers

ASSUME RpcAssumption ==
  /\ Spares \subseteq Workers /\ NoWorker \notin Workers
  /\ IsFiniteSet(Workers) /\ IsFiniteSet(Reqs)
  /\ MaxPending \in Nat \ {0} /\ MaxLeaderCalls \in Nat \ {0}
  /\ MaxGathers \in Nat \ {0}

VARIABLES
  live, gone,       \* workers that run, workers that ran
  leader,           \* the live cron leader, or NoWorker
  from, target,     \* per call: asking worker and destination
  outcome,          \* per call: what the caller has been told
  pending,          \* per worker: calls in its table, each with a timer
  wire,             \* messages under way
  calls,            \* #calls of the hub
  leaderCalls, gathers,   \* its two counters
  gather,           \* per call: the gather record, while a call refers to it
  cut,              \* gathers that ended inside their own send loop (history)
  answers           \* per call: RPC_RESPONSE messages sent (history)

cluster == <<live, gone, leader>>
client  == <<from, target, outcome, pending>>
hub     == <<calls, leaderCalls, gathers, gather>>
vars    == <<cluster, client, wire, hub, answers, cut>>

Targets  == {"primary", "leader", "all"}
Outcomes == {"new", "waiting", "settled"}

NoGather == [open |-> FALSE, parts |-> {}, missing |-> {}, outstanding |-> 0]

Request(r)     == [type |-> "request", req |-> r]
CallTo(r, w)   == [type |-> "call", req |-> r, worker |-> w]
Return(r, w)   == [type |-> "return", req |-> r, worker |-> w]
Response(r)    == [type |-> "response", req |-> r]

Init ==
  /\ live = Workers \ Spares /\ leader \in live /\ gone = {}
  /\ from = [r \in Reqs |-> NoWorker]
  /\ target = [r \in Reqs |-> "primary"]
  /\ outcome = [r \in Reqs |-> "new"]
  /\ pending = [w \in Workers |-> {}]
  /\ wire = {} /\ calls = {} /\ leaderCalls = 0 /\ gathers = 0
  /\ gather = [r \in Reqs |-> NoGather]
  /\ answers = [r \in Reqs |-> 0] /\ cut = {}

-----------------------------------------------------------------------------
(* The client of a worker                                                  *)

\* call(): answered on the spot when it cannot or need not be sent.
Call(w, r, t) ==
  /\ w \in live /\ outcome[r] = "new"
  /\ from' = [from EXCEPT ![r] = w]
  /\ target' = [target EXCEPT ![r] = t]
  /\ \/ /\ t = "leader" /\ w = leader
        /\ outcome' = [outcome EXCEPT ![r] = "settled"]
        /\ UNCHANGED <<pending, wire>>
     \/ /\ ~(t = "leader" /\ w = leader)
        /\ Cardinality(pending[w]) < MaxPending
        /\ outcome' = [outcome EXCEPT ![r] = "waiting"]
        /\ pending' = [pending EXCEPT ![w] = @ \cup {r}]
        /\ wire' = wire \cup {Request(r)}
     \/ /\ ~(t = "leader" /\ w = leader)   \* OVERLOAD, or process.send throws
        /\ outcome' = [outcome EXCEPT ![r] = "settled"]
        /\ UNCHANGED <<pending, wire>>
  /\ UNCHANGED <<cluster, hub, answers, cut>>

\* A settled promise: the entry and its timer go with it.
Settle(r) ==
  /\ outcome' = [outcome EXCEPT ![r] = "settled"]
  /\ pending' = [pending EXCEPT ![from[r]] = @ \ {r}]
  /\ UNCHANGED <<from, target>>

ClientTimeout(r) ==
  /\ from[r] \in live /\ r \in pending[from[r]]
  /\ Settle(r)
  /\ UNCHANGED <<cluster, wire, hub, answers, cut>>

\* #onResponse: an answer nobody waits for any more is ignored.
OnResponse(r) ==
  /\ Response(r) \in wire
  /\ wire' = wire \ {Response(r)}
  /\ \/ r \in pending[from[r]] /\ Settle(r)
     \/ r \notin pending[from[r]] /\ UNCHANGED client
  /\ UNCHANGED <<cluster, hub, answers, cut>>

\* #onCall: the handler's answer or its failure, which OnReturn tells apart.
OnCall(r, w) ==
  /\ CallTo(r, w) \in wire
  /\ wire' = (wire \ {CallTo(r, w)}) \cup {Return(r, w)}
  /\ UNCHANGED <<cluster, client, hub, answers, cut>>

-----------------------------------------------------------------------------
(* The hub                                                                 *)

LeaderCall(r) == {c \in calls : c.kind = "leader" /\ c.req = r}
Parts(r)      == {c \in calls : c.kind = "gather" /\ c.req = r}

\* #respondTo and #respond: nobody reads what is sent to a worker that exited.
Told(R, L) == [r \in Reqs |-> answers[r] + IF r \in R /\ from[r] \in L THEN 1 ELSE 0]
Sent(R, L) == {Response(r) : r \in {q \in R : from[q] \in L}}

\* #forwardToLeader: no leader, too many calls, or a call the channel takes or
\* refuses.
ForwardToLeader(r) ==
  LET c == [kind |-> "leader", req |-> r, worker |-> leader]
  IN  \/ /\ leader # NoWorker /\ leaderCalls < MaxLeaderCalls
         /\ calls' = calls \cup {c} /\ leaderCalls' = leaderCalls + 1
         /\ wire' = (wire \ {Request(r)}) \cup {CallTo(r, leader)}
         /\ UNCHANGED <<gathers, gather, answers>>
      \/ /\ wire' = (wire \ {Request(r)}) \cup Sent({r}, live)
         /\ answers' = Told({r}, live)
         /\ UNCHANGED hub

Part(r, w) == [kind |-> "gather", req |-> r, worker |-> w]

\* #gather: one call per live worker, one after the other; F are those whose
\* channel refuses the call.  The answer waits for the calls that were sent and
\* for a timer.  But #gatherPartDone counts what is outstanding so far: when the
\* first send is refused it finishes the gather inside the loop, and the calls
\* that follow enter the table of a gather that is done and has no timer.
Gather(r) ==
  \/ \E F \in SUBSET live :
       /\ gathers < MaxGathers
       /\ calls' = calls \cup {Part(r, w) : w \in live \ F}
       /\ UNCHANGED leaderCalls
       /\ \/ /\ F # live
             /\ gather' = [gather EXCEPT ![r] =
                  [open |-> TRUE, parts |-> {}, missing |-> live,
                   outstanding |-> Cardinality(live \ F)]]
             /\ gathers' = gathers + 1
             /\ wire' = (wire \ {Request(r)}) \cup {CallTo(r, w) : w \in live \ F}
             /\ UNCHANGED <<answers, cut>>
          \/ /\ F # {}
             /\ gather' = [gather EXCEPT ![r] =
                  [open |-> FALSE, parts |-> {}, missing |-> live,
                   outstanding |-> Cardinality(live \ F)]]
             /\ cut' = cut \cup {r}
             /\ wire' = (wire \ {Request(r)}) \cup {CallTo(r, w) : w \in live \ F}
                          \cup Sent({r}, live)
             /\ answers' = Told({r}, live)
             /\ UNCHANGED gathers
  \/ /\ gathers >= MaxGathers \/ live = {}
     /\ wire' = (wire \ {Request(r)}) \cup Sent({r}, live)
     /\ answers' = Told({r}, live)
     /\ UNCHANGED <<hub, cut>>

\* #onRequest, the primary's own handlers included.
OnRequest(r) ==
  /\ Request(r) \in wire
  /\ \/ /\ target[r] = "primary"
        /\ wire' = (wire \ {Request(r)}) \cup Sent({r}, live)
        /\ answers' = Told({r}, live)
        /\ UNCHANGED <<hub, cut>>
     \/ target[r] = "leader" /\ ForwardToLeader(r) /\ UNCHANGED cut
     \/ target[r] = "all" /\ Gather(r)
  /\ UNCHANGED <<cluster, client>>

\* #gatherPartDone for each of the given calls; the last one closes the gather.
PartsDone(C, ok) ==
  [r \in Reqs |->
     LET W == {c.worker : c \in {d \in C : d.req = r}}
         n == gather[r].outstanding - Cardinality(W)
     IN  IF n = 0 THEN NoGather
         ELSE [gather[r] EXCEPT !.outstanding = n,
                                !.parts = IF ok THEN @ \cup W ELSE @,
                                !.missing = IF ok THEN @ \ W ELSE @]]

Finishing(g) == {r \in Reqs : gather[r].open /\ ~g[r].open}

\* #onReturn: only the worker a pending call went to may answer it.
OnReturn(r, w, ok) ==
  /\ Return(r, w) \in wire
  /\ LET L == {c \in LeaderCall(r) : c.worker = w}
         G == {c \in Parts(r) : c.worker = w}
         g == PartsDone(G, ok)
         R == {r} \cap ({c.req : c \in L} \cup Finishing(g))
     IN  /\ calls' = calls \ (L \cup G)
         /\ leaderCalls' = leaderCalls - Cardinality(L)
         /\ gather' = g
         /\ gathers' = gathers - Cardinality(Finishing(g))
         /\ wire' = (wire \ {Return(r, w)}) \cup Sent(R, live)
         /\ answers' = Told(R, live)
  /\ UNCHANGED <<cluster, client, cut>>

\* Deviation: the timer of a leader call leaves the table as it is.
LeaderTimeoutKeeps(r) ==
  /\ LeaderCall(r) # {}
  /\ wire' = wire \cup Sent({r}, live)
  /\ answers' = Told({r}, live)
  /\ UNCHANGED <<cluster, client, hub, cut>>

LeaderTimeout(r) ==
  /\ LeaderCall(r) # {}
  /\ calls' = calls \ LeaderCall(r)
  /\ leaderCalls' = leaderCalls - 1
  /\ wire' = wire \cup Sent({r}, live)
  /\ answers' = Told({r}, live)
  /\ UNCHANGED <<cluster, client, gathers, gather, cut>>

\* Deviation: the late parts stay in the table.
GatherTimeoutLeavesParts(r) ==
  /\ gather[r].open
  /\ gather' = [gather EXCEPT ![r] = NoGather]
  /\ gathers' = gathers - 1
  /\ wire' = wire \cup Sent({r}, live)
  /\ answers' = Told({r}, live)
  /\ UNCHANGED <<cluster, client, calls, leaderCalls, cut>>

\* #finishGather by its timer: the late parts are forgotten.
GatherTimeout(r) ==
  /\ gather[r].open
  /\ gather' = [gather EXCEPT ![r] = NoGather]
  /\ gathers' = gathers - 1
  /\ calls' = calls \ Parts(r)
  /\ wire' = wire \cup Sent({r}, live)
  /\ answers' = Told({r}, live)
  /\ UNCHANGED <<cluster, client, leaderCalls, cut>>

-----------------------------------------------------------------------------
(* Workers come and go                                                     *)

Affected(w) == {c \in calls : c.worker = w \/ from[c.req] = w}

\* onWorkerExit: what the worker asked is dropped, what it was asked fails.
WorkerExit(w) ==
  LET own    == {c \in Affected(w) : from[c.req] = w}
      failed == {c \in Affected(w) : c.kind = "leader"} \ own
      g      == PartsDone({c \in Affected(w) : c.kind = "gather"}, FALSE)
      R      == {c.req : c \in failed}
                  \cup {r \in Finishing(g) : from[r] # w}
  IN  /\ w \in live
      /\ live' = live \ {w} /\ gone' = gone \cup {w}
      /\ leader' = IF leader = w THEN NoWorker ELSE leader
      /\ calls' = calls \ Affected(w)
      /\ leaderCalls' = leaderCalls
           - Cardinality({c \in Affected(w) : c.kind = "leader"})
      /\ gather' = g
      /\ gathers' = gathers - Cardinality(Finishing(g))
      /\ wire' = {m \in wire :
                    /\ m.type = "call" => m.worker # w
                    /\ m.type = "response" => from[m.req] # w}
                 \cup Sent(R, live')
      /\ answers' = Told(R, live')
      /\ pending' = [pending EXCEPT ![w] = {}]
      /\ outcome' = [r \in Reqs |-> IF r \in pending[w] THEN "settled" ELSE outcome[r]]
      /\ UNCHANGED <<from, target, cut>>

\* The supervisor replaces a worker; the leader's successor is the leader.
Fork(w) ==
  /\ w \notin live \cup gone
  /\ Cardinality(live) < Cardinality(Workers \ Spares)
  /\ live' = live \cup {w}
  /\ leader' \in IF leader = NoWorker THEN {w, NoWorker} ELSE {leader}
  /\ UNCHANGED <<gone, client, wire, hub, answers, cut>>

Next ==
  \/ \E w \in Workers : WorkerExit(w) \/ Fork(w)
  \/ \E w \in Workers, r \in Reqs, t \in Targets : Call(w, r, t)
  \/ \E r \in Reqs : \/ OnRequest(r) \/ OnResponse(r)
                     \/ ClientTimeout(r) \/ LeaderTimeout(r) \/ GatherTimeout(r)
  \/ \E r \in Reqs, w \in Workers :
       OnCall(r, w) \/ \E ok \in BOOLEAN : OnReturn(r, w, ok)

\* Only the timers are fair: no worker has to answer.
Fairness ==
  \A r \in Reqs : /\ WF_vars(ClientTimeout(r))
                  /\ WF_vars(LeaderTimeout(r))
                  /\ WF_vars(GatherTimeout(r))

Spec     == Init /\ [][Next]_vars
FairSpec == Spec /\ Fairness

-----------------------------------------------------------------------------
(* Properties                                                              *)

Call_   == [kind : {"leader", "gather"}, req : Reqs, worker : Workers]
Message == [type : {"request", "response"}, req : Reqs]
             \cup [type : {"call", "return"}, req : Reqs, worker : Workers]

\* Every variable has its type (the base of HubAccounted).
TypeOK ==
  /\ live \subseteq Workers /\ gone \subseteq Workers
  /\ leader \in Workers \cup {NoWorker}
  /\ from \in [Reqs -> Workers \cup {NoWorker}]
  /\ target \in [Reqs -> Targets] /\ outcome \in [Reqs -> Outcomes]
  /\ pending \in [Workers -> SUBSET Reqs]
  /\ wire \subseteq Message
  /\ calls \subseteq Call_
  /\ leaderCalls \in Nat /\ gathers \in Nat
  /\ gather \in [Reqs -> [open : BOOLEAN, parts : SUBSET Workers,
                          missing : SUBSET Workers, outstanding : Nat]]
  /\ answers \in [Reqs -> Nat] /\ cut \subseteq Reqs

\* The two counters that bound the hub equal what its table holds, on every
\* path an entry leaves it: an answer, a timeout, the exit of either side.
CountersMatch ==
  /\ leaderCalls = Cardinality({c \in calls : c.kind = "leader"})
  /\ gathers = Cardinality({r \in Reqs : gather[r].open})

\* A gather is open, and has its timer, exactly as long as calls of it are
\* outstanding.  Entries without a timer belong to gathers that ended in their
\* own send loop, and to no others.
GathersAccounted ==
  \A r \in Reqs :
    /\ gather[r].outstanding = Cardinality(Parts(r))
    /\ gather[r].open <=> Parts(r) # {} /\ r \notin cut
    /\ gather[r].parts \cap gather[r].missing = {}
    /\ \A c \in Parts(r) : c.worker \in gather[r].missing

\* No request is answered twice, whichever of the answer, the timeout and the
\* leader's exit come first, and no entry of the hub belongs to a request that
\* was answered, but for what a gather left that ended in its own send loop:
\* its late answers must not answer it again.
AnsweredOnce ==
  \A r \in Reqs : /\ answers[r] <= 1
                  /\ answers[r] = 1 => r \in cut \/ \A c \in calls : c.req # r

\* The hub's books are right: see the four parts.
HubAccounted == TypeOK /\ CountersMatch /\ GathersAccounted /\ AnsweredOnce

\* Every call ends for its caller, answered or not, and the hub keeps no entry
\* for ever, even when the workers it asked never answer; what a gather left that
\* ended in its own send loop has no timer and goes only with the worker's answer
\* or exit.
CallsEnd ==
  \A r \in Reqs :
    /\ outcome[r] = "waiting" ~> outcome[r] # "waiting"
    /\ (\E c \in calls : c.req = r) ~> r \in cut \/ \A c \in calls : c.req # r
=============================================================================
