-------------------------- MODULE ClusterRpcProofs --------------------------
(***************************************************************************)
(* The books of the hub, for any number of workers, calls and limits.      *)
(***************************************************************************)
EXTENDS ClusterRpc, FiniteSetTheorems, TLAPS

\* A request that was not sent, or was sent and not taken, has left no trace
\* at the hub.
Untouched(r) == answers[r] = 0 /\ r \notin cut /\ \A c \in calls : c.req # r

Arrivals ==
  \A r \in Reqs : outcome[r] = "new" => Request(r) \notin wire /\ Untouched(r)

Unserved == \A r \in Reqs : Request(r) \in wire => Untouched(r)

\* A request has leader calls or parts according to its target, never both.
Destined ==
  \A c \in calls : target[c.req] = IF c.kind = "leader" THEN "leader" ELSE "all"

\* Only gathers end in a send loop.
CutGathers == \A r \in cut : target[r] = "all"

OneLeaderCall ==
  \A c, d \in calls : c.kind = "leader" /\ d.kind = "leader" /\ c.req = d.req => c = d

HubInv ==
  /\ HubAccounted
  /\ IsFiniteSet(calls)
  /\ Arrivals /\ Unserved /\ Destined /\ OneLeaderCall /\ CutGathers

LEMMA HubInit == Init => HubInv
<1> SUFFICES ASSUME Init PROVE HubInv
  OBVIOUS
<1>1. TypeOK
  BY RpcAssumption DEF Init, TypeOK, Targets, Outcomes, NoGather
<1>2. \A r \in Reqs : Parts(r) = {} /\ LeaderCall(r) = {}
  BY DEF Init, Parts, LeaderCall
<1>3. CountersMatch
  <2>1. {c \in calls : c.kind = "leader"} = {} /\ {r \in Reqs : gather[r].open} = {}
    BY DEF Init, NoGather
  <2> QED BY <2>1, FS_EmptySet DEF Init, CountersMatch
<1>4. GathersAccounted
  BY <1>2, FS_EmptySet DEF Init, GathersAccounted, NoGather
<1>5. AnsweredOnce
  BY DEF Init, AnsweredOnce
<1>6. IsFiniteSet(calls)
  BY FS_EmptySet DEF Init
<1>7. Arrivals /\ Unserved /\ Destined /\ OneLeaderCall /\ CutGathers
  BY DEF Init, Arrivals, Unserved, Untouched, Destined, OneLeaderCall, CutGathers
<1> QED BY <1>1, <1>3, <1>4, <1>5, <1>6, <1>7 DEF HubInv, HubAccounted

-----------------------------------------------------------------------------
(* The table as sets: parts and the workers they were sent to              *)

\* The parts of a request are as many as the workers they are for.
LEMMA PartsOfWorkers ==
  ASSUME NEW r, NEW S, IsFiniteSet(S)
  PROVE  /\ IsFiniteSet({Part(r, w) : w \in S})
         /\ Cardinality({Part(r, w) : w \in S}) = Cardinality(S)
<1> DEFINE T == {Part(r, w) : w \in S}
           f == [w \in S |-> Part(r, w)]
<1>1. f \in Bijection(S, T)
  <2>1. f \in [S -> T]
    OBVIOUS
  <2>2. \A a, b \in S : f[a] = f[b] => a = b
    <3> SUFFICES ASSUME NEW a \in S, NEW b \in S, Part(r, a) = Part(r, b) PROVE a = b
      OBVIOUS
    <3>1. Part(r, a).worker = a /\ Part(r, b).worker = b
      BY DEF Part
    <3> QED BY <3>1
  <2>3. \A t \in T : \E w \in S : f[w] = t
    OBVIOUS
  <2> QED BY <2>1, <2>2, <2>3 DEF Bijection, Injection, IsInjective, Surjection
<1>2. ExistsBijection(S, T)
  BY <1>1 DEF ExistsBijection
<1> QED BY <1>2, FS_Bijection

\* The same for a set of parts that is given.
LEMMA WorkersOfParts ==
  ASSUME NEW r \in Reqs, NEW C \in SUBSET Call_,
         \A c \in C : c.kind = "gather" /\ c.req = r
  PROVE  LET W == {c.worker : c \in C}
         IN  /\ C = {Part(r, w) : w \in W}
             /\ W \subseteq Workers
             /\ IsFiniteSet(C) /\ IsFiniteSet(W)
             /\ Cardinality(C) = Cardinality(W)
<1> DEFINE W == {c.worker : c \in C}
<1>1. W \subseteq Workers
  BY DEF Call_
<1>2. IsFiniteSet(W)
  BY <1>1, FS_Subset, RpcAssumption
<1>3. \A c \in C : c = Part(r, c.worker)
  BY DEF Call_, Part
<1>4. C = {Part(r, w) : w \in W}
  BY <1>3
<1>5. /\ IsFiniteSet({Part(r, w) : w \in W})
      /\ Cardinality({Part(r, w) : w \in W}) = Cardinality(W)
  BY <1>2, PartsOfWorkers
<1> QED BY <1>1, <1>2, <1>4, <1>5

-----------------------------------------------------------------------------
(* What the two sides of the hub do to its table                           *)

LEMMA PartsFinite ==
  ASSUME HubInv, NEW r \in Reqs
  PROVE  IsFiniteSet(Parts(r)) /\ Cardinality(Parts(r)) \in Nat
<1>1. Parts(r) \in SUBSET calls
  BY DEF Parts
<1> QED BY <1>1, FS_Subset, FS_CardinalityType DEF HubInv

\* Parts that are done leave their gather with as many outstanding calls as it
\* has parts left, and without parts it closes.
LEMMA PartsDoneEffect ==
  ASSUME HubInv, NEW C \in SUBSET calls, NEW ok \in BOOLEAN,
         \A c \in C : c.kind = "gather",
         gather' = PartsDone(C, ok),
         gathers' = gathers - Cardinality(Finishing(gather')),
         \A r \in Reqs : Parts(r)' = Parts(r) \ C, cut' = cut
  PROVE  /\ gather' \in [Reqs -> [open : BOOLEAN, parts : SUBSET Workers,
                                 missing : SUBSET Workers, outstanding : Nat]]
         /\ gathers' \in Nat /\ gathers' = Cardinality({r \in Reqs : gather[r].open})'
         /\ GathersAccounted'
         /\ \A r \in Finishing(gather') :
              Parts(r) # {} /\ Parts(r)' = {} /\ r \notin cut
<1> USE DEF HubInv, HubAccounted
<1>1. ASSUME NEW r \in Reqs
      PROVE  /\ gather'[r] \in [open : BOOLEAN, parts : SUBSET Workers,
                                missing : SUBSET Workers, outstanding : Nat]
             /\ gather'[r].outstanding = Cardinality(Parts(r)')
             /\ gather'[r].open <=> Parts(r)' # {} /\ r \notin cut
             /\ gather'[r].parts \cap gather'[r].missing = {}
             /\ \A c \in Parts(r)' : c.worker \in gather'[r].missing
  <2> DEFINE D == {d \in C : d.req = r}
             W == {c.worker : c \in D}
             n == gather[r].outstanding - Cardinality(W)
  <2>1. D \in SUBSET Call_ /\ \A c \in D : c.kind = "gather" /\ c.req = r
    BY DEF TypeOK
  <2>2. IsFiniteSet(D) /\ Cardinality(D) = Cardinality(W) /\ W \subseteq Workers
    BY <2>1, WorkersOfParts
  <2>3. D = Parts(r) \cap C /\ Parts(r)' = Parts(r) \ D
    BY DEF Parts
  <2>4. Parts(r) \cap D = D
    BY <2>3
  <2>5. /\ IsFiniteSet(Parts(r) \ D)
        /\ Cardinality(Parts(r) \ D) = Cardinality(Parts(r)) - Cardinality(Parts(r) \cap D)
        /\ Cardinality(Parts(r) \ D) \in Nat
    <3>1. IsFiniteSet(Parts(r))
      BY PartsFinite
    <3> HIDE DEF D, HubInv
    <3>2. IsFiniteSet(Parts(r) \ D)
      BY <3>1, FS_Difference
    <3> QED BY <3>1, <3>2, FS_Difference, FS_CardinalityType
  <2>6. /\ IsFiniteSet(Parts(r)') /\ Cardinality(Parts(r)') \in Nat
        /\ Cardinality(Parts(r)') = Cardinality(Parts(r)) - Cardinality(D)
    BY <2>3, <2>4, <2>5
  <2>7. Cardinality(Parts(r)') = 0 <=> Parts(r)' = {}
    BY <2>6, FS_EmptySet
  <2>8. n = Cardinality(Parts(r)')
    BY <2>2, <2>6 DEF GathersAccounted
  <2>9. gather'[r] = IF n = 0 THEN NoGather
                     ELSE [gather[r] EXCEPT !.outstanding = n,
                                            !.parts = IF ok THEN @ \cup W ELSE @,
                                            !.missing = IF ok THEN @ \ W ELSE @]
    BY DEF PartsDone
  <2>10. gather[r] \in [open : BOOLEAN, parts : SUBSET Workers,
                        missing : SUBSET Workers, outstanding : Nat]
    BY DEF TypeOK
  <2>11. CASE n = 0
    <3>1. Parts(r)' = {}
      BY <2>7, <2>8, <2>11
    <3> QED BY <2>8, <2>9, <2>11, <3>1 DEF NoGather
  <2>12. CASE n # 0
    <3>1. Parts(r)' # {} /\ Parts(r) # {}
      BY <2>3, <2>7, <2>8, <2>12
    <3>2. /\ gather[r].open <=> r \notin cut
          /\ gather[r].parts \cap gather[r].missing = {}
          /\ \A c \in Parts(r) : c.worker \in gather[r].missing
      BY <3>1 DEF GathersAccounted
    <3>3. \A c \in Parts(r)' : c.worker \notin W
      <4> SUFFICES ASSUME NEW c \in Parts(r)', NEW d \in D, c.worker = d.worker
                   PROVE  FALSE
        OBVIOUS
      <4>1. c \in Call_ /\ d \in Call_ /\ c.kind = d.kind /\ c.req = d.req
        BY <2>1, <2>3 DEF Parts, TypeOK
      <4>2. c = d
        BY <4>1 DEF Call_
      <4> QED BY <4>2, <2>3
    <3>4. /\ gather'[r].open = gather[r].open /\ gather'[r].outstanding = n
          /\ gather'[r].parts = IF ok THEN gather[r].parts \cup W ELSE gather[r].parts
          /\ gather'[r].missing = IF ok THEN gather[r].missing \ W ELSE gather[r].missing
      BY <2>9, <2>10, <2>12
    <3>5. gather'[r].parts \cap gather'[r].missing = {}
      BY <3>2, <3>4
    <3>6. \A c \in Parts(r)' : c.worker \in gather'[r].missing
      BY <2>3, <3>2, <3>3, <3>4
    <3>7. gather'[r] \in [open : BOOLEAN, parts : SUBSET Workers,
                         missing : SUBSET Workers, outstanding : Nat]
      <4> DEFINE pp == IF ok THEN gather[r].parts \cup W ELSE gather[r].parts
                 mm == IF ok THEN gather[r].missing \ W ELSE gather[r].missing
      <4>1. gather'[r] = [gather[r] EXCEPT !.outstanding = n, !.parts = pp, !.missing = mm]
        BY <2>9, <2>10, <2>12
      <4>2. n \in Nat /\ pp \in SUBSET Workers /\ mm \in SUBSET Workers
        BY <2>2, <2>6, <2>8, <2>10
      <4> HIDE DEF n, W, pp, mm
      <4> QED BY <2>10, <4>1, <4>2
    <3> QED BY <2>8, <3>1, <3>2, <3>4, <3>5, <3>6, <3>7
  <2> QED BY <2>11, <2>12
<1>2. GathersAccounted'
  <2>1. \A r \in Reqs : Cardinality(Parts(r))' = Cardinality(Parts(r)')
    OBVIOUS
  <2> QED BY <1>1, <2>1 DEF GathersAccounted
<1>3. gather' \in [Reqs -> [open : BOOLEAN, parts : SUBSET Workers,
                           missing : SUBSET Workers, outstanding : Nat]]
  BY <1>1 DEF PartsDone
<1>4. \A r \in Finishing(gather') : Parts(r) # {} /\ Parts(r)' = {} /\ r \notin cut
  BY <1>1 DEF Finishing, GathersAccounted
<1>5. gathers' \in Nat /\ gathers' = Cardinality({r \in Reqs : gather[r].open})'
  <2> DEFINE O == {r \in Reqs : gather[r].open}
             F == Finishing(gather')
  <2>1. IsFiniteSet(O)
    BY FS_Subset, RpcAssumption
  <2>2. O \cap F = F
    BY DEF Finishing
  <2>3. \A r \in Reqs : gather'[r].open => gather[r].open
    BY <1>1 DEF GathersAccounted
  <2>4. {r \in Reqs : gather'[r].open} = O \ F
    BY <2>3 DEF Finishing
  <2>5. gathers = Cardinality(O)
    BY DEF CountersMatch
  <2>6. Cardinality(O \ F) = gathers - Cardinality(F) /\ Cardinality(O \ F) \in Nat
    <3> HIDE DEF O, F, HubInv
    <3>1. /\ IsFiniteSet(O \ F)
          /\ Cardinality(O \ F) = Cardinality(O) - Cardinality(O \cap F)
      BY <2>1, FS_Difference
    <3>2. Cardinality(O \ F) \in Nat
      BY <3>1, FS_CardinalityType
    <3> QED BY <2>2, <2>5, <3>1, <3>2
  <2> QED BY <2>4, <2>6
<1> QED BY <1>2, <1>3, <1>4, <1>5

-----------------------------------------------------------------------------
(* Every step keeps the books                                              *)

\* Steps of clients and of the supervisor leave the hub alone.
LEMMA HubAlone ==
  ASSUME HubInv, UNCHANGED <<hub, cut>>
  PROVE  /\ CountersMatch' /\ GathersAccounted'
         /\ IsFiniteSet(calls)' /\ OneLeaderCall'
<1> USE DEF HubInv, HubAccounted, hub
<1>1. CountersMatch'
  BY DEF CountersMatch
<1>2. GathersAccounted'
  BY DEF GathersAccounted, Parts
<1>3. IsFiniteSet(calls)' /\ OneLeaderCall'
  BY DEF OneLeaderCall
<1> QED BY <1>1, <1>2, <1>3

LEMMA CallStep ==
  ASSUME HubInv, NEW w \in Workers, NEW r \in Reqs, NEW t \in Targets, Call(w, r, t)
  PROVE  HubInv'
<1> USE DEF HubInv, HubAccounted
<1>1. UNCHANGED <<cluster, hub, answers, cut>>
  BY DEF Call
<1>2. TypeOK'
  <2>1. Request(r) \in Message
    BY DEF Request, Message
  <2>2. wire' \subseteq wire \cup {Request(r)}
    BY DEF Call
  <2>3. /\ from' \in [Reqs -> Workers \cup {NoWorker}] /\ target' \in [Reqs -> Targets]
        /\ outcome' \in [Reqs -> Outcomes] /\ pending' \in [Workers -> SUBSET Reqs]
    <3>1. /\ from' \in [Reqs -> Workers \cup {NoWorker}]
          /\ target' \in [Reqs -> Targets]
      BY DEF Call, TypeOK
    <3>2. outcome' \in [Reqs -> Outcomes]
      BY DEF Call, TypeOK, Outcomes
    <3>3. pending' \in [Workers -> SUBSET Reqs]
      BY DEF Call, TypeOK
    <3> QED BY <3>1, <3>2, <3>3
  <2> QED BY <1>1, <2>1, <2>2, <2>3 DEF TypeOK, cluster, hub
<1>3. Untouched(r) /\ \A q \in Reqs : Untouched(q)' <=> Untouched(q)
  BY <1>1 DEF Call, Arrivals, Untouched, hub
<1>4. \A q \in Reqs : q # r => outcome'[q] = outcome[q] /\ target'[q] = target[q]
  BY DEF Call, TypeOK
<1>5. outcome'[r] # "new"
  BY DEF Call, TypeOK
<1>6. \A q \in Reqs : Request(q) \in wire' => Request(q) \in wire \/ q = r
  BY DEF Call, Request
<1>7. Arrivals' /\ Unserved'
  BY <1>3, <1>4, <1>5, <1>6 DEF Arrivals, Unserved
<1>8. Destined' /\ CutGathers'
  <2>1. Destined'
    BY <1>1, <1>3, <1>4 DEF Destined, Untouched, hub, TypeOK, Call_
  <2>2. CutGathers'
    BY <1>1, <1>3, <1>4 DEF CutGathers, Untouched, TypeOK
  <2> QED BY <2>1, <2>2
<1>9. AnsweredOnce'
  BY <1>1 DEF AnsweredOnce, hub
<1> QED BY <1>1, <1>2, <1>7, <1>8, <1>9, HubAlone

\* What the client does when an answer or its timer comes.
LEMMA SettleStep ==
  ASSUME HubInv, (\E r \in Reqs : Settle(r)) \/ UNCHANGED client,
         UNCHANGED <<cluster, hub, answers, cut>>,
         wire' \subseteq wire
  PROVE  HubInv'
<1> USE DEF HubInv, HubAccounted
<1>1. TypeOK'
  <2>1. ASSUME NEW r \in Reqs, Settle(r) PROVE TypeOK'
    <3>1. outcome' \in [Reqs -> Outcomes] /\ pending' \in [Workers -> SUBSET Reqs]
      BY <2>1 DEF Settle, TypeOK, Outcomes
    <3> QED BY <2>1, <3>1 DEF TypeOK, Settle, cluster, hub
  <2>2. CASE UNCHANGED client
    BY <2>2 DEF TypeOK, client, cluster, hub
  <2> QED BY <2>1, <2>2
<1>2. \A q \in Reqs : outcome'[q] = "new" => outcome[q] = "new"
  BY DEF Settle, client, TypeOK
<1>3. \A q \in Reqs : Request(q) \in wire' => Request(q) \in wire
  OBVIOUS
<1>4. UNCHANGED <<target, calls, answers, cut>>
  BY DEF Settle, client, hub
<1>5. Arrivals' /\ Unserved'
  BY <1>2, <1>3, <1>4 DEF Arrivals, Unserved, Untouched
<1>6. Destined' /\ AnsweredOnce' /\ CutGathers'
  BY <1>4 DEF Destined, AnsweredOnce, CutGathers
<1> QED BY <1>1, <1>5, <1>6, HubAlone

LEMMA OnCallStep ==
  ASSUME HubInv, NEW r \in Reqs, NEW w \in Workers, OnCall(r, w)
  PROVE  HubInv'
<1> USE DEF HubInv, HubAccounted
<1>1. UNCHANGED <<cluster, client, hub, answers, cut>>
  BY DEF OnCall
<1>2. TypeOK'
  <2>1. Return(r, w) \in Message
    BY DEF Return, Message
  <2> QED BY <1>1, <2>1 DEF TypeOK, OnCall, client, cluster, hub
<1>3. \A q \in Reqs : Request(q) \in wire' => Request(q) \in wire
  BY DEF OnCall, Request, Return
<1>4. Arrivals' /\ Unserved'
  BY <1>1, <1>3 DEF Arrivals, Unserved, Untouched, client, hub
<1>5. Destined' /\ AnsweredOnce' /\ CutGathers'
  BY <1>1 DEF Destined, AnsweredOnce, CutGathers, hub, client
<1> QED BY <1>1, <1>2, <1>4, <1>5, HubAlone

LEMMA ForkStep ==
  ASSUME HubInv, NEW w \in Workers, Fork(w)
  PROVE  HubInv'
<1> USE DEF HubInv, HubAccounted
<1>1. UNCHANGED <<gone, client, wire, hub, answers, cut>>
  BY DEF Fork
<1>2. TypeOK'
  BY <1>1 DEF TypeOK, Fork, client, hub
<1>3. Arrivals' /\ Unserved' /\ Destined' /\ AnsweredOnce' /\ CutGathers'
  BY <1>1 DEF Arrivals, Unserved, Untouched, Destined, AnsweredOnce, CutGathers,
              hub, client
<1> QED BY <1>1, <1>2, <1>3, HubAlone

-----------------------------------------------------------------------------
(* Steps of the hub                                                        *)

LeaderCalls == {c \in calls : c.kind = "leader"}

LEMMA LeaderCallsLeave ==
  ASSUME HubInv, NEW D \in SUBSET LeaderCalls,
         leaderCalls' = leaderCalls - Cardinality(D),
         LeaderCalls' = LeaderCalls \ D
  PROVE  leaderCalls' \in Nat /\ leaderCalls' = Cardinality(LeaderCalls')
<1>1. IsFiniteSet(LeaderCalls)
  BY FS_Subset DEF HubInv, LeaderCalls
<1>2. leaderCalls = Cardinality(LeaderCalls) /\ LeaderCalls \cap D = D
  BY DEF HubInv, HubAccounted, CountersMatch, LeaderCalls
<1>3. /\ IsFiniteSet(LeaderCalls \ D)
      /\ Cardinality(LeaderCalls \ D) = Cardinality(LeaderCalls) - Cardinality(LeaderCalls \cap D)
  BY <1>1, FS_Difference
<1>4. Cardinality(LeaderCalls \ D) \in Nat
  BY <1>3, FS_CardinalityType
<1> QED BY <1>2, <1>3, <1>4

\* Requests are answered whose last entry leaves the table.
LEMMA AnswersEffect ==
  ASSUME HubInv, NEW R \in SUBSET Reqs, NEW L,
         answers' = Told(R, L), wire' \subseteq wire \cup Sent(R, L),
         calls' \subseteq calls, target' = target, cut' = cut,
         \A q \in R : /\ q \notin cut
                      /\ (\E c \in calls : c.req = q) /\ (\A c \in calls' : c.req # q),
         \A q \in Reqs : outcome'[q] = "new" => outcome[q] = "new"
  PROVE  /\ answers' \in [Reqs -> Nat]
         /\ wire' \subseteq Message
         /\ AnsweredOnce' /\ Arrivals' /\ Unserved' /\ Destined' /\ OneLeaderCall'
         /\ CutGathers'
         /\ IsFiniteSet(calls')
<1> USE DEF HubInv, HubAccounted
<1>1. answers' \in [Reqs -> Nat] /\ \A q \in Reqs \ R : answers'[q] = answers[q]
  BY DEF Told, TypeOK
<1>2. \A q \in R : answers[q] = 0 /\ answers'[q] <= 1
  <2>1. \A q \in R : answers[q] <= 1 /\ answers[q] # 1
    BY DEF AnsweredOnce
  <2> QED BY <2>1 DEF Told, TypeOK
<1>3. Sent(R, L) \subseteq Message
  BY DEF Sent, Response, Message
<1>4. AnsweredOnce'
  BY <1>1, <1>2 DEF AnsweredOnce
<1>5. \A q \in Reqs : Request(q) \in wire' => Request(q) \in wire
  <2>1. \A q \in Reqs : Request(q) \notin Sent(R, L)
    BY DEF Request, Response, Sent
  <2> QED BY <2>1
<1>6. \A q \in R : outcome'[q] # "new" /\ Request(q) \notin wire'
  BY <1>5 DEF Arrivals, Unserved, Untouched
<1>7. Arrivals'
  BY <1>1, <1>5, <1>6 DEF Arrivals, Untouched
<1>8. Unserved'
  BY <1>1, <1>5, <1>6 DEF Unserved, Untouched
<1>9. Destined' /\ OneLeaderCall' /\ CutGathers'
  BY DEF Destined, OneLeaderCall, CutGathers
<1>10. IsFiniteSet(calls')
  BY FS_Subset
<1>11. wire' \subseteq Message
  BY <1>3 DEF TypeOK
<1> QED BY <1>1, <1>4, <1>7, <1>8, <1>9, <1>10, <1>11

\* The call of the leader is one entry, and a request that has it has no other.
LEMMA LeaderCallIsAll ==
  ASSUME HubInv, NEW r \in Reqs, LeaderCall(r) # {}
  PROVE  /\ \A c \in calls : c.req = r => c \in LeaderCall(r)
         /\ \E c : LeaderCall(r) = {c}
         /\ Parts(r) = {} /\ r \notin cut
<1> USE DEF HubInv, HubAccounted
<1>1. PICK c \in calls : c.kind = "leader" /\ c.req = r
  BY DEF LeaderCall
<1>2. target[r] = "leader"
  BY <1>1 DEF Destined
<1>3. \A d \in calls : d.req = r => d.kind = "leader"
  BY <1>2 DEF Destined, TypeOK, Call_
<1>4. LeaderCall(r) = {c}
  BY <1>1 DEF LeaderCall, OneLeaderCall
<1>5. r \notin cut
  BY <1>2 DEF CutGathers
<1> QED BY <1>3, <1>4, <1>5 DEF LeaderCall, Parts

LEMMA LeaderTimeoutStep ==
  ASSUME HubInv, NEW r \in Reqs, LeaderTimeout(r)
  PROVE  HubInv'
<1> DEFINE D == LeaderCall(r)
<1>1. /\ calls' = calls \ D /\ leaderCalls' = leaderCalls - 1
      /\ wire' = wire \cup Sent({r}, live) /\ answers' = Told({r}, live)
      /\ UNCHANGED <<cluster, client, gathers, gather, cut>>
      /\ D # {}
  BY DEF LeaderTimeout
<1>2. D \subseteq LeaderCalls /\ LeaderCalls' = LeaderCalls \ D
  BY <1>1 DEF LeaderCalls, LeaderCall
<1>3. Cardinality(D) = 1
  BY <1>1, LeaderCallIsAll, FS_Singleton
<1>4. leaderCalls' \in Nat /\ leaderCalls' = Cardinality(LeaderCalls')
  <2> HIDE DEF D
  <2> QED BY <1>1, <1>2, <1>3, LeaderCallsLeave
<1>5. r \notin cut /\ (\E c \in calls : c.req = r) /\ (\A c \in calls' : c.req # r)
  BY <1>1, LeaderCallIsAll DEF LeaderCall
<1>6. calls' \subseteq calls /\ target' = target /\ outcome' = outcome
  BY <1>1 DEF client
<1>7. /\ answers' \in [Reqs -> Nat]
      /\ wire' \subseteq Message
      /\ AnsweredOnce' /\ Arrivals' /\ Unserved' /\ Destined' /\ OneLeaderCall'
      /\ CutGathers' /\ IsFiniteSet(calls')
  <2>1. {r} \in SUBSET Reqs /\ \A q \in {r} : q = r
    OBVIOUS
  <2> QED BY <1>1, <1>5, <1>6, <2>1, AnswersEffect
<1>8. TypeOK'
  BY <1>1, <1>4, <1>6, <1>7 DEF TypeOK, HubInv, HubAccounted, cluster, client
<1>9. \A q \in Reqs : Parts(q)' = Parts(q)
  BY <1>1 DEF Parts, LeaderCall
<1>10. GathersAccounted'
  BY <1>1, <1>9 DEF GathersAccounted, HubInv, HubAccounted
<1>11. CountersMatch'
  BY <1>1, <1>4 DEF CountersMatch, LeaderCalls, HubInv, HubAccounted
<1> QED BY <1>7, <1>8, <1>10, <1>11 DEF HubInv, HubAccounted

LEMMA GatherTimeoutStep ==
  ASSUME HubInv, NEW r \in Reqs, GatherTimeout(r)
  PROVE  HubInv'
<1>1. /\ gather[r].open /\ gather' = [gather EXCEPT ![r] = NoGather]
      /\ gathers' = gathers - 1 /\ calls' = calls \ Parts(r)
      /\ wire' = wire \cup Sent({r}, live) /\ answers' = Told({r}, live)
      /\ UNCHANGED <<cluster, client, leaderCalls, cut>>
  BY DEF GatherTimeout
<1>2. gather \in [Reqs -> [open : BOOLEAN, parts : SUBSET Workers,
                          missing : SUBSET Workers, outstanding : Nat]]
  BY DEF HubInv, HubAccounted, TypeOK
<1>3. Parts(r) # {} /\ LeaderCall(r) = {} /\ r \notin cut
  BY <1>1, LeaderCallIsAll DEF HubInv, HubAccounted, GathersAccounted
<1>4. calls \subseteq Call_ /\ calls' \subseteq calls
  BY <1>1 DEF HubInv, HubAccounted, TypeOK
<1>5. r \notin cut /\ (\E c \in calls : c.req = r) /\ (\A c \in calls' : c.req # r)
  BY <1>1, <1>3, <1>4 DEF Parts, LeaderCall, Call_
<1>6. target' = target /\ outcome' = outcome
  BY <1>1 DEF client
<1>7. /\ answers' \in [Reqs -> Nat]
      /\ wire' \subseteq Message
      /\ AnsweredOnce' /\ Arrivals' /\ Unserved' /\ Destined' /\ OneLeaderCall'
      /\ CutGathers' /\ IsFiniteSet(calls')
  <2>1. {r} \in SUBSET Reqs /\ \A q \in {r} : q = r
    OBVIOUS
  <2> QED BY <1>1, <1>4, <1>5, <1>6, <2>1, AnswersEffect
<1>8. LeaderCalls' = LeaderCalls
  BY <1>1, <1>3 DEF LeaderCalls, Parts
<1>9. gathers' \in Nat /\ gathers' = Cardinality({q \in Reqs : gather[q].open})'
  <2> DEFINE O == {q \in Reqs : gather[q].open}
  <2>1. IsFiniteSet(O) /\ gathers = Cardinality(O)
    BY FS_Subset, RpcAssumption DEF HubInv, HubAccounted, CountersMatch
  <2>2. {q \in Reqs : gather'[q].open} = O \ {r} /\ r \in O
    BY <1>1, <1>2 DEF NoGather
  <2>3. /\ IsFiniteSet(O \ {r})
        /\ Cardinality(O \ {r}) = Cardinality(O) - 1
    BY <2>1, <2>2, FS_RemoveElement
  <2>4. Cardinality(O \ {r}) \in Nat
    BY <2>3, FS_CardinalityType
  <2> QED BY <1>1, <2>1, <2>2, <2>3, <2>4
<1>10. CountersMatch'
  BY <1>1, <1>8, <1>9 DEF CountersMatch, LeaderCalls, HubInv, HubAccounted
<1>11. TypeOK'
  BY <1>1, <1>4, <1>6, <1>7, <1>9 DEF TypeOK, HubInv, HubAccounted, cluster, client, NoGather
<1>12. GathersAccounted'
  <2>1. Parts(r)' = {}
    BY <1>5 DEF Parts
  <2>2. \A q \in Reqs : q # r => Parts(q)' = Parts(q) /\ gather'[q] = gather[q]
    BY <1>1, <1>2 DEF Parts
  <2>3. gather'[r] = NoGather
    BY <1>1, <1>2
  <2>4. cut' = cut
    BY <1>1
  <2> QED BY <2>1, <2>2, <2>3, <2>4, FS_EmptySet
      DEF GathersAccounted, HubInv, HubAccounted, NoGather
<1> QED BY <1>7, <1>10, <1>11, <1>12 DEF HubInv, HubAccounted

LEMMA OnReturnStep ==
  ASSUME HubInv, NEW r \in Reqs, NEW w \in Workers, NEW ok \in BOOLEAN,
         OnReturn(r, w, ok)
  PROVE  HubInv'
<1> DEFINE L == {c \in LeaderCall(r) : c.worker = w}
           G == {c \in Parts(r) : c.worker = w}
           R == {r} \cap ({c.req : c \in L} \cup Finishing(gather'))
<1>1. /\ calls' = calls \ (L \cup G)
      /\ leaderCalls' = leaderCalls - Cardinality(L)
      /\ gather' = PartsDone(G, ok)
      /\ gathers' = gathers - Cardinality(Finishing(gather'))
      /\ wire' = (wire \ {Return(r, w)}) \cup Sent(R, live)
      /\ answers' = Told(R, live)
      /\ UNCHANGED <<cluster, client, cut>>
  BY DEF OnReturn
<1>2. calls \subseteq Call_
  BY DEF HubInv, HubAccounted, TypeOK
<1>3. /\ L \in SUBSET LeaderCalls /\ LeaderCalls' = LeaderCalls \ L
      /\ G \in SUBSET calls /\ \A c \in G : c.kind = "gather"
      /\ \A q \in Reqs : Parts(q)' = Parts(q) \ G
  BY <1>1, <1>2 DEF LeaderCall, LeaderCalls, Parts
<1>4. /\ gather' \in [Reqs -> [open : BOOLEAN, parts : SUBSET Workers,
                              missing : SUBSET Workers, outstanding : Nat]]
      /\ gathers' \in Nat /\ gathers' = Cardinality({q \in Reqs : gather[q].open})'
      /\ GathersAccounted'
      /\ \A q \in Finishing(gather') :
           Parts(q) # {} /\ Parts(q)' = {} /\ q \notin cut
  <2> HIDE DEF G
  <2> QED BY <1>1, <1>3, PartsDoneEffect
<1>5. leaderCalls' \in Nat /\ leaderCalls' = Cardinality(LeaderCalls')
  <2> HIDE DEF L
  <2> QED BY <1>1, <1>3, LeaderCallsLeave
<1>6. \A q \in R : /\ q \notin cut
                  /\ (\E c \in calls : c.req = q) /\ (\A c \in calls' : c.req # q)
  <2> SUFFICES ASSUME r \in R
               PROVE  r \notin cut /\ (\E c \in calls : c.req = r) /\ (\A c \in calls' : c.req # r)
    OBVIOUS
  <2>1. CASE L # {}
    <3>1. /\ LeaderCall(r) = L /\ r \notin cut
          /\ \A c \in calls : c.req = r => c \in LeaderCall(r)
      BY <2>1, LeaderCallIsAll
    <3> QED BY <1>1, <2>1, <3>1 DEF LeaderCall
  <2>2. CASE r \in Finishing(gather')
    <3>1. Parts(r) # {} /\ Parts(r)' = {} /\ r \notin cut
      BY <1>4, <2>2
    <3>2. LeaderCall(r) = {}
      BY <3>1, LeaderCallIsAll
    <3>3. \A c \in calls : c.req = r => c \in Parts(r)
      BY <1>2, <3>2 DEF LeaderCall, Parts, Call_
    <3>4. \A c \in calls' : c.req # r
      BY <1>1, <3>1, <3>3 DEF Parts
    <3> QED BY <3>1, <3>4 DEF Parts
  <2> QED BY <2>1, <2>2
<1>7. target' = target /\ outcome' = outcome /\ calls' \subseteq calls
  BY <1>1 DEF client
<1>8. R \in SUBSET Reqs /\ wire' \subseteq wire \cup Sent(R, live)
  BY <1>1
<1>9. /\ answers' \in [Reqs -> Nat]
      /\ wire' \subseteq Message
      /\ AnsweredOnce' /\ Arrivals' /\ Unserved' /\ Destined' /\ OneLeaderCall'
      /\ CutGathers' /\ IsFiniteSet(calls')
  <2> HIDE DEF R
  <2> QED BY <1>1, <1>6, <1>7, <1>8, AnswersEffect
<1>10. CountersMatch'
  BY <1>4, <1>5 DEF CountersMatch, LeaderCalls
<1>11. TypeOK'
  BY <1>1, <1>4, <1>5, <1>7, <1>9 DEF TypeOK, HubInv, HubAccounted, cluster, client
<1> QED BY <1>4, <1>9, <1>10, <1>11 DEF HubInv, HubAccounted

LEMMA WorkerExitStep ==
  ASSUME HubInv, NEW w \in Workers, WorkerExit(w)
  PROVE  HubInv'
<1> DEFINE A == Affected(w)
           own == {c \in A : from[c.req] = w}
           failed == {c \in A : c.kind = "leader"} \ own
           L == {c \in A : c.kind = "leader"}
           G == {c \in A : c.kind = "gather"}
           R == {c.req : c \in failed} \cup {r \in Finishing(gather') : from[r] # w}
<1>1. /\ live' = live \ {w} /\ gone' = gone \cup {w}
      /\ leader' = IF leader = w THEN NoWorker ELSE leader
      /\ calls' = calls \ A
      /\ leaderCalls' = leaderCalls - Cardinality(L)
      /\ gather' = PartsDone(G, FALSE)
      /\ gathers' = gathers - Cardinality(Finishing(gather'))
      /\ wire' \subseteq wire \cup Sent(R, live')
      /\ answers' = Told(R, live')
      /\ pending' = [pending EXCEPT ![w] = {}]
      /\ outcome' = [r \in Reqs |-> IF r \in pending[w] THEN "settled" ELSE outcome[r]]
      /\ UNCHANGED <<from, target, cut>>
  BY DEF WorkerExit
<1>2. calls \subseteq Call_ /\ A \subseteq calls /\ A = L \cup G
  BY DEF HubInv, HubAccounted, TypeOK, Affected, Call_
<1>3. /\ L \in SUBSET LeaderCalls /\ LeaderCalls' = LeaderCalls \ L
      /\ G \in SUBSET calls /\ \A c \in G : c.kind = "gather"
      /\ \A q \in Reqs : Parts(q)' = Parts(q) \ G
  <2> HIDE DEF A
  <2> QED BY <1>1, <1>2 DEF LeaderCalls, Parts
<1>4. /\ gather' \in [Reqs -> [open : BOOLEAN, parts : SUBSET Workers,
                              missing : SUBSET Workers, outstanding : Nat]]
      /\ gathers' \in Nat /\ gathers' = Cardinality({q \in Reqs : gather[q].open})'
      /\ GathersAccounted'
      /\ \A q \in Finishing(gather') :
           Parts(q) # {} /\ Parts(q)' = {} /\ q \notin cut
  <2> HIDE DEF G
  <2> QED BY <1>1, <1>3, PartsDoneEffect
<1>5. leaderCalls' \in Nat /\ leaderCalls' = Cardinality(LeaderCalls')
  <2> HIDE DEF L
  <2> QED BY <1>1, <1>3, LeaderCallsLeave
<1>6. R \in SUBSET Reqs
  BY <1>2 DEF Call_, Finishing
<1>7. ASSUME NEW q \in R
      PROVE  /\ q \notin cut
             /\ (\E c \in calls : c.req = q) /\ (\A c \in calls' : c.req # q)
  <2>1. CASE \E c \in failed : c.req = q
    <3>1. PICK c \in L : c.req = q
      BY <2>1
    <3>2. q \in Reqs /\ c \in LeaderCall(q) /\ c \in A
      BY <1>2, <3>1 DEF Call_, LeaderCall
    <3>3. q \notin cut /\ \A d \in calls : d.req = q => d = c
      BY <3>2, LeaderCallIsAll
    <3> QED BY <1>1, <1>2, <3>1, <3>2, <3>3
  <2>2. CASE q \in Finishing(gather')
    <3>1. q \in Reqs /\ Parts(q) # {} /\ Parts(q)' = {} /\ q \notin cut
      BY <1>4, <2>2 DEF Finishing
    <3>2. LeaderCall(q) = {}
      BY <3>1, LeaderCallIsAll
    <3>3. \A c \in calls : c.req = q => c \in Parts(q)
      BY <1>2, <3>2 DEF LeaderCall, Parts, Call_
    <3>4. \A c \in calls' : c.req # q
      BY <1>1, <3>1, <3>3 DEF Parts
    <3> QED BY <3>1, <3>4 DEF Parts
  <2> QED BY <2>1, <2>2
<1>8. /\ target' = target /\ calls' \subseteq calls
      /\ \A q \in Reqs : outcome'[q] = "new" => outcome[q] = "new"
  BY <1>1
<1>9. /\ answers' \in [Reqs -> Nat]
      /\ wire' \subseteq Message
      /\ AnsweredOnce' /\ Arrivals' /\ Unserved' /\ Destined' /\ OneLeaderCall'
      /\ CutGathers' /\ IsFiniteSet(calls')
  <2> HIDE DEF R
  <2> QED BY <1>1, <1>6, <1>7, <1>8, AnswersEffect
<1>10. CountersMatch'
  BY <1>4, <1>5 DEF CountersMatch, LeaderCalls
<1>11. TypeOK'
  <2>1. /\ live' \subseteq Workers /\ gone' \subseteq Workers
        /\ leader' \in Workers \cup {NoWorker}
        /\ pending' \in [Workers -> SUBSET Reqs] /\ outcome' \in [Reqs -> Outcomes]
        /\ calls' \subseteq Call_
    BY <1>1, <1>2 DEF TypeOK, HubInv, HubAccounted, Outcomes
  <2> QED BY <1>1, <1>4, <1>5, <1>9, <2>1 DEF TypeOK, HubInv, HubAccounted
<1> QED BY <1>4, <1>9, <1>10, <1>11 DEF HubInv, HubAccounted

\* A request that the hub answers at once leaves no entry.
LEMMA AnsweredAtOnce ==
  ASSUME HubInv, NEW r \in Reqs, Request(r) \in wire,
         wire' = (wire \ {Request(r)}) \cup Sent({r}, live),
         answers' = Told({r}, live), UNCHANGED <<cluster, client, hub, cut>>
  PROVE  HubInv'
<1> USE DEF HubInv, HubAccounted
<1>1. Untouched(r) /\ outcome[r] # "new"
  BY DEF Unserved, Arrivals
<1>2. /\ answers' \in [Reqs -> Nat] /\ answers'[r] <= 1
      /\ \A q \in Reqs : q # r => answers'[q] = answers[q]
  BY <1>1 DEF Told, TypeOK, Untouched
<1>3. /\ Sent({r}, live) \subseteq Message
      /\ \A q \in Reqs : Request(q) \in wire' => Request(q) \in wire /\ q # r
  <2>1. Sent({r}, live) \subseteq Message
    BY DEF Sent, Response, Message
  <2>2. \A q \in Reqs : Request(q) \notin Sent({r}, live)
    BY DEF Sent, Response, Request
  <2>3. \A q \in Reqs : Request(q) \in wire' => Request(q) \in wire \ {Request(r)}
    BY <2>2
  <2> QED BY <2>1, <2>3
<1>4. TypeOK'
  BY <1>2, <1>3 DEF TypeOK, cluster, client, hub
<1>5. UNCHANGED <<calls, target, outcome, cut>>
  BY DEF client, hub
<1>7. Arrivals'
  BY <1>1, <1>2, <1>3, <1>5 DEF Arrivals, Untouched
<1>8. Unserved'
  BY <1>2, <1>3, <1>5 DEF Unserved, Untouched
<1>9. Destined' /\ AnsweredOnce' /\ CutGathers'
  BY <1>1, <1>2, <1>5 DEF Destined, AnsweredOnce, CutGathers, Untouched
<1> QED BY <1>4, <1>7, <1>8, <1>9, HubAlone

LEMMA OnRequestStep ==
  ASSUME HubInv, NEW r \in Reqs, OnRequest(r)
  PROVE  HubInv'
<1> USE DEF HubInv, HubAccounted
<1>1. Request(r) \in wire /\ Untouched(r) /\ outcome[r] # "new"
      /\ UNCHANGED <<cluster, client>>
  BY DEF OnRequest, Unserved, Arrivals
<1>2. CASE /\ wire' = (wire \ {Request(r)}) \cup Sent({r}, live)
           /\ answers' = Told({r}, live) /\ UNCHANGED <<hub, cut>>
  BY <1>1, <1>2, AnsweredAtOnce
<1>3. CASE /\ target[r] = "leader" /\ leader # NoWorker
           /\ calls' = calls \cup {[kind |-> "leader", req |-> r, worker |-> leader]}
           /\ leaderCalls' = leaderCalls + 1
           /\ wire' = (wire \ {Request(r)}) \cup {CallTo(r, leader)}
           /\ UNCHANGED <<gathers, gather, answers, cut>>
  <2> DEFINE c == [kind |-> "leader", req |-> r, worker |-> leader]
  <2>1. leader \in Workers /\ c \in Call_ /\ c \notin calls /\ calls' = calls \cup {c}
    BY <1>1, <1>3 DEF TypeOK, Call_, Untouched
  <2>2. CallTo(r, leader) \in Message /\ \A q \in Reqs : Request(q) # CallTo(r, leader)
    BY <2>1 DEF CallTo, Request, Message
  <2>3. TypeOK'
    BY <1>1, <1>3, <2>1, <2>2 DEF TypeOK, cluster, client
  <2>4. CountersMatch'
    <3>1. IsFiniteSet(LeaderCalls) /\ leaderCalls = Cardinality(LeaderCalls)
      BY FS_Subset DEF LeaderCalls, CountersMatch
    <3>2. LeaderCalls' = LeaderCalls \cup {c} /\ c \notin LeaderCalls
      BY <2>1 DEF LeaderCalls
    <3>3. Cardinality(LeaderCalls \cup {c}) = Cardinality(LeaderCalls) + 1
      <4> HIDE DEF c
      <4> QED BY <3>1, <3>2, FS_AddElement
    <3> QED BY <1>3, <3>1, <3>2, <3>3 DEF CountersMatch, LeaderCalls
  <2>5. GathersAccounted'
    <3>1. \A q \in Reqs : Parts(q)' = Parts(q)
      BY <2>1 DEF Parts
    <3> QED BY <1>3, <3>1 DEF GathersAccounted
  <2>6. AnsweredOnce'
    BY <1>1, <1>3, <2>1 DEF AnsweredOnce, Untouched
  <2>7. IsFiniteSet(calls')
    BY <2>1, FS_AddElement
  <2>8. \A q \in Reqs : Request(q) \in wire' => Request(q) \in wire /\ q # r
    BY <1>3, <2>2
  <2>9. \A q \in Reqs : q # r /\ Untouched(q) => Untouched(q)'
    BY <1>3, <2>1 DEF Untouched
  <2>10. Arrivals'
    BY <1>1, <2>8, <2>9 DEF Arrivals, client
  <2>11. Unserved'
    BY <2>8, <2>9 DEF Unserved
  <2>12. Destined' /\ OneLeaderCall' /\ CutGathers'
    BY <1>1, <1>3, <2>1 DEF Destined, OneLeaderCall, CutGathers, Untouched, client
  <2> QED BY <2>3, <2>4, <2>5, <2>6, <2>7, <2>10, <2>11, <2>12
<1>4. ASSUME target[r] = "all", NEW F \in SUBSET live,
             calls' = calls \cup {Part(r, w) : w \in live \ F},
             UNCHANGED leaderCalls,
             \/ /\ F # live
                /\ gather' = [gather EXCEPT ![r] =
                     [open |-> TRUE, parts |-> {}, missing |-> live,
                      outstanding |-> Cardinality(live \ F)]]
                /\ gathers' = gathers + 1
                /\ wire' = (wire \ {Request(r)}) \cup {CallTo(r, w) : w \in live \ F}
                /\ UNCHANGED <<answers, cut>>
             \/ /\ F # {}
                /\ gather' = [gather EXCEPT ![r] =
                     [open |-> FALSE, parts |-> {}, missing |-> live,
                      outstanding |-> Cardinality(live \ F)]]
                /\ cut' = cut \cup {r}
                /\ wire' = (wire \ {Request(r)}) \cup {CallTo(r, w) : w \in live \ F}
                             \cup Sent({r}, live)
                /\ answers' = Told({r}, live)
                /\ UNCHANGED gathers
      PROVE  HubInv'
  <2> DEFINE S == live \ F
             N == {Part(r, w) : w \in S}
             O == {q \in Reqs : gather[q].open}
  <2>1. /\ live \subseteq Workers /\ S \subseteq Workers
        /\ IsFiniteSet(S) /\ Cardinality(S) \in Nat
    BY FS_Subset, FS_CardinalityType, RpcAssumption DEF TypeOK
  <2>2. IsFiniteSet(N) /\ Cardinality(N) = Cardinality(S)
    BY <2>1, PartsOfWorkers
  <2>3. /\ calls' = calls \cup N /\ N \subseteq Call_ /\ (F # live => N # {})
        /\ \A c \in N : c.kind = "gather" /\ c.req = r /\ c.worker \in live
    <3>1. \A c \in N : /\ c \in Call_ /\ c.kind = "gather"
                       /\ c.req = r /\ c.worker \in live
      BY <2>1 DEF Call_, Part
    <3> QED BY <1>4, <3>1
  <2>4. /\ wire' \subseteq Message
        /\ \A q \in Reqs : Request(q) \in wire' => Request(q) \in wire /\ q # r
    <3>1. \A w \in S : CallTo(r, w) \in Message
      BY <2>1 DEF CallTo, Message
    <3>2. \A w \in S, q \in Reqs : Request(q) # CallTo(r, w)
      BY DEF CallTo, Request
    <3>3. /\ Sent({r}, live) \subseteq Message
          /\ \A q \in Reqs : Request(q) \notin Sent({r}, live)
      <4>1. \A q \in Reqs : Response(q) \in Message
        BY DEF Response, Message
      <4>2. \A m \in Sent({r}, live) : m = Response(r)
        BY DEF Sent
      <4>3. \A q \in Reqs : Request(q) # Response(r)
        BY DEF Response, Request
      <4> QED BY <4>1, <4>2, <4>3
    <3>4. /\ wire' \subseteq (wire \ {Request(r)}) \cup {CallTo(r, w) : w \in S}
                          \cup Sent({r}, live)
      BY <1>4
    <3> QED BY <3>1, <3>2, <3>3, <3>4 DEF TypeOK
  <2>5. /\ gather'[r].open <=> r \notin cut'
        /\ gather'[r].open => F # live
        /\ gather'[r] = [open |-> gather'[r].open, parts |-> {}, missing |-> live,
                         outstanding |-> Cardinality(S)]
        /\ gather'[r].open \in BOOLEAN
        /\ gather' = [gather EXCEPT ![r] = gather'[r]]
        /\ \A q \in Reqs : q # r => gather'[q] = gather[q]
        /\ gathers' = IF gather'[r].open THEN gathers + 1 ELSE gathers
    <3>1. r \notin cut /\ gather \in [Reqs -> [open : BOOLEAN, parts : SUBSET Workers,
                             missing : SUBSET Workers, outstanding : Nat]]
      BY <1>1 DEF TypeOK, Untouched
    <3>2. CASE gather' = [gather EXCEPT ![r] =
                 [open |-> TRUE, parts |-> {}, missing |-> live,
                  outstanding |-> Cardinality(S)]]
               /\ F # live /\ gathers' = gathers + 1 /\ UNCHANGED <<answers, cut>>
      <4> HIDE DEF S
      <4> QED BY <3>1, <3>2
    <3>3. CASE gather' = [gather EXCEPT ![r] =
                 [open |-> FALSE, parts |-> {}, missing |-> live,
                  outstanding |-> Cardinality(S)]]
               /\ cut' = cut \cup {r} /\ UNCHANGED gathers
      <4> HIDE DEF S
      <4> QED BY <3>1, <3>3
    <3> QED BY <1>4, <3>2, <3>3
  <2>6. Parts(r) = {} /\ ~gather[r].open
    <3>1. Parts(r) = {}
      BY <1>1 DEF Untouched, Parts
    <3> QED BY <3>1 DEF GathersAccounted
  <2>7. Parts(r)' = N /\ \A q \in Reqs : q # r => Parts(q)' = Parts(q)
    <3> HIDE DEF N
    <3> QED BY <2>3, <2>6 DEF Parts
  <2>8. /\ answers' \in [Reqs -> Nat] /\ answers'[r] <= 1
        /\ \A q \in Reqs : q # r => answers'[q] = answers[q]
        /\ answers'[r] # 0 => r \in cut'
        /\ \A q \in Reqs : q # r => (q \in cut' <=> q \in cut)
        /\ cut' \subseteq Reqs
    <3>1. answers \in [Reqs -> Nat] /\ answers[r] = 0 /\ cut \subseteq Reqs
      BY <1>1 DEF TypeOK, Untouched
    <3>2. CASE UNCHANGED <<answers, cut>>
      BY <3>1, <3>2
    <3>3. CASE cut' = cut \cup {r} /\ answers' = Told({r}, live)
      BY <3>1, <3>3 DEF Told
    <3> QED BY <1>4, <3>2, <3>3
  <2>9. TypeOK'
    <3>1. gather'[r] \in [open : BOOLEAN, parts : SUBSET Workers,
                          missing : SUBSET Workers, outstanding : Nat]
      <4> HIDE DEF S
      <4> QED BY <2>1, <2>5
    <3>2. gather' \in [Reqs -> [open : BOOLEAN, parts : SUBSET Workers,
                               missing : SUBSET Workers, outstanding : Nat]]
      BY <2>5, <3>1 DEF TypeOK
    <3> HIDE DEF N, S
    <3> QED BY <1>1, <1>4, <2>3, <2>4, <2>5, <2>8, <3>2 DEF TypeOK, cluster, client
  <2>10. CountersMatch'
    <3>1. {c \in calls' : c.kind = "leader"} = {c \in calls : c.kind = "leader"}
      BY <2>3
    <3>2. IsFiniteSet(O) /\ gathers = Cardinality(O)
      BY FS_Subset, RpcAssumption DEF CountersMatch
    <3>3. gathers' = Cardinality({q \in Reqs : gather'[q].open})
      <4>1. CASE gather'[r].open
        <5>1. {q \in Reqs : gather'[q].open} = O \cup {r} /\ r \notin O
          BY <2>5, <2>6, <4>1
        <5>2. Cardinality(O \cup {r}) = Cardinality(O) + 1
          <6> HIDE DEF O
          <6> QED BY <3>2, <5>1, FS_AddElement
        <5> QED BY <2>5, <3>2, <4>1, <5>1, <5>2
      <4>2. CASE ~gather'[r].open
        <5>1. {q \in Reqs : gather'[q].open} = O
          BY <2>5, <2>6, <4>2
        <5> QED BY <2>5, <3>2, <4>2, <5>1
      <4> QED BY <4>1, <4>2
    <3> QED BY <1>4, <3>1, <3>3 DEF CountersMatch
  <2>11. GathersAccounted'
    <3> HIDE DEF N, S
    <3>1. /\ gather'[r].outstanding = Cardinality(Parts(r)')
          /\ gather'[r].open <=> Parts(r)' # {} /\ r \notin cut'
          /\ gather'[r].parts \cap gather'[r].missing = {}
          /\ \A c \in Parts(r)' : c.worker \in gather'[r].missing
      BY <2>2, <2>3, <2>5, <2>7
    <3>2. ASSUME NEW q \in Reqs, q # r
          PROVE  /\ gather'[q].outstanding = Cardinality(Parts(q)')
                 /\ gather'[q].open <=> Parts(q)' # {} /\ q \notin cut'
                 /\ gather'[q].parts \cap gather'[q].missing = {}
                 /\ \A c \in Parts(q)' : c.worker \in gather'[q].missing
      BY <2>5, <2>7, <2>8, <3>2 DEF GathersAccounted
    <3>3. \A q \in Reqs : Cardinality(Parts(q))' = Cardinality(Parts(q)')
      OBVIOUS
    <3> QED BY <3>1, <3>2, <3>3 DEF GathersAccounted
  <2>12. AnsweredOnce'
    <3> HIDE DEF N
    <3> QED BY <2>3, <2>8 DEF AnsweredOnce
  <2>13. IsFiniteSet(calls')
    BY <2>2, <2>3, FS_Union
  <2>14. \A q \in Reqs : q # r /\ Untouched(q) => Untouched(q)'
    <3> HIDE DEF N
    <3> QED BY <2>3, <2>8 DEF Untouched
  <2>15. Arrivals'
    BY <1>1, <2>4, <2>14 DEF Arrivals, client
  <2>16. Unserved'
    BY <2>4, <2>14 DEF Unserved
  <2>17. Destined' /\ OneLeaderCall'
    <3> HIDE DEF N
    <3> QED BY <1>1, <1>4, <2>3 DEF Destined, OneLeaderCall, client
  <2>18. CutGathers'
    BY <1>1, <1>4, <2>8 DEF CutGathers, client, TypeOK
  <2> QED BY <2>9, <2>10, <2>11, <2>12, <2>13, <2>15, <2>16, <2>17, <2>18
<1>5. CASE target[r] = "all" /\ Gather(r)
  BY <1>2, <1>4, <1>5 DEF Gather
<1>6. CASE target[r] = "leader" /\ ForwardToLeader(r) /\ UNCHANGED cut
  BY <1>2, <1>3, <1>6 DEF ForwardToLeader
<1>7. CASE /\ target[r] = "primary" /\ UNCHANGED <<hub, cut>>
           /\ wire' = (wire \ {Request(r)}) \cup Sent({r}, live)
           /\ answers' = Told({r}, live)
  BY <1>2, <1>7
<1> QED
  BY <1>5, <1>6, <1>7 DEF OnRequest

LEMMA HubStep == HubInv /\ [Next]_vars => HubInv'
<1> SUFFICES ASSUME HubInv, [Next]_vars PROVE HubInv'
  OBVIOUS
<1>1. ASSUME NEW r \in Reqs, ClientTimeout(r) PROVE HubInv'
  <2>1. Settle(r) /\ UNCHANGED <<cluster, hub, answers, cut>> /\ wire' \subseteq wire
    BY <1>1 DEF ClientTimeout
  <2> QED BY <2>1, SettleStep
<1>2. ASSUME NEW r \in Reqs, OnResponse(r) PROVE HubInv'
  <2>1. /\ Settle(r) \/ UNCHANGED client
        /\ UNCHANGED <<cluster, hub, answers, cut>> /\ wire' \subseteq wire
    BY <1>2 DEF OnResponse
  <2> QED BY <2>1, SettleStep
<1>3. CASE UNCHANGED vars
  <2>1. UNCHANGED client /\ UNCHANGED <<cluster, hub, answers, cut>> /\ wire' \subseteq wire
    BY <1>3 DEF vars
  <2> QED BY <2>1, SettleStep
<1> QED
  BY <1>1, <1>2, <1>3, WorkerExitStep, ForkStep, CallStep, OnRequestStep,
     LeaderTimeoutStep, GatherTimeoutStep, OnCallStep, OnReturnStep DEF Next

\* Whatever is answered, times out or dies in whatever order: the hub's counters
\* equal its table, an open gather is exactly one with calls outstanding, and no
\* request is answered twice (ClusterRpcHub.js #onReturn, #finishGather,
\* onWorkerExit).
THEOREM HubAccountedTheorem == Spec => []HubAccounted
<1>1. HubInv => HubAccounted
  BY DEF HubInv
<1> QED BY <1>1, HubInit, HubStep, PTL DEF Spec

=============================================================================
