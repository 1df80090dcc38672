------------------------ MODULE SessionLedgerProofs ------------------------
(***************************************************************************)
(* The sessions of an account, for any number of workers, requests, tokens *)
(* and faults: one live token per session, no rotation of a revoked token  *)
(* or with an old password, and no reuse found where there was none.       *)
(***************************************************************************)
EXTENDS SessionLedger, TLAPS

-----------------------------------------------------------------------------
(* The inductive invariant                                                 *)

\* A request that has a token of its own, which nobody has received yet.
Pending(x) == x.pc \in {"persist", "purge", "update", "commit"}

\* A request that works with the token it was sent.
Carries(x) == /\ x.kind \in {"refresh", "logout"}
              /\ x.pc \in {"verified", "update", "commit", "revoke", "revoking"}

\* What a request x has seen and what still holds of it.
Held(x) ==
  /\ x.saw <= epoch
  /\ x.pc = "checked" => x.kind = "change"
  /\ Carries(x) => x.tok \in rows \cap delivered
  /\ x.pc \in {"verified", "update", "commit"} =>
       x.kind = "refresh" /\ token[x.tok].pwv >= x.floor
  /\ x.pc = "commit" => x.tok \notin used \cup revoked
  /\ Pending(x) => x.next \in (1..minted) \ delivered
  /\ x.pc \in {"update", "commit"} => x.next \notin rows /\ Family(x.next) = Family(x.tok)
  /\ x.pc = "persist" => /\ x.next \notin rows /\ Family(x.next) = x.next
                         /\ \A u \in 1..minted : Family(u) = x.next => u = x.next
  /\ x.pc = "purge" => x.next \in rows \/ x.next <= expired

\* Two requests never have the same new token, nor the lock of the same row.
Apart(x, y) ==
  /\ Pending(x) /\ Pending(y) => x.next # y.next
  /\ x.pc = "commit" /\ y.pc = "commit" => x.tok # y.tok

SessionInv ==
  /\ TypeOK
  /\ OneLiveToken
  /\ \A t \in delivered : t > expired => t \in rows
  /\ \A t \in 1..minted : Family(t) \in 1..minted
  /\ \A r \in Reqs : Held(req[r])
  /\ \A q, r \in Reqs : q # r => Apart(req[q], req[r])

LEMMA SessionInit == Init => SessionInv
<1> SUFFICES ASSUME Init PROVE SessionInv
  OBVIOUS
<1> USE BoundsAssumption DEF Init, Tokens, None
<1>1. TypeOK
  <2>1. \A w \in Workers : Started(w, "login", "idle") \in Requests
    BY DEF Started, Requests, Phases, Kinds
  <2>2. req \in [Reqs -> Requests]
    BY <2>1
  <2> QED BY <2>2 DEF TypeOK
<1>2. OneLiveToken
  BY DEF OneLiveToken
<1>3. \A r \in Reqs : req[r].pc = "idle" /\ req[r].saw = epoch
  BY DEF Started
<1>4. \A r \in Reqs : Held(req[r])
  BY <1>3 DEF Held, Pending, Carries
<1>5. \A q, r \in Reqs : Apart(req[q], req[r])
  BY <1>3 DEF Apart, Pending
<1> QED BY <1>1, <1>2, <1>4, <1>5 DEF SessionInv, Family

\* Whatever is recorded was issued.
LEMMA MintedAreTokens ==
  ASSUME SessionInv
  PROVE  /\ 1..minted \subseteq Tokens /\ rows \subseteq Tokens /\ delivered \subseteq Tokens
         /\ minted \in Nat /\ minted \in Tokens
<1>1. minted \in Nat /\ minted <= MaxTokens /\ minted \in Tokens
  BY BoundsAssumption DEF SessionInv, TypeOK, Tokens
<1>2. 1..minted \subseteq Tokens
  BY <1>1, BoundsAssumption DEF Tokens
<1> QED BY <1>1, <1>2 DEF SessionInv, TypeOK

-----------------------------------------------------------------------------
(* Steps that change one request and the registries only                   *)

LEMMA QuietStep ==
  ASSUME SessionInv, NEW r \in Reqs, NEW x \in Requests,
         req' = [req EXCEPT ![r] = x],
         UNCHANGED <<tokenVars, delivered, dbVars, epoch, answered, bounds>>,
         known' \in [Workers -> SUBSET Tokens],
         by' \in [Workers -> [Tokens -> Tokens \cup {None}]],
         ended' \in [Workers -> SUBSET Tokens],
         Held(x),
         \A q \in Reqs \ {r} : Apart(x, req[q])
  PROVE  SessionInv'
<1> USE DEF SessionInv
<1>1. UNCHANGED <<token, minted, expired, delivered, rows, used, revoked, epoch, answered,
                  restarts, unacked>>
  BY DEF tokenVars, dbVars, bounds
<1>2. req \in [Reqs -> Requests]
  BY DEF TypeOK
<1>3. req' \in [Reqs -> Requests] /\ req'[r] = x /\ \A q \in Reqs \ {r} : req'[q] = req[q]
  BY <1>2
<1>4. TypeOK'
  BY <1>1, <1>3 DEF TypeOK
<1>5. OneLiveToken'
  BY <1>1 DEF OneLiveToken, Family
<1>6. /\ \A t \in delivered' : t > expired' => t \in rows'
      /\ \A t \in 1..minted' : Family(t)' \in 1..minted'
  BY <1>1 DEF Family
<1>7. ASSUME NEW q \in Reqs PROVE Held(req[q])'
  <2>1. Held(req'[q])
    BY <1>3
  <2> QED BY <1>1, <2>1 DEF Held, Family, Pending, Carries
<1>8. ASSUME NEW p \in Reqs, NEW q \in Reqs, p # q PROVE Apart(req[p], req[q])'
  <2>1. Apart(req'[p], req'[q])
    BY <1>3, <1>8 DEF Apart
  <2> QED BY <2>1 DEF Apart, Pending
<1> QED BY <1>4, <1>5, <1>6, <1>7, <1>8

\* A request that holds no lock and no token of its own is apart from all.
LEMMA ApartWhenDone ==
  ASSUME NEW x, ~Pending(x)
  PROVE  \A q \in Reqs : Apart(x, req[q])
BY DEF Apart, Pending

LEMMA StartedIsRequest ==
  ASSUME SessionInv, NEW w \in Workers, NEW kind \in Kinds, NEW phase \in Phases
  PROVE  /\ Started(w, kind, phase) \in Requests
         /\ Started(w, kind, phase).saw <= epoch
BY DEF SessionInv, TypeOK, Started, Requests, Tokens, None

LEMMA OverIsRequest ==
  ASSUME SessionInv, NEW r \in Reqs, NEW phase \in {"rehash", "ok", "refused", "failed", "lost"}
  PROVE  /\ Over(req[r], phase) \in Requests /\ Held(Over(req[r], phase))
         /\ ~Pending(Over(req[r], phase))
<1> DEFINE x == Over(req[r], phase)
<1>1. req[r] \in Requests /\ epoch \in Nat /\ epoch >= 1
  BY DEF SessionInv, TypeOK
<1>2. x \in Requests /\ x.pc = phase /\ x.saw = 1
  BY <1>1 DEF Over, Requests, Phases, None
<1> QED BY <1>1, <1>2 DEF Held, Pending, Carries

\* The steps that end a request without a trace in the tables.
LEMMA FinishStep ==
  ASSUME SessionInv, NEW r \in Reqs, NEW phase \in {"rehash", "ok", "refused", "failed", "lost"},
         Finish(r, phase),
         UNCHANGED <<tokenVars, delivered, dbVars, epoch, answered, bounds>>,
         known' \in [Workers -> SUBSET Tokens],
         by' \in [Workers -> [Tokens -> Tokens \cup {None}]],
         ended' \in [Workers -> SUBSET Tokens]
  PROVE  SessionInv'
<1> DEFINE x == Over(req[r], phase)
<1>1. x \in Requests /\ Held(x) /\ ~Pending(x)
  BY OverIsRequest
<1>2. req' = [req EXCEPT ![r] = x]
  BY DEF Finish
<1>3. \A q \in Reqs : Apart(x, req[q])
  BY <1>1, ApartWhenDone
<1> HIDE DEF x
<1> QED BY <1>1, <1>2, <1>3, QuietStep

LEMMA UnconsumedType ==
  ASSUME SessionInv, NEW r \in Reqs
  PROVE  Unconsumed(r) \in [Workers -> [Tokens -> Tokens \cup {None}]]
BY DEF Unconsumed, SessionInv, TypeOK

LEMMA StartSteps ==
  ASSUME SessionInv, NEW r \in Reqs, NEW w \in Workers,
         Login(r, w) \/ ChangePassword(r, w) \/ \E t \in Tokens : Refresh(r, w, t) \/ Logout(r, w, t)
  PROVE  SessionInv'
<1>1. /\ known \in [Workers -> SUBSET Tokens]
      /\ by \in [Workers -> [Tokens -> Tokens \cup {None}]]
      /\ ended \in [Workers -> SUBSET Tokens]
      /\ \A t \in Tokens : Family(t) \in Tokens
  BY DEF SessionInv, TypeOK, Family
<1>2. ASSUME NEW kind \in {"login", "change"}, NEW phase \in {"issue", "checked"},
             phase = "checked" => kind = "change",
             req' = [req EXCEPT ![r] = Started(w, kind, phase)],
             UNCHANGED <<tokenVars, delivered, dbVars, regVars, epoch, answered, bounds>>
      PROVE  SessionInv'
  <2> DEFINE x == Started(w, kind, phase)
  <2>1. x \in Requests /\ x.saw <= epoch
    BY StartedIsRequest DEF Kinds, Phases
  <2>2. x.pc = phase /\ x.kind = kind
    BY DEF Started
  <2>3. Held(x) /\ ~Pending(x)
    BY <1>2, <2>1, <2>2 DEF Held, Pending, Carries
  <2>4. \A q \in Reqs : Apart(x, req[q])
    BY <2>3, ApartWhenDone
  <2> HIDE DEF x
  <2> QED BY <1>1, <1>2, <2>1, <2>3, <2>4, QuietStep DEF x, regVars
<1>3. ASSUME NEW t \in Tokens, NEW kind \in {"refresh", "logout"},
             NEW phase \in {"verified", "revoke"},
             t \in Presentable,
             phase = "verified" => kind = "refresh" /\ SameCredential(t),
             req' = [req EXCEPT ![r] = [Started(w, kind, phase) EXCEPT !.tok = t]],
             ended' \in [Workers -> SUBSET Tokens],
             UNCHANGED <<tokenVars, delivered, dbVars, known, by, epoch, answered, bounds>>
      PROVE  SessionInv'
  <2> DEFINE x == [Started(w, kind, phase) EXCEPT !.tok = t]
  <2>1. Started(w, kind, phase) \in Requests /\ Started(w, kind, phase).saw <= epoch
    BY StartedIsRequest DEF Kinds, Phases
  <2>2. x \in Requests /\ x.saw <= epoch
    BY <2>1 DEF Requests
  <2>3. x.pc = phase /\ x.kind = kind /\ x.tok = t /\ x.floor = answered
    BY DEF Started
  <2>4. t \in rows \cap delivered
    BY <1>3 DEF Presentable, SessionInv, TypeOK
  <2>5. phase = "verified" => token[t].pwv >= answered
    BY <1>3 DEF SameCredential, SessionInv, TypeOK
  <2> HIDE DEF x
  <2>6. Held(x) /\ ~Pending(x)
    BY <1>3, <2>2, <2>3, <2>4, <2>5 DEF Held, Pending, Carries
  <2>7. \A q \in Reqs : Apart(x, req[q])
    BY <2>6, ApartWhenDone
  <2> QED BY <1>1, <1>3, <2>2, <2>6, <2>7, QuietStep DEF x
<1>4. \A t \in Tokens : [ended EXCEPT ![w] = @ \cup {Family(t)}] \in [Workers -> SUBSET Tokens]
  BY <1>1
<1>5. CASE Login(r, w)
  BY <1>2, <1>5 DEF Login
<1>6. CASE ChangePassword(r, w)
  BY <1>2, <1>6 DEF ChangePassword
<1>7. ASSUME NEW t \in Tokens, Refresh(r, w, t) PROVE SessionInv'
  BY <1>1, <1>3, <1>4, <1>7 DEF Refresh, Ends
<1>8. ASSUME NEW t \in Tokens, Logout(r, w, t) PROVE SessionInv'
  BY <1>3, <1>4, <1>8 DEF Logout, Ends
<1> QED BY <1>5, <1>6, <1>7, <1>8

LEMMA AfterRevokeType ==
  ASSUME SessionInv, NEW r \in Reqs
  PROVE  AfterRevoke(r) \in {"rehash", "ok", "refused"}
<1>1. req[r].kind \in Kinds
  BY DEF SessionInv, TypeOK, Requests
<1>2. CASE req[r].kind = "change"
  BY <1>2 DEF AfterRevoke, Phases
<1>3. CASE req[r].kind = "logout"
  BY <1>3 DEF AfterRevoke, Phases
<1>4. CASE req[r].kind \in {"refresh", "login"}
  BY <1>4 DEF AfterRevoke, Phases
<1> QED BY <1>1, <1>2, <1>3, <1>4 DEF Kinds

\* Moving on without a token of one's own.
LEMMA MoveOn ==
  ASSUME SessionInv, NEW r \in Reqs, NEW S \in SUBSET Tokens,
         NEW phase \in {"revoke", "revoking"},
         req[r].kind \in {"refresh", "logout"} => Carries(req[r]),
         req' = [req EXCEPT ![r] = [req[r] EXCEPT !.pc = phase, !.snap = S]],
         UNCHANGED <<tokenVars, delivered, dbVars, epoch, answered, bounds, known, by>>,
         ended' \in [Workers -> SUBSET Tokens]
  PROVE  SessionInv'
<1> DEFINE x == [req[r] EXCEPT !.pc = phase, !.snap = S]
<1>1. req[r] \in Requests /\ Held(req[r])
  BY DEF SessionInv, TypeOK
<1>2. /\ x \in Requests /\ x.pc = phase /\ x.saw = req[r].saw
      /\ x.kind = req[r].kind /\ x.tok = req[r].tok
  BY <1>1 DEF Requests, Phases
<1>3. known \in [Workers -> SUBSET Tokens] /\ by \in [Workers -> [Tokens -> Tokens \cup {None}]]
  BY DEF SessionInv, TypeOK
<1> HIDE DEF x
<1>4. Held(x) /\ ~Pending(x)
  BY <1>1, <1>2 DEF Held, Pending, Carries
<1>5. \A q \in Reqs : Apart(x, req[q])
  BY <1>4, ApartWhenDone
<1> QED BY <1>2, <1>3, <1>4, <1>5, QuietStep DEF x

LEMMA RevocationSteps ==
  ASSUME SessionInv, NEW r \in Reqs,
         ChangeRevokes(r) \/ RevokeReads(r) \/ RevokeFails(r) \/ RehashFails(r)
  PROVE  SessionInv'
<1>1. /\ req[r] \in Requests /\ Held(req[r])
      /\ \A v \in Workers : known[v] \in SUBSET Tokens
      /\ ended \in [Workers -> SUBSET Tokens] /\ known \in [Workers -> SUBSET Tokens]
      /\ by \in [Workers -> [Tokens -> Tokens \cup {None}]]
      /\ \A t \in Tokens : Family(t) \in Tokens
  BY DEF SessionInv, TypeOK, Family
<1>2. CASE ChangeRevokes(r)
  <2>1. [req[r] EXCEPT !.pc = "revoke"] = [req[r] EXCEPT !.pc = "revoke", !.snap = req[r].snap]
        /\ req[r].snap \in SUBSET Tokens /\ req[r].at \in Workers
    BY <1>1 DEF Requests
  <2>2. req' = [req EXCEPT ![r] = [req[r] EXCEPT !.pc = "revoke", !.snap = req[r].snap]]
    BY <1>2, <2>1 DEF ChangeRevokes, To
  <2>3. ended' \in [Workers -> SUBSET Tokens]
    BY <1>1, <1>2, <2>1 DEF ChangeRevokes, Ends
  <2>4. req[r].kind = "change"
    BY <1>1, <1>2 DEF ChangeRevokes, Held
  <2> QED BY <1>2, <2>1, <2>2, <2>3, <2>4, MoveOn DEF ChangeRevokes
<1>3. CASE RevokeReads(r)
  <2>1. Targets(r) \in SUBSET Tokens
    BY MintedAreTokens DEF Targets
  <2>2. req' = [req EXCEPT ![r] = [req[r] EXCEPT !.pc = "revoking", !.snap = Targets(r)]]
    BY <1>3 DEF RevokeReads
  <2>3. req[r].kind \in {"refresh", "logout"} => Carries(req[r])
    BY <1>3 DEF RevokeReads, Carries
  <2> QED BY <1>1, <1>3, <2>1, <2>2, <2>3, MoveOn DEF RevokeReads, regVars
<1>4. CASE RevokeFails(r)
  <2> DEFINE phase == IF req[r].kind = "change" THEN "failed" ELSE AfterRevoke(r)
             x == [Over(req[r], phase) EXCEPT !.snap = {}]
  <2>1. phase \in {"rehash", "ok", "refused", "failed", "lost"}
    BY AfterRevokeType
  <2>2. /\ Over(req[r], phase) \in Requests /\ Held(Over(req[r], phase))
        /\ ~Pending(Over(req[r], phase))
    <3> HIDE DEF phase
    <3> QED BY <2>1, OverIsRequest
  <2>3. x \in Requests /\ Held(x) /\ ~Pending(x)
    <3> DEFINE y == Over(req[r], phase)
    <3>1. [y EXCEPT !.snap = {}] \in Requests
      <4> HIDE DEF y
      <4> QED BY <2>2 DEF Requests, y
    <3>2. /\ x.pc = y.pc /\ x.saw = y.saw /\ x.kind = y.kind /\ x.tok = y.tok
          /\ x.next = y.next /\ x.floor = y.floor
      <4> HIDE DEF y
      <4> QED BY <2>2 DEF Requests, y
    <3> HIDE DEF x, y
    <3> QED BY <2>2, <3>1, <3>2 DEF Held, Pending, Carries, x, y
  <2>4. \A q \in Reqs : Apart(x, req[q])
    BY <2>3, ApartWhenDone
  <2>5. req' = [req EXCEPT ![r] = x] /\ UNCHANGED regVars
    BY <1>4 DEF RevokeFails
  <2> HIDE DEF x
  <2> QED BY <1>1, <1>4, <2>3, <2>4, <2>5, QuietStep DEF RevokeFails, regVars
<1>5. CASE RehashFails(r)
  BY <1>1, <1>5, FinishStep DEF RehashFails, regVars
<1> QED BY <1>2, <1>3, <1>4, <1>5

LEMMA FailureSteps ==
  ASSUME SessionInv, NEW r \in Reqs,
         PersistFails(r) \/ RotateFails(r)
  PROVE  SessionInv'
<1>1. /\ known \in [Workers -> SUBSET Tokens] /\ ended \in [Workers -> SUBSET Tokens]
      /\ by \in [Workers -> [Tokens -> Tokens \cup {None}]]
      /\ Unconsumed(r) \in [Workers -> [Tokens -> Tokens \cup {None}]]
  BY UnconsumedType DEF SessionInv, TypeOK
<1>2. CASE PersistFails(r)
  BY <1>1, <1>2, FinishStep DEF PersistFails, regVars
<1>3. CASE RotateFails(r)
  BY <1>1, <1>3, FinishStep DEF RotateFails
<1> QED BY <1>2, <1>3

\* The conditional UPDATE: who rotates has a row nobody else has locked.
LEMMA UpdateStep ==
  ASSUME SessionInv, NEW r \in Reqs, Update(r)
  PROVE  SessionInv'
<1> DEFINE t == req[r].tok
<1>1. /\ req[r] \in Requests /\ Held(req[r])
      /\ req[r].pc = "update" /\ ~Locked(t)
      /\ UNCHANGED <<tokenVars, delivered, dbVars, known, by, epoch, answered, bounds>>
  BY DEF Update, SessionInv, TypeOK
<1>2. t \in rows /\ t \in delivered /\ req[r].kind = "refresh" /\ t \in Tokens
  BY <1>1, MintedAreTokens DEF Held, Carries
<1>3. /\ known \in [Workers -> SUBSET Tokens] /\ ended \in [Workers -> SUBSET Tokens]
      /\ by \in [Workers -> [Tokens -> Tokens \cup {None}]]
      /\ Family(t) \in Tokens /\ req[r].at \in Workers
  BY <1>1, <1>2 DEF SessionInv, TypeOK, Family, Requests
<1>4. CASE Rotates(r) /\ To(r, "commit") /\ UNCHANGED ended
  <2> DEFINE x == [req[r] EXCEPT !.pc = "commit"]
  <2>1. /\ x \in Requests /\ x.pc = "commit" /\ x.saw = req[r].saw
        /\ x.kind = req[r].kind /\ x.tok = req[r].tok /\ x.next = req[r].next
        /\ x.floor = req[r].floor
    BY <1>1 DEF Requests, Phases
  <2>2. t \notin used \cup revoked
    BY <1>2, <1>4 DEF Rotates
  <2>3. req' = [req EXCEPT ![r] = x]
    BY <1>4 DEF To
  <2> HIDE DEF x
  <2>4. Held(x)
    BY <1>1, <2>1, <2>2 DEF Held, Pending, Carries
  <2>5. ASSUME NEW q \in Reqs \ {r} PROVE Apart(x, req[q])
    <3>1. Apart(req[r], req[q])
      BY DEF SessionInv
    <3>2. req[q].pc = "commit" => req[q].tok # t
      BY <1>1 DEF Locked
    <3> QED BY <1>1, <2>1, <3>1, <3>2 DEF Apart, Pending
  <2> QED BY <1>1, <1>3, <1>4, <2>1, <2>3, <2>4, <2>5, QuietStep
<1>5. CASE To(r, "revoke") /\ Ends(req[r].at, {Family(t)})
  <2>1. [req[r] EXCEPT !.pc = "revoke"] = [req[r] EXCEPT !.pc = "revoke", !.snap = req[r].snap]
        /\ req[r].snap \in SUBSET Tokens
    BY <1>1 DEF Requests
  <2>2. req' = [req EXCEPT ![r] = [req[r] EXCEPT !.pc = "revoke", !.snap = req[r].snap]]
    BY <1>5, <2>1 DEF To
  <2>3. ended' \in [Workers -> SUBSET Tokens]
    BY <1>3, <1>5 DEF Ends
  <2>4. Carries(req[r])
    BY <1>1, <1>2 DEF Carries
  <2> QED BY <1>1, <2>1, <2>2, <2>3, <2>4, MoveOn
<1>6. CASE Finish(r, "refused") /\ UNCHANGED ended
  BY <1>1, <1>3, <1>6, FinishStep
<1> QED BY <1>4, <1>5, <1>6 DEF Update

-----------------------------------------------------------------------------
(* Steps that issue a token                                                *)

\* The new token belongs to a session of its own or to one whose token some
\* client has: never to a session that is still being stored.
LEMMA MintStep ==
  ASSUME SessionInv, NEW r \in Reqs, NEW x \in Requests, NEW f \in Tokens,
         NEW p \in Tokens \cup {None}, NEW e \in Nat, Issues(r, f, p, e),
         f = minted + 1 \/ \E t \in delivered : f = Family(t),
         req' = [req EXCEPT ![r] = x], x.next = minted + 1 \/ ~Pending(x),
         x.pc # "commit", Held(x)',
         by' \in [Workers -> [Tokens -> Tokens \cup {None}]],
         ended' \in [Workers -> SUBSET Tokens],
         UNCHANGED <<delivered, dbVars, epoch, answered, bounds>>
  PROVE  SessionInv'
<1> USE DEF SessionInv
<1>1. /\ minted < MaxTokens /\ minted' = minted + 1 /\ expired' = expired
      /\ token' = [token EXCEPT ![minted + 1] = [family |-> f, parent |-> p, pwv |-> e]]
      /\ known' = [known EXCEPT ![req[r].at] = Registered(@, minted + 1)]
  BY DEF Issues
<1>2. UNCHANGED <<delivered, rows, used, revoked, epoch, answered, restarts, unacked>>
  BY DEF dbVars, bounds
<1>3. /\ minted' \in Tokens /\ minted \in Nat /\ minted \in Tokens /\ 1..minted \subseteq 1..minted'
      /\ 1..minted' = (1..minted) \cup {minted'}
  BY <1>1, MintedAreTokens, BoundsAssumption DEF Tokens
<1>4. /\ token \in [Tokens -> [family : Tokens, parent : Tokens \cup {None}, pwv : Nat]]
      /\ req \in [Reqs -> Requests] /\ known \in [Workers -> SUBSET Tokens]
      /\ delivered \subseteq 1..minted /\ rows \subseteq 1..minted /\ used \subseteq 1..minted
      /\ revoked \subseteq 1..minted
  BY DEF TypeOK
<1>5. req' \in [Reqs -> Requests] /\ req'[r] = x /\ \A q \in Reqs \ {r} : req'[q] = req[q]
  BY <1>4
<1>6. /\ token' \in [Tokens -> [family : Tokens, parent : Tokens \cup {None}, pwv : Nat]]
      /\ token'[minted'].family = f
      /\ \A t \in 1..minted : token'[t] = token[t]
  BY <1>1, <1>3, <1>4, MintedAreTokens
<1>7. known' \in [Workers -> SUBSET Tokens]
  <2>1. \A S \in SUBSET Tokens : Registered(S, minted + 1) \in SUBSET Tokens
    BY <1>1, <1>3 DEF Registered
  <2> QED BY <1>1, <1>4, <2>1
<1>8. TypeOK'
  BY <1>1, <1>2, <1>3, <1>4, <1>5, <1>6, <1>7 DEF TypeOK
<1>9. OneLiveToken'
  BY <1>2, <1>4, <1>6 DEF OneLiveToken, Family
<1>10. \A t \in delivered' : t > expired' => t \in rows'
  BY <1>1, <1>2
<1>11. ASSUME NEW q \in Reqs \ {r} PROVE Held(req[q])'
  <2>0. PICK y \in Requests : y = req[q]
    BY <1>4
  <2>1. Held(y) /\ req'[q] = y
    BY <1>5, <2>0
  <2>2. y.pc \in {"verified", "update", "commit"} => token'[y.tok] = token[y.tok]
    BY <1>4, <1>6, <2>1 DEF Held, Carries
  <2>3. y.pc \in {"update", "commit"} =>
          token'[y.next] = token[y.next] /\ token'[y.tok] = token[y.tok]
    BY <1>6, <2>1, <2>2 DEF Held, Pending
  <2>4. y.pc = "persist" =>
          /\ token'[y.next] = token[y.next]
          /\ \A u \in 1..minted' : token'[u].family = y.next => u = y.next
    <3> SUFFICES ASSUME y.pc = "persist"
                 PROVE  /\ token'[y.next] = token[y.next]
                        /\ \A u \in 1..minted' : token'[u].family = y.next => u = y.next
      OBVIOUS
    <3>1. /\ y.next \in 1..minted /\ y.next \notin delivered
          /\ \A u \in 1..minted : token[u].family = y.next => u = y.next
      BY <2>1 DEF Held, Pending, Family
    <3>2. f # y.next
      <4>1. CASE f = minted + 1
        BY <1>3, <3>1, <4>1
      <4>2. ASSUME NEW t \in delivered, f = token[t].family PROVE f # y.next
        BY <1>4, <3>1, <4>2
      <4> QED BY <4>1, <4>2 DEF Family
    <3> QED BY <1>3, <1>6, <3>1, <3>2
  <2>5. Pending(y) => y.next \in (1..minted') \ delivered
    BY <1>3, <2>1 DEF Held
  <2>6. Held(y)'
    BY <1>1, <1>2, <2>1, <2>2, <2>3, <2>4, <2>5 DEF Held, Family, Pending, Carries
  <2> QED BY <2>1, <2>6 DEF Held, Family, Pending, Carries
<1>12. ASSUME NEW q \in Reqs \ {r} PROVE Apart(x, req[q]) /\ Apart(req[q], x)
  <2>1. Pending(req[q]) => req[q].next \in 1..minted
    BY DEF Held
  <2> QED BY <1>3, <2>1 DEF Apart
<1>13. ASSUME NEW q \in Reqs, NEW s \in Reqs, q # s PROVE Apart(req[q], req[s])'
  <2>1. Apart(req'[q], req'[s])
    BY <1>5, <1>12, <1>13
  <2> QED BY <2>1 DEF Apart, Pending
<1>14. Held(req[r])'
  BY <1>5 DEF Held, Family, Pending, Carries
<1>15. \A t \in 1..minted' : Family(t)' \in 1..minted'
  <2>1. \A t \in 1..minted : token[t].family \in 1..minted
    BY DEF Family
  <2>2. f \in 1..minted'
    <3>1. CASE f = minted + 1
      BY <1>1, <1>3, <3>1
    <3>2. ASSUME NEW t \in delivered, f = token[t].family PROVE f \in 1..minted'
      BY <1>3, <1>4, <2>1, <3>2
    <3> QED BY <3>1, <3>2 DEF Family
  <2> HIDE DEF SessionInv
  <2>3. \A t \in 1..minted' : token'[t].family \in 1..minted'
    BY <1>3, <1>6, <2>1, <2>2
  <2> QED BY <2>3 DEF Family
<1> QED BY <1>8, <1>9, <1>10, <1>11, <1>13, <1>14, <1>15

LEMMA IssueSessionStep ==
  ASSUME SessionInv, NEW r \in Reqs, IssueSession(r)
  PROVE  SessionInv'
<1>1. /\ req[r].pc = "issue" /\ Issues(r, minted + 1, None, req[r].saw)
      /\ UNCHANGED <<delivered, dbVars, by, ended, epoch, answered, bounds>>
      /\ minted' = minted + 1 /\ minted < MaxTokens
      /\ req' = [req EXCEPT ![r] = [req[r] EXCEPT !.pc = "persist", !.next = minted + 1]]
  BY DEF IssueSession, Issues
<1>2. req[r] \in Requests /\ Held(req[r])
  BY DEF SessionInv, TypeOK
<1>3. minted + 1 \in Tokens /\ minted \in Nat /\ minted \in Tokens
  BY <1>1, MintedAreTokens, BoundsAssumption DEF Tokens
<1>4. PICK x \in Requests : x = [req[r] EXCEPT !.pc = "persist", !.next = minted + 1]
  BY <1>2, <1>3 DEF Requests, Phases
<1>5. x.pc = "persist" /\ x.next = minted + 1 /\ x.saw = req[r].saw /\ x.kind = req[r].kind
  BY <1>2, <1>4 DEF Requests
<1>6. /\ token' = [token EXCEPT ![minted + 1] =
                    [family |-> minted + 1, parent |-> None, pwv |-> req[r].saw]]
  BY <1>1 DEF Issues
<1>7. Held(x)'
  <2>1. /\ token'[minted + 1].family = minted + 1
        /\ \A u \in 1..minted' : token'[u].family = minted + 1 => u = minted + 1
    <3>1. token \in [Tokens -> [family : Tokens, parent : Tokens \cup {None}, pwv : Nat]]
      BY DEF SessionInv, TypeOK
    <3>2. \A u \in 1..minted : token[u].family # minted + 1
      BY <1>3 DEF SessionInv, Family
    <3> QED BY <1>1, <1>3, <1>6, <3>1, <3>2
  <2>2. UNCHANGED <<delivered, rows, epoch>> /\ minted + 1 \notin rows /\ minted + 1 \notin delivered
    BY <1>1, <1>3 DEF dbVars, SessionInv, TypeOK
  <2>3. x.saw <= epoch
    BY <1>2, <1>5 DEF Held
  <2> QED BY <1>1, <1>3, <1>5, <2>1, <2>2, <2>3 DEF Held, Pending, Carries, Family
<1>8. by' \in [Workers -> [Tokens -> Tokens \cup {None}]] /\ ended' \in [Workers -> SUBSET Tokens]
  BY <1>1 DEF SessionInv, TypeOK
<1>9. req[r].saw \in Nat /\ None \in Tokens \cup {None}
  BY <1>2 DEF Requests
<1> QED BY <1>1, <1>3, <1>4, <1>5, <1>7, <1>8, <1>9, MintStep

LEMMA ConsumeStep ==
  ASSUME SessionInv, NEW r \in Reqs, Consume(r)
  PROVE  SessionInv'
<1> DEFINE t == req[r].tok
           w == req[r].at
<1>1. /\ req[r].pc = "verified" /\ Issues(r, Family(t), t, req[r].saw)
      /\ UNCHANGED <<delivered, dbVars, epoch, answered, bounds>>
      /\ minted' = minted + 1 /\ minted < MaxTokens
  BY DEF Consume, Issues
<1>2. req[r] \in Requests /\ Held(req[r])
  BY DEF SessionInv, TypeOK
<1>3. minted + 1 \in Tokens /\ minted \in Nat /\ minted \in Tokens
  BY <1>1, MintedAreTokens, BoundsAssumption DEF Tokens
<1>4. /\ req[r].kind = "refresh" /\ t \in rows /\ t \in delivered /\ t \in Tokens /\ t \in 1..minted
      /\ token[t].pwv >= req[r].floor /\ req[r].saw <= epoch
  <2>1. req[r].kind = "refresh" /\ token[t].pwv >= req[r].floor /\ req[r].saw <= epoch
    BY <1>1, <1>2 DEF Held
  <2>2. t \in rows /\ t \in delivered
    BY <1>1, <1>2, <2>1 DEF Held, Carries
  <2> QED BY <2>1, <2>2, MintedAreTokens DEF SessionInv, TypeOK
<1>5. /\ by \in [Workers -> [Tokens -> Tokens \cup {None}]] /\ ended \in [Workers -> SUBSET Tokens]
      /\ Family(t) \in Tokens /\ req[r].saw \in Nat /\ w \in Workers
      /\ token \in [Tokens -> [family : Tokens, parent : Tokens \cup {None}, pwv : Nat]]
  BY <1>2, <1>4 DEF SessionInv, TypeOK, Family, Requests
<1>6. /\ token' = [token EXCEPT ![minted + 1] =
                    [family |-> Family(t), parent |-> t, pwv |-> req[r].saw]]
      /\ token'[minted + 1].family = Family(t) /\ token'[t] = token[t]
  <2>1. token' = [token EXCEPT ![minted + 1] =
                    [family |-> Family(t), parent |-> t, pwv |-> req[r].saw]]
    BY <1>1 DEF Issues
  <2> QED BY <1>3, <1>4, <1>5, <2>1
<1>7. UNCHANGED <<delivered, rows, used, revoked, epoch>>
      /\ minted + 1 \notin rows /\ minted + 1 \notin delivered
  BY <1>1, <1>3 DEF dbVars, SessionInv, TypeOK
<1>8. by' \in [Workers -> [Tokens -> Tokens \cup {None}]] /\ ended' \in [Workers -> SUBSET Tokens]
  <2>1. by' = by \/ by' = [by EXCEPT ![w][t] = minted + 1]
    BY <1>1 DEF Consume
  <2>2. ended' = ended \/ ended' = [ended EXCEPT ![w] = @ \cup {Family(t)}]
    BY DEF Consume, Ends
  <2> QED BY <1>3, <1>5, <2>1, <2>2
<1>9. ASSUME NEW x \in Requests, req' = [req EXCEPT ![r] = x], Held(x)', x.pc # "commit",
             x.next = minted + 1 \/ ~Pending(x)
      PROVE  SessionInv'
  BY <1>1, <1>4, <1>5, <1>8, <1>9, MintStep
<1>10. CASE Finish(r, "refused")
  <2>1. PICK x \in Requests : x = Over(req[r], "refused")
    BY OverIsRequest
  <2>2. x.pc = "refused" /\ x.saw = 1 /\ ~Pending(x)
    BY <1>2, <2>1 DEF Over, Requests, Pending
  <2>3. epoch >= 1
    BY DEF SessionInv, TypeOK
  <2>4. Held(x)'
    BY <1>7, <2>2, <2>3 DEF Held, Pending, Carries
  <2> QED BY <1>9, <1>10, <2>1, <2>2, <2>4 DEF Finish
<1>11. ASSUME NEW phase \in {"update", "revoke"}, NEW v \in BOOLEAN,
              req' = [req EXCEPT ![r].pc = phase, ![r].vouched = v, ![r].next = minted']
       PROVE  SessionInv'
  <2>1. PICK x \in Requests : x = [req[r] EXCEPT !.pc = phase, !.vouched = v, !.next = minted + 1]
    BY <1>2, <1>3 DEF Requests, Phases
  <2>2. /\ x.pc = phase /\ x.next = minted + 1 /\ x.saw = req[r].saw /\ x.kind = req[r].kind
        /\ x.tok = t /\ x.floor = req[r].floor
    BY <1>2, <2>1 DEF Requests
  <2>3. req' = [req EXCEPT ![r] = x]
    BY <1>1, <1>2, <1>11, <2>1 DEF SessionInv, TypeOK
  <2>4. Held(x)'
    BY <1>1, <1>3, <1>4, <1>6, <1>7, <2>2 DEF Held, Pending, Carries, Family
  <2> QED BY <1>9, <2>1, <2>2, <2>3, <2>4
<1> QED BY <1>10, <1>11 DEF Consume

-----------------------------------------------------------------------------
(* Steps that change the tables                                            *)

\* What a request relies on survives a step of another one.
LEMMA StillHeld ==
  ASSUME SessionInv, NEW q \in Reqs, req'[q] = req[q],
         token' = token, minted' = minted, epoch' \in Nat, epoch <= epoch',
         expired' \in Nat, expired <= expired',
         Carries(req[q]) => req[q].tok \in rows', delivered \subseteq delivered',
         Pending(req[q]) => req[q].next \notin delivered',
         req[q].pc = "commit" => req[q].tok \notin used' \cup revoked',
         req[q].pc \in {"update", "commit", "persist"} => req[q].next \notin rows',
         req[q].pc = "purge" => req[q].next \in rows' \/ req[q].next <= expired'
  PROVE  Held(req[q])'
<1>1. PICK y \in Requests : y = req[q] /\ y = req'[q]
  BY DEF SessionInv, TypeOK
<1>2. Held(y) /\ epoch \in Nat /\ expired \in Nat /\ y.saw \in Nat /\ y.next \in Nat
  BY <1>1, BoundsAssumption DEF SessionInv, TypeOK, Requests, Tokens, None
<1>3. y.saw <= epoch'
  BY <1>2 DEF Held
<1>4. Held(y)'
  BY <1>1, <1>2, <1>3 DEF Held, Pending, Carries, Family
<1> QED BY <1>1, <1>4 DEF Held, Pending, Carries, Family

LEMMA StillApart ==
  ASSUME SessionInv, NEW r \in Reqs, NEW x \in Requests,
         req' = [req EXCEPT ![r] = x], x.pc # "commit",
         Pending(x) => Pending(req[r]) /\ x.next = req[r].next
  PROVE  /\ req' \in [Reqs -> Requests] /\ req'[r] = x
         /\ \A q \in Reqs \ {r} : req'[q] = req[q]
         /\ \A q, s \in Reqs : q # s => Apart(req[q], req[s])'
<1>1. /\ req' \in [Reqs -> Requests] /\ req'[r] = x
      /\ \A q \in Reqs \ {r} : req'[q] = req[q]
  BY DEF SessionInv, TypeOK
<1>2. ASSUME NEW q \in Reqs, NEW s \in Reqs, q # s PROVE Apart(req[q], req[s])'
  <2>1. Apart(req[q], req[s])
    BY <1>2 DEF SessionInv
  <2>2. Apart(req'[q], req'[s])
    BY <1>1, <1>2, <2>1 DEF Apart, Pending
  <2> QED BY <2>2 DEF Apart, Pending
<1> QED BY <1>1, <1>2

LEMMA PersistStep ==
  ASSUME SessionInv, NEW r \in Reqs, Persist(r)
  PROVE  SessionInv'
<1> DEFINE n == req[r].next
<1>1. /\ req[r].pc = "persist" /\ rows' = rows \cup {n}
      /\ UNCHANGED <<token, minted, expired, delivered, used, revoked, known, by, ended,
                     epoch, answered, restarts, unacked>>
  BY DEF Persist, tokenVars, regVars, bounds
<1>2. req[r] \in Requests /\ Held(req[r])
  BY DEF SessionInv, TypeOK
<1>3. /\ n \in 1..minted /\ n \notin delivered /\ n \notin rows /\ Family(n) = n
      /\ \A u \in 1..minted : Family(u) = n => u = n
  BY <1>1, <1>2 DEF Held, Pending
<1>4. PICK x \in Requests : x = [req[r] EXCEPT !.pc = "purge"]
  BY <1>2 DEF Requests, Phases
<1>5. /\ x.pc = "purge" /\ x.next = n /\ x.saw = req[r].saw
      /\ req' = [req EXCEPT ![r] = x] /\ Pending(x) /\ Pending(req[r])
  BY <1>1, <1>2, <1>4 DEF Requests, Persist, To, Pending
<1>6. /\ req' \in [Reqs -> Requests] /\ req'[r] = x
      /\ \A q \in Reqs \ {r} : req'[q] = req[q]
      /\ \A q, s \in Reqs : q # s => Apart(req[q], req[s])'
  BY <1>5, StillApart
<1>7. TypeOK'
  BY <1>1, <1>3, <1>6 DEF SessionInv, TypeOK
<1>8. OneLiveToken'
  <2> SUFFICES ASSUME NEW u \in rows' \ (used \cup revoked), NEW v \in rows' \ (used \cup revoked),
                      Family(u) = Family(v)
               PROVE  u = v
    BY <1>1 DEF OneLiveToken, Family
  <2>1. rows \subseteq 1..minted
    BY DEF SessionInv, TypeOK
  <2>2. CASE u \in rows /\ v \in rows
    BY <2>2 DEF SessionInv, OneLiveToken
  <2>3. CASE u = n \/ v = n
    BY <1>1, <1>3, <2>1, <2>3
  <2> QED BY <1>1, <2>2, <2>3
<1>9. ASSUME NEW q \in Reqs \ {r} PROVE Held(req[q])'
  <2>1. Held(req[q]) /\ Apart(req[q], req[r]) /\ expired \in Nat /\ epoch \in Nat
    BY DEF SessionInv, TypeOK
  <2>2. Pending(req[q]) => req[q].next # n
    BY <1>5, <2>1 DEF Apart
  <2> QED BY <1>1, <1>6, <2>1, <2>2, StillHeld DEF Held, Pending
<1>10. Held(req[r])'
  <2>1. Held(x)'
    BY <1>1, <1>2, <1>3, <1>5 DEF Held, Pending, Carries, Family
  <2> QED BY <1>6, <2>1 DEF Held, Pending, Carries, Family
<1>11. /\ \A t \in delivered' : t > expired' => t \in rows'
       /\ \A t \in 1..minted' : Family(t)' \in 1..minted'
  BY <1>1 DEF SessionInv, Family
<1> QED BY <1>6, <1>7, <1>8, <1>9, <1>10, <1>11 DEF SessionInv

\* What is over relies on nothing.
LEMMA OverHeld ==
  ASSUME SessionInv, NEW r \in Reqs, NEW phase \in {"rehash", "ok", "refused", "failed", "lost"},
         req'[r] = Over(req[r], phase), epoch' \in Nat, epoch' >= 1
  PROVE  Held(req[r])'
<1>1. req[r] \in Requests
  BY DEF SessionInv, TypeOK
<1>2. req'[r].pc = phase /\ req'[r].saw = 1
  BY <1>1 DEF Over, Requests
<1> QED BY <1>2 DEF Held, Pending, Carries

LEMMA PurgeAndAnswerStep ==
  ASSUME SessionInv, NEW r \in Reqs, PurgeAndAnswer(r)
  PROVE  SessionInv'
<1> DEFINE n == req[r].next
<1>1. PICK gone \in {{}, Purgeable} :
        /\ req[r].pc = "purge" /\ rows' = rows \ gone
        /\ delivered' = delivered \cup {n}
        /\ answered' = IF req[r].kind = "change" /\ req[r].saw > answered
                       THEN req[r].saw ELSE answered
        /\ req' = [req EXCEPT ![r] = Over(req[r], "ok")]
        /\ UNCHANGED <<token, minted, expired, used, revoked, known, by, ended, epoch,
                       restarts, unacked>>
  BY DEF PurgeAndAnswer, tokenVars, regVars, bounds, Finish
<1>2. req[r] \in Requests /\ Held(req[r])
  BY DEF SessionInv, TypeOK
<1>3. /\ n \in 1..minted /\ n \notin delivered /\ (n \in rows \/ n <= expired)
      /\ req[r].saw <= epoch /\ req[r].saw \in Nat
  BY <1>1, <1>2 DEF Held, Pending, Requests
<1>4. PICK x \in Requests : x = Over(req[r], "ok")
  BY OverIsRequest
<1>5. ~Pending(x) /\ x.pc # "commit" /\ req' = [req EXCEPT ![r] = x]
  BY <1>1, <1>2, <1>4 DEF Over, Requests, Pending
<1>6. /\ req' \in [Reqs -> Requests] /\ req'[r] = x
      /\ \A q \in Reqs \ {r} : req'[q] = req[q]
      /\ \A q, s \in Reqs : q # s => Apart(req[q], req[s])'
  BY <1>5, StillApart
<1>7. TypeOK'
  <2>1. answered' \in 1..epoch
    BY <1>1, <1>3 DEF SessionInv, TypeOK
  <2> QED BY <1>1, <1>3, <1>6, <2>1 DEF SessionInv, TypeOK
<1>8. OneLiveToken'
  BY <1>1 DEF SessionInv, OneLiveToken, Family
<1>9. \A t \in gone : t <= expired /\ \A q \in Reqs : req[q].tok = t =>
                        req[q].pc \in {"ok", "refused", "failed", "lost"}
  BY DEF Purgeable
<1>10. ASSUME NEW q \in Reqs \ {r} PROVE Held(req[q])'
  <2>1. Held(req[q]) /\ Apart(req[q], req[r]) /\ expired \in Nat /\ epoch \in Nat
    BY DEF SessionInv, TypeOK
  <2>2. Pending(req[q]) => req[q].next # n
    BY <1>1, <2>1 DEF Apart, Pending
  <2>3. Carries(req[q]) => req[q].tok \in rows'
    BY <1>1, <1>9, <2>1 DEF Held, Carries
  <2>4. req[q].pc = "purge" => req[q].next \in rows' \/ req[q].next <= expired
    BY <1>1, <1>9, <2>1 DEF Held
  <2> QED BY <1>1, <1>6, <2>1, <2>2, <2>3, <2>4, StillHeld DEF Held, Pending
<1>11. Held(req[r])'
  <2>1. epoch' \in Nat /\ epoch' >= 1
    BY <1>1 DEF SessionInv, TypeOK
  <2> QED BY <1>4, <1>6, <2>1, OverHeld
<1>12. /\ \A t \in delivered' : t > expired' => t \in rows'
       /\ \A t \in 1..minted' : Family(t)' \in 1..minted'
  <2>1. \A t \in delivered \cup {n} : t > expired => t \in rows \ gone
    <3> SUFFICES ASSUME NEW t \in delivered \cup {n}, t > expired PROVE t \in rows \ gone
      OBVIOUS
    <3>1. t \in Nat /\ expired \in Nat
      BY <1>3 DEF SessionInv, TypeOK
    <3>2. t \in rows
      BY <1>3, <3>1 DEF SessionInv
    <3>3. t \notin gone
      BY <1>9, <3>1
    <3> QED BY <3>2, <3>3
  <2>2. \A t \in 1..minted' : Family(t)' \in 1..minted'
    BY <1>1 DEF SessionInv, Family
  <2> QED BY <1>1, <2>1, <2>2
<1> QED BY <1>6, <1>7, <1>8, <1>10, <1>11, <1>12 DEF SessionInv

\* The commit of a rotation, acknowledged or not: the token it locked was the
\* live one of the session, and its successor takes its place.
LEMMA RotationStep ==
  ASSUME SessionInv, NEW r \in Reqs, NEW phase \in {"ok", "failed"},
         req[r].pc = "commit", Rotated(r), Finish(r, phase),
         delivered' = delivered \/ delivered' = delivered \cup {req[r].next},
         by' \in [Workers -> [Tokens -> Tokens \cup {None}]],
         unacked' \in 0..MaxFaults
  PROVE  SessionInv'
<1> DEFINE n == req[r].next
           t == req[r].tok
<1>1. /\ used' = used \cup {t} /\ rows' = rows \cup {n}
      /\ UNCHANGED <<token, minted, expired, revoked, known, ended, epoch, answered, restarts>>
  BY DEF Rotated, tokenVars
<1>2. req[r] \in Requests /\ Held(req[r])
  BY DEF SessionInv, TypeOK
<1>3. /\ n \in 1..minted /\ n \notin delivered /\ n \notin rows /\ Family(n) = Family(t)
      /\ t \in rows /\ t \in delivered /\ t \notin used \cup revoked
  BY <1>2 DEF Held, Pending, Carries
<1>4. PICK x \in Requests : x = Over(req[r], phase)
  BY OverIsRequest
<1>5. ~Pending(x) /\ x.pc # "commit" /\ req' = [req EXCEPT ![r] = x]
  BY <1>2, <1>4 DEF Over, Requests, Pending, Finish
<1>6. /\ req' \in [Reqs -> Requests] /\ req'[r] = x
      /\ \A q \in Reqs \ {r} : req'[q] = req[q]
      /\ \A q, s \in Reqs : q # s => Apart(req[q], req[s])'
  BY <1>5, StillApart
<1>7. TypeOK'
  BY <1>1, <1>3, <1>6 DEF SessionInv, TypeOK
<1>8. OneLiveToken'
  <2> SUFFICES ASSUME NEW u \in rows' \ (used' \cup revoked), NEW v \in rows' \ (used' \cup revoked),
                      Family(u) = Family(v)
               PROVE  u = v
    BY <1>1 DEF OneLiveToken, Family
  <2>1. \A s \in rows' \ (used' \cup revoked) : s \in rows => Family(s) # Family(t)
    BY <1>1, <1>3 DEF SessionInv, OneLiveToken
  <2>2. CASE u \in rows /\ v \in rows
    BY <1>1, <2>2 DEF SessionInv, OneLiveToken
  <2>3. CASE u = n \/ v = n
    BY <1>1, <1>3, <2>1, <2>3
  <2> QED BY <1>1, <2>2, <2>3
<1>9. ASSUME NEW q \in Reqs \ {r} PROVE Held(req[q])'
  <2>1. Held(req[q]) /\ Apart(req[q], req[r]) /\ expired \in Nat /\ epoch \in Nat
    BY DEF SessionInv, TypeOK
  <2>2. Pending(req[q]) => req[q].next # n
    BY <2>1 DEF Apart, Pending
  <2>3. req[q].pc = "commit" => req[q].tok # t
    BY <2>1 DEF Apart
  <2> QED BY <1>1, <1>6, <2>1, <2>2, <2>3, StillHeld DEF Held, Pending
<1>10. Held(req[r])'
  <2>1. epoch' \in Nat /\ epoch' >= 1
    BY <1>1 DEF SessionInv, TypeOK
  <2> QED BY <1>4, <1>6, <2>1, OverHeld
<1>11. /\ \A s \in delivered' : s > expired' => s \in rows'
       /\ \A s \in 1..minted' : Family(s)' \in 1..minted'
  BY <1>1 DEF SessionInv, Family
<1> QED BY <1>6, <1>7, <1>8, <1>9, <1>10, <1>11 DEF SessionInv

\* The rows that a revocation takes are not locked by a rotation.
LEMMA RevokeAppliesStep ==
  ASSUME SessionInv, NEW r \in Reqs, RevokeApplies(r)
  PROVE  SessionInv'
<1> DEFINE phase == AfterRevoke(r)
<1>1. /\ revoked' = revoked \cup (req[r].snap \cap rows)
      /\ \A t \in req[r].snap : ~Locked(t)
      /\ req' = [req EXCEPT ![r] = Over(req[r], phase)]
      /\ UNCHANGED <<token, minted, expired, delivered, rows, used, known, by, ended, epoch,
                     answered, restarts, unacked>>
  BY DEF RevokeApplies, Finish, tokenVars, regVars, bounds
<1>2. req[r] \in Requests /\ phase \in {"rehash", "ok", "refused", "failed", "lost"}
  BY AfterRevokeType DEF SessionInv, TypeOK
<1> HIDE DEF phase
<1>3. PICK x \in Requests : x = Over(req[r], phase)
  BY <1>2, OverIsRequest
<1>4. ~Pending(x) /\ x.pc # "commit" /\ req' = [req EXCEPT ![r] = x]
  BY <1>1, <1>2, <1>3 DEF Over, Requests, Pending
<1>5. /\ req' \in [Reqs -> Requests] /\ req'[r] = x
      /\ \A q \in Reqs \ {r} : req'[q] = req[q]
      /\ \A q, s \in Reqs : q # s => Apart(req[q], req[s])'
  BY <1>4, StillApart
<1>6. TypeOK'
  BY <1>1, <1>5 DEF SessionInv, TypeOK
<1>7. OneLiveToken'
  BY <1>1 DEF SessionInv, OneLiveToken, Family
<1>8. ASSUME NEW q \in Reqs \ {r} PROVE Held(req[q])'
  <2>1. Held(req[q]) /\ expired \in Nat /\ epoch \in Nat
    BY DEF SessionInv, TypeOK
  <2>2. req[q].pc = "commit" => req[q].tok \notin req[r].snap
    BY <1>1 DEF Locked
  <2>3. req[q].pc = "commit" => req[q].tok \notin used' \cup revoked'
    BY <1>1, <2>1, <2>2 DEF Held
  <2> QED BY <1>1, <1>5, <2>1, <2>3, StillHeld DEF Held, Pending
<1>9. Held(req[r])'
  <2>1. epoch' \in Nat /\ epoch' >= 1
    BY <1>1 DEF SessionInv, TypeOK
  <2> QED BY <1>2, <1>3, <1>5, <2>1, OverHeld
<1>10. /\ \A t \in delivered' : t > expired' => t \in rows'
       /\ \A t \in 1..minted' : Family(t)' \in 1..minted'
  BY <1>1 DEF SessionInv, Family
<1> QED BY <1>5, <1>6, <1>7, <1>8, <1>9, <1>10 DEF SessionInv

LEMMA RehashStep ==
  ASSUME SessionInv, NEW r \in Reqs, Rehash(r)
  PROVE  SessionInv'
<1>1. /\ req[r].pc = "rehash" /\ epoch' = epoch + 1
      /\ req' = [req EXCEPT ![r].pc = "issue", ![r].saw = epoch + 1]
      /\ UNCHANGED <<token, minted, expired, delivered, rows, used, revoked, known, by, ended,
                     answered, restarts, unacked>>
  BY DEF Rehash, tokenVars, dbVars, regVars, bounds
<1>2. req[r] \in Requests /\ Held(req[r]) /\ epoch \in Nat /\ epoch >= 1
  BY DEF SessionInv, TypeOK
<1>3. PICK x \in Requests : x = [req[r] EXCEPT !.pc = "issue", !.saw = epoch + 1]
  <2>1. ASSUME NEW e \in Nat PROVE [req[r] EXCEPT !.pc = "issue", !.saw = e] \in Requests
    <3>1. req[r] \in Requests
      BY <1>2
    <3> QED BY <3>1 DEF Requests, Phases
  <2>2. epoch + 1 \in Nat
    BY <1>2
  <2> QED BY <2>1, <2>2
<1>4. x.pc = "issue" /\ x.saw = epoch + 1 /\ ~Pending(x) /\ req' = [req EXCEPT ![r] = x]
  BY <1>1, <1>2, <1>3 DEF Requests, Pending, SessionInv, TypeOK
<1>5. /\ req' \in [Reqs -> Requests] /\ req'[r] = x
      /\ \A q \in Reqs \ {r} : req'[q] = req[q]
      /\ \A q, s \in Reqs : q # s => Apart(req[q], req[s])'
  BY <1>4, StillApart
<1>6. TypeOK'
  BY <1>1, <1>2, <1>5 DEF SessionInv, TypeOK
<1>7. OneLiveToken'
  BY <1>1 DEF SessionInv, OneLiveToken, Family
<1>8. ASSUME NEW q \in Reqs \ {r} PROVE Held(req[q])'
  <2>1. Held(req[q]) /\ expired \in Nat
    BY DEF SessionInv, TypeOK
  <2> QED BY <1>1, <1>2, <1>5, <2>1, StillHeld DEF Held, Pending
<1>9. Held(req[r])'
  BY <1>1, <1>2, <1>4, <1>5 DEF Held, Pending, Carries
<1>10. /\ \A t \in delivered' : t > expired' => t \in rows'
       /\ \A t \in 1..minted' : Family(t)' \in 1..minted'
  BY <1>1 DEF SessionInv, Family
<1> QED BY <1>5, <1>6, <1>7, <1>8, <1>9, <1>10 DEF SessionInv

LEMMA ExpireStep ==
  ASSUME SessionInv, Expire
  PROVE  SessionInv'
<1>1. /\ expired' = expired + 1 /\ restarts + unacked + expired < MaxFaults
      /\ UNCHANGED <<token, minted, delivered, rows, used, revoked, known, by, ended, epoch,
                     answered, req, restarts, unacked>>
  BY DEF Expire, MayFault, dbVars, regVars, bounds
<1>2. /\ expired \in 0..MaxFaults /\ restarts \in 0..MaxFaults /\ unacked \in 0..MaxFaults
      /\ epoch \in Nat /\ MaxFaults \in Nat
  BY BoundsAssumption DEF SessionInv, TypeOK
<1>3. TypeOK'
  BY <1>1, <1>2 DEF SessionInv, TypeOK
<1>4. OneLiveToken'
  BY <1>1 DEF SessionInv, OneLiveToken, Family
<1>5. ASSUME NEW q \in Reqs PROVE Held(req[q])'
  <2>1. Held(req[q]) /\ req[q] \in Requests
    BY DEF SessionInv, TypeOK
  <2>2. req[q].next \in Nat
    BY <2>1, BoundsAssumption DEF Requests, Tokens, None
  <2>3. req[q].pc = "purge" => req[q].next \in rows' \/ req[q].next <= expired'
    BY <1>1, <1>2, <2>1, <2>2 DEF Held
  <2> QED BY <1>1, <1>2, <2>1, <2>3, StillHeld DEF Held, Pending
<1>6. \A q, s \in Reqs : q # s => Apart(req[q], req[s])'
  BY <1>1 DEF SessionInv, Apart, Pending
<1>7. \A t \in delivered' : t > expired' => t \in rows'
  <2>1. delivered \subseteq Nat
    BY DEF SessionInv, TypeOK
  <2> QED BY <1>1, <1>2, <2>1 DEF SessionInv
<1>8. \A t \in 1..minted' : Family(t)' \in 1..minted'
  BY <1>1 DEF SessionInv, Family
<1> QED BY <1>3, <1>4, <1>5, <1>6, <1>7, <1>8 DEF SessionInv

LEMMA RestartStep ==
  ASSUME SessionInv, NEW w \in Workers, Restart(w)
  PROVE  SessionInv'
<1>1. /\ restarts' = restarts + 1 /\ restarts + unacked + expired < MaxFaults
      /\ known' = [known EXCEPT ![w] = {}]
      /\ by' = [by EXCEPT ![w] = [t \in Tokens |-> None]]
      /\ ended' = [ended EXCEPT ![w] = {}]
      /\ UNCHANGED <<token, minted, expired, delivered, rows, used, revoked, epoch, answered,
                     unacked>>
  BY DEF Restart, MayFault, tokenVars, dbVars
<1>2. /\ expired \in 0..MaxFaults /\ restarts \in 0..MaxFaults /\ unacked \in 0..MaxFaults
      /\ epoch \in Nat /\ epoch >= 1 /\ MaxFaults \in Nat
  BY BoundsAssumption DEF SessionInv, TypeOK
<1>3. /\ \A q \in Reqs : req'[q] = req[q] \/ req'[q] = Over(req[q], "lost")
      /\ req' = [q \in Reqs |-> req'[q]]
  BY DEF Restart
<1>4. \A q \in Reqs : req'[q] \in Requests /\ (req'[q] # req[q] => ~Pending(req'[q]))
  BY <1>3, OverIsRequest DEF SessionInv, TypeOK
<1>5. TypeOK'
  BY <1>1, <1>2, <1>3, <1>4 DEF SessionInv, TypeOK
<1>6. OneLiveToken'
  BY <1>1 DEF SessionInv, OneLiveToken, Family
<1>7. ASSUME NEW q \in Reqs PROVE Held(req[q])'
  <2>1. CASE req'[q] = req[q]
    BY <1>1, <1>2, <2>1, StillHeld DEF SessionInv, Held, Pending
  <2>2. CASE req'[q] = Over(req[q], "lost")
    BY <1>1, <1>2, <2>2, OverHeld
  <2> QED BY <1>3, <2>1, <2>2
<1>8. ASSUME NEW q \in Reqs, NEW s \in Reqs, q # s PROVE Apart(req[q], req[s])'
  <2>1. Apart(req[q], req[s])
    BY <1>8 DEF SessionInv
  <2>2. Apart(req'[q], req'[s])
    BY <1>4, <2>1 DEF Apart, Pending
  <2> QED BY <2>2 DEF Apart, Pending
<1>9. /\ \A t \in delivered' : t > expired' => t \in rows'
      /\ \A t \in 1..minted' : Family(t)' \in 1..minted'
  BY <1>1 DEF SessionInv, Family
<1> QED BY <1>5, <1>6, <1>7, <1>8, <1>9 DEF SessionInv

LEMMA SessionStep == SessionInv /\ [Next]_vars => SessionInv'
<1> SUFFICES ASSUME SessionInv, [Next]_vars PROVE SessionInv'
  OBVIOUS
<1>1. ASSUME NEW r \in Reqs, Commit(r) \/ CommitUnacked(r) PROVE SessionInv'
  <2>1. /\ by \in [Workers -> [Tokens -> Tokens \cup {None}]]
        /\ Unconsumed(r) \in [Workers -> [Tokens -> Tokens \cup {None}]]
        /\ unacked \in 0..MaxFaults /\ restarts \in 0..MaxFaults /\ expired \in 0..MaxFaults
    BY UnconsumedType DEF SessionInv, TypeOK
  <2>2. CASE Commit(r)
    BY <2>1, <2>2, RotationStep DEF Commit
  <2>3. CASE CommitUnacked(r)
    <3>1. unacked' \in 0..MaxFaults
      BY <2>1, <2>3, BoundsAssumption DEF CommitUnacked, MayFault
    <3> QED BY <2>1, <2>3, <3>1, RotationStep DEF CommitUnacked
  <2> QED BY <1>1, <2>2, <2>3
<1>2. CASE UNCHANGED vars
  <2>1. UNCHANGED <<token, minted, expired, delivered, rows, used, revoked, known, by, ended,
                    epoch, answered, req, restarts, unacked>>
    BY <1>2 DEF vars, tokenVars, dbVars, regVars, bounds
  <2>2. TypeOK' /\ OneLiveToken'
    BY <2>1 DEF SessionInv, TypeOK, OneLiveToken, Family
  <2>3. \A q \in Reqs : Held(req[q])'
    BY <2>1 DEF SessionInv, Held, Pending, Carries, Family
  <2>4. \A q, s \in Reqs : q # s => Apart(req[q], req[s])'
    BY <2>1 DEF SessionInv, Apart, Pending
  <2>5. /\ \A t \in delivered' : t > expired' => t \in rows'
        /\ \A t \in 1..minted' : Family(t)' \in 1..minted'
    BY <2>1 DEF SessionInv, Family
  <2> QED BY <2>2, <2>3, <2>4, <2>5 DEF SessionInv
<1> QED
  BY <1>1, <1>2, StartSteps, IssueSessionStep, PersistStep, FailureSteps, PurgeAndAnswerStep,
     ConsumeStep, UpdateStep, RevocationSteps, RevokeAppliesStep, RehashStep, ExpireStep,
     RestartStep DEF Next

\* A session never has two tokens that rotate, whatever logins, rotations,
\* revocations, purges, lost commits and restarts overlap (RefreshTokenService.js
\* rotate, and the conditional UPDATE of auth.refresh.token.model.js).
THEOREM TokensAreSoundTheorem == Spec => []TokensAreSound
<1>1. SessionInv => TokensAreSound
  BY DEF SessionInv, TokensAreSound
<1> QED BY <1>1, SessionInit, SessionStep, PTL DEF Spec

\* No rotation succeeds with a revoked token: from the UPDATE to the commit the
\* row is locked, and a row that is absent is never rotated.
THEOREM RevokedNeverRotatesTheorem == Spec => RevokedNeverRotates
<1>1. SessionInv /\ [Next]_vars =>
        [\A r \in Reqs : req[r].pc = "commit" /\ used' # used
           /\ req'[r].pc = "ok" => req[r].tok \notin revoked]_vars
  BY DEF SessionInv, Held
<1> QED BY <1>1, SessionInit, SessionStep, PTL DEF Spec, RevokedNeverRotates

\* After a password change was answered, a refresh that starts later never
\* succeeds with a token of an older password (AuthService.js
\* _assertCredentialEpoch).
THEOREM OldCredentialIsCutOffTheorem == Spec => OldCredentialIsCutOff
<1>1. SessionInv /\ [Next]_vars =>
        [\A r \in Reqs : req[r].pc = "commit" /\ req'[r].pc = "ok"
           => token[req[r].tok].pwv >= req[r].floor]_vars
  BY DEF SessionInv, Held
<1> QED BY <1>1, SessionInit, SessionStep, PTL DEF Spec, OldCredentialIsCutOff

-----------------------------------------------------------------------------
(* Reuse is real                                                           *)

\* A refresh is somewhere on its way, or over.
Serves(x) == x.kind = "refresh" =>
  x.pc \in {"verified", "update", "commit", "revoke", "revoking", "ok", "refused", "failed", "lost"}

\* x accounts for the entry (w, t): it presented t and has not failed, and if it
\* may still fail then it will take its consume back.
Consumed(x, w, t) ==
  /\ x.kind = "refresh" /\ x.tok = t /\ x.pc \notin {"verified", "failed"}
  /\ x.pc \in {"update", "commit"} => x.at = w /\ x.vouched /\ x.next = by[w][t]

Succeeded(x, t) == x.kind = "refresh" /\ x.tok = t /\ x.pc = "ok"

\* Every used token and every consumed entry has the request that used it.
ReuseInv ==
  /\ \A r \in Reqs : Serves(req[r])
  /\ unacked = 0 => \A t \in used : \E q \in Reqs : Succeeded(req[q], t)
  /\ \A w \in Workers, t \in Tokens : by[w][t] # None =>
       t <= minted /\ (t \in known[w] => \E q \in Reqs : Consumed(req[q], w, t))

LEMMA ReuseInit == Init => ReuseInv
<1> SUFFICES ASSUME Init PROVE ReuseInv
  OBVIOUS
<1>1. \A r \in Reqs : req[r].kind = "login"
  BY DEF Init, Started
<1>2. \A w \in Workers, t \in Tokens : by[w][t] = None
  BY DEF Init
<1>3. used = {}
  BY DEF Init
<1> QED BY <1>1, <1>2, <1>3 DEF ReuseInv, Serves

\* A step of r that consumes no token of a registry.
LEMMA ReuseKept ==
  ASSUME SessionInv, ReuseInv, NEW r \in Reqs, NEW x, req' = [req EXCEPT ![r] = x],
         Serves(x), req[r].kind = "refresh" => req[r].pc # "ok",
         minted' = minted \/ minted' = minted + 1,
         \A w \in Workers : \A t \in known'[w] : t \in known[w] \/ t = minted + 1,
         \A w \in Workers, t \in Tokens : by'[w][t] # None => by'[w][t] = by[w][t],
         \A w \in Workers, t \in Tokens :
           by'[w][t] # None /\ t \in known[w] /\ Consumed(req[r], w, t) => Consumed(x, w, t),
         unacked' = 0 => unacked = 0 /\ \A t \in used' : t \in used \/ Succeeded(x, t)
  PROVE  ReuseInv'
<1>1. req'[r] = x /\ (\A q \in Reqs \ {r} : req'[q] = req[q]) /\ minted \in Nat
  BY MintedAreTokens DEF SessionInv, TypeOK
<1>2. (\A q \in Reqs : Serves(req[q]))'
  <2>1. \A q \in Reqs : Serves(req'[q])
    BY <1>1 DEF ReuseInv
  <2> QED BY <2>1 DEF Serves
<1>3. (unacked = 0 => \A t \in used : \E q \in Reqs : Succeeded(req[q], t))'
  <2> SUFFICES ASSUME unacked' = 0, NEW t \in used'
               PROVE  \E q \in Reqs : Succeeded(req'[q], t)
    BY DEF Succeeded
  <2>1. CASE Succeeded(x, t)
    BY <1>1, <2>1
  <2>2. CASE t \in used
    <3>1. PICK q \in Reqs : Succeeded(req[q], t)
      BY <2>2 DEF ReuseInv
    <3> QED BY <1>1, <3>1 DEF Succeeded
  <2> QED BY <2>1, <2>2
<1>4. ASSUME NEW w \in Workers, NEW t \in Tokens, by'[w][t] # None
      PROVE  t <= minted' /\ (t \in known'[w] => \E q \in Reqs : Consumed(req[q], w, t)')
  <2>1. by[w][t] = by'[w][t] /\ t <= minted /\ t \in Nat
    BY <1>4, BoundsAssumption DEF ReuseInv, Tokens
  <2>2. ASSUME t \in known'[w] PROVE \E q \in Reqs : Consumed(req[q], w, t)'
    <3>1. t \in known[w]
      BY <1>1, <2>1, <2>2
    <3>2. PICK q \in Reqs : Consumed(req[q], w, t)
      BY <1>4, <2>1, <3>1 DEF ReuseInv
    <3>3. Consumed(req'[q], w, t)
      BY <1>1, <1>4, <3>1, <3>2
    <3> QED BY <2>1, <3>3 DEF Consumed
  <2> QED BY <1>1, <2>1, <2>2
<1> QED BY <1>2, <1>3, <1>4 DEF ReuseInv

\* What a request is sent, and where it is over.
LEMMA OverServes ==
  ASSUME SessionInv, NEW r \in Reqs, NEW phase
  PROVE  /\ Over(req[r], phase).pc = phase /\ Over(req[r], phase).kind = req[r].kind
         /\ Over(req[r], phase).tok = req[r].tok
BY DEF SessionInv, TypeOK, Over, Requests

LEMMA AfterRevokeOfRefresh ==
  ASSUME NEW r \in Reqs, req[r].kind = "refresh"
  PROVE  AfterRevoke(r) = "refused"
BY DEF AfterRevoke, Phases

LEMMA UnconsumedForgets ==
  ASSUME SessionInv, NEW r \in Reqs, NEW w \in Workers, NEW t \in Tokens
  PROVE  /\ Unconsumed(r)[w][t] # None => Unconsumed(r)[w][t] = by[w][t]
         /\ req[r].pc \in {"update", "commit"} /\ t \in known[w] /\ Consumed(req[r], w, t)
              => Unconsumed(r)[w][t] = None
<1>1. by \in [Workers -> [Tokens -> Tokens \cup {None}]] /\ req[r].at \in Workers
  BY DEF SessionInv, TypeOK, Requests
<1>2. CASE req[r].vouched /\ req[r].tok \in known[req[r].at]
             /\ by[req[r].at][req[r].tok] = req[r].next
  <2>1. Unconsumed(r) = [by EXCEPT ![req[r].at][req[r].tok] = None]
    BY <1>2 DEF Unconsumed
  <2>2. Unconsumed(r)[w][t] = IF w = req[r].at /\ t = req[r].tok THEN None ELSE by[w][t]
    BY <1>1, <2>1
  <2> QED BY <2>2 DEF Consumed
<1>3. CASE ~(req[r].vouched /\ req[r].tok \in known[req[r].at]
               /\ by[req[r].at][req[r].tok] = req[r].next)
  BY <1>3 DEF Unconsumed, Consumed
<1> QED BY <1>2, <1>3

\* The steps of a login, a logout and a password change, and the start of a refresh.
LEMMA ReuseUntouched ==
  ASSUME SessionInv, ReuseInv, NEW r \in Reqs, NEW w \in Workers,
         \/ Login(r, w) \/ ChangePassword(r, w)
         \/ \E t \in Tokens : Refresh(r, w, t) \/ Logout(r, w, t)
         \/ IssueSession(r) \/ Persist(r) \/ PersistFails(r) \/ PurgeAndAnswer(r)
         \/ ChangeRevokes(r) \/ Rehash(r) \/ RehashFails(r)
  PROVE  ReuseInv'
<1>1. req[r].kind # "refresh"
  BY DEF ReuseInv, Serves, Login, ChangePassword, Refresh, Logout, IssueSession, Persist,
         PersistFails, PurgeAndAnswer, ChangeRevokes, Rehash, RehashFails
<1>2. /\ by' = by /\ unacked' = unacked /\ used' = used
      /\ minted' = minted \/ minted' = minted + 1
      /\ \A v \in Workers : \A t \in known'[v] : t \in known[v] \/ t = minted + 1
  <2>1. CASE IssueSession(r)
    <3>1. known' = [known EXCEPT ![req[r].at] = Registered(@, minted + 1)]
      BY <2>1 DEF IssueSession, Issues
    <3>2. \A v \in Workers : \A t \in known'[v] : t \in known[v] \/ t = minted + 1
      BY <3>1 DEF SessionInv, TypeOK, Registered
    <3> QED BY <2>1, <3>2 DEF IssueSession, Issues, dbVars, bounds
  <2>2. CASE ~IssueSession(r)
    BY <2>2 DEF Login, ChangePassword, Refresh, Logout, Persist, PersistFails, PurgeAndAnswer,
                ChangeRevokes, Rehash, RehashFails, tokenVars, dbVars, regVars, bounds
  <2> QED BY <2>1, <2>2
<1>3. ASSUME NEW x, req' = [req EXCEPT ![r] = x], Serves(x) PROVE ReuseInv'
  BY <1>1, <1>2, <1>3, ReuseKept DEF Consumed
<1>4. CASE Login(r, w) \/ ChangePassword(r, w)
  <2>1. \A kind, phase : Started(w, kind, phase).kind = kind
    BY DEF Started
  <2> QED BY <1>3, <1>4, <2>1 DEF Login, ChangePassword, Serves
<1>5. ASSUME NEW t \in Tokens, Refresh(r, w, t) \/ Logout(r, w, t) PROVE ReuseInv'
  <2>1. PICK kind \in Kinds, phase \in {"verified", "revoke"} :
          req' = [req EXCEPT ![r] = [Started(w, kind, phase) EXCEPT !.tok = t]]
    BY <1>5 DEF Refresh, Logout, Kinds
  <2>2. PICK x : x = [Started(w, kind, phase) EXCEPT !.tok = t]
    OBVIOUS
  <2>3. x.pc = phase
    BY <2>2 DEF Started
  <2> QED BY <1>3, <2>1, <2>2, <2>3 DEF Serves
<1>6. CASE IssueSession(r) \/ Persist(r) \/ ChangeRevokes(r) \/ Rehash(r)
  <2>1. PICK x : req' = [req EXCEPT ![r] = x] /\ x.kind = req[r].kind
    BY <1>6 DEF IssueSession, Persist, ChangeRevokes, Rehash, To, SessionInv, TypeOK, Requests
  <2> QED BY <1>1, <1>3, <2>1 DEF Serves
<1>7. CASE PersistFails(r) \/ PurgeAndAnswer(r) \/ RehashFails(r)
  <2>1. PICK x : req' = [req EXCEPT ![r] = x] /\ x.kind = req[r].kind
    BY <1>7, OverServes DEF PersistFails, PurgeAndAnswer, RehashFails, Finish
  <2> QED BY <1>1, <1>3, <2>1 DEF Serves
<1> QED BY <1>4, <1>5, <1>6, <1>7

\* The later steps of a refresh, and those that it shares with a logout.
LEMMA ReuseAdvances ==
  ASSUME SessionInv, ReuseInv, NEW r \in Reqs,
         Update(r) \/ Commit(r) \/ RevokeReads(r) \/ RevokeApplies(r) \/ RevokeFails(r)
  PROVE  ReuseInv'
<1>1. /\ by' = by /\ known' = known /\ minted' = minted /\ unacked' = unacked
      /\ req[r].pc \in {"update", "commit", "revoke", "revoking"}
  BY DEF Update, Commit, Rotated, RevokeReads, RevokeApplies, RevokeFails, tokenVars, regVars, bounds
<1>2. ASSUME NEW x, req' = [req EXCEPT ![r] = x], x.kind = req[r].kind, x.tok = req[r].tok,
             req[r].kind = "refresh" =>
               /\ x.pc \in {"commit", "revoke", "revoking", "ok", "refused"}
               /\ x.pc = "commit" => /\ x.at = req[r].at /\ x.vouched = req[r].vouched
                                     /\ x.next = req[r].next /\ req[r].pc = "update",
             \/ used' = used
             \/ used' = used \cup {x.tok} /\ x.kind = "refresh" /\ x.pc = "ok"
      PROVE  ReuseInv'
  <2>1. Serves(x)
    BY <1>2 DEF Serves
  <2>2. \A t \in used' : t \in used \/ Succeeded(x, t)
    BY <1>2 DEF Succeeded
  <2>3. \A w \in Workers, t \in Tokens : Consumed(req[r], w, t) => Consumed(x, w, t)
    BY <1>1, <1>2 DEF Consumed
  <2> QED BY <1>1, <1>2, <2>1, <2>2, <2>3, ReuseKept
<1>3. ASSUME NEW phase \in {"revoke", "commit"}, To(r, phase), used' = used,
             phase = "commit" => req[r].pc = "update"
      PROVE  ReuseInv'
  <2>1. PICK x : x = [req[r] EXCEPT !.pc = phase]
    OBVIOUS
  <2>2. /\ x.pc = phase /\ x.kind = req[r].kind /\ x.tok = req[r].tok /\ x.at = req[r].at
        /\ x.vouched = req[r].vouched /\ x.next = req[r].next
    BY <2>1 DEF SessionInv, TypeOK, Requests
  <2>3. req' = [req EXCEPT ![r] = x]
    BY <1>3, <2>1 DEF To
  <2> QED BY <1>2, <1>3, <2>2, <2>3
<1>4. ASSUME NEW phase, Finish(r, phase), req[r].kind = "refresh" => phase \in {"ok", "refused"},
             \/ used' = used
             \/ used' = used \cup {req[r].tok} /\ req[r].kind = "refresh" /\ phase = "ok"
      PROVE  ReuseInv'
  <2>1. PICK x : x = Over(req[r], phase)
    OBVIOUS
  <2>2. x.pc = phase /\ x.kind = req[r].kind /\ x.tok = req[r].tok
    BY <2>1, OverServes
  <2>3. req' = [req EXCEPT ![r] = x]
    BY <1>4, <2>1 DEF Finish
  <2> QED BY <1>2, <1>4, <2>2, <2>3
<1>5. CASE Update(r)
  <2>1. used' = used
    BY <1>5 DEF Update, dbVars
  <2> QED BY <1>3, <1>4, <1>5, <2>1 DEF Update
<1>6. CASE Commit(r)
  <2>1. req[r].kind = "refresh"
    BY <1>6 DEF Commit, SessionInv, Held
  <2> QED BY <1>4, <1>6, <2>1 DEF Commit, Rotated
<1>7. CASE RevokeReads(r)
  <2>1. PICK x : x = [req[r] EXCEPT !.pc = "revoking", !.snap = Targets(r)]
    OBVIOUS
  <2>2. x.pc = "revoking" /\ x.kind = req[r].kind /\ x.tok = req[r].tok
    BY <2>1 DEF SessionInv, TypeOK, Requests
  <2>3. req' = [req EXCEPT ![r] = x] /\ used' = used
    BY <1>7, <2>1 DEF RevokeReads, dbVars
  <2> QED BY <1>2, <2>2, <2>3
<1>8. CASE RevokeApplies(r)
  BY <1>4, <1>8, AfterRevokeOfRefresh DEF RevokeApplies
<1>9. CASE RevokeFails(r)
  <2> DEFINE phase == IF req[r].kind = "change" THEN "failed" ELSE AfterRevoke(r)
  <2>1. PICK y : y = Over(req[r], phase)
    OBVIOUS
  <2>2. y.pc = phase /\ y.kind = req[r].kind /\ y.tok = req[r].tok
    BY <2>1, OverServes
  <2>3. PICK x : x = [y EXCEPT !.snap = {}]
    OBVIOUS
  <2>4. x.pc = y.pc /\ x.kind = y.kind /\ x.tok = y.tok
    BY <2>1, <2>3 DEF Over, SessionInv, TypeOK, Requests
  <2>5. req[r].kind = "refresh" => phase = "refused"
    BY AfterRevokeOfRefresh
  <2>6. req' = [req EXCEPT ![r] = x] /\ used' = used
    BY <1>9, <2>1, <2>3 DEF RevokeFails, dbVars
  <2> HIDE DEF phase
  <2> QED BY <1>2, <2>2, <2>4, <2>5, <2>6
<1> QED BY <1>5, <1>6, <1>7, <1>8, <1>9

\* A rotation that fails takes back what it alone had consumed.
LEMMA ReuseTakenBack ==
  ASSUME SessionInv, ReuseInv, NEW r \in Reqs, RotateFails(r) \/ CommitUnacked(r)
  PROVE  ReuseInv'
<1>1. /\ by' = Unconsumed(r) /\ Finish(r, "failed") /\ known' = known /\ minted' = minted
      /\ req[r].pc \in {"update", "commit"}
      /\ unacked' = 0 => unacked = 0 /\ used' = used
  <2>1. unacked \in Nat
    BY BoundsAssumption DEF SessionInv, TypeOK
  <2> QED BY <2>1 DEF RotateFails, CommitUnacked, Rotated, tokenVars, dbVars, bounds
<1>2. PICK x : x = Over(req[r], "failed")
  OBVIOUS
<1>3. Serves(x) /\ req' = [req EXCEPT ![r] = x]
  BY <1>1, <1>2, OverServes DEF Serves, Finish
<1>4. ASSUME NEW w \in Workers, NEW t \in Tokens
      PROVE  /\ by'[w][t] # None => by'[w][t] = by[w][t]
             /\ t \in known[w] /\ Consumed(req[r], w, t) => by'[w][t] = None
  BY <1>1, UnconsumedForgets
<1>5. req[r].kind = "refresh" => req[r].pc # "ok"
  BY <1>1
<1> QED BY <1>1, <1>3, <1>4, <1>5, ReuseKept

\* The successor is registered and the token consumed, by a request that will be
\* accountable for it.
LEMMA ReuseConsume ==
  ASSUME SessionInv, ReuseInv, NEW r \in Reqs, Consume(r)
  PROVE  ReuseInv'
<1> DEFINE w == req[r].at
           t == req[r].tok
<1>1. /\ req[r].pc = "verified" /\ minted' = minted + 1 /\ UNCHANGED <<used, unacked>>
      /\ known' = [known EXCEPT ![w] = Registered(@, minted + 1)]
  BY DEF Consume, Issues, dbVars, bounds
<1>2. /\ req[r] \in Requests /\ req[r].kind = "refresh" /\ t \in Tokens /\ t <= minted /\ minted \in Nat
      /\ w \in Workers
  <2>1. req[r] \in Requests /\ Held(req[r])
    BY DEF SessionInv, TypeOK
  <2>2. req[r].kind = "refresh" /\ t \in delivered
    BY <1>1, <2>1 DEF Held, Carries
  <2>3. t \in 1..minted /\ 1..minted \subseteq Tokens /\ minted \in Nat
    BY <2>2, MintedAreTokens DEF SessionInv, TypeOK
  <2>4. w \in Workers
    BY <2>1 DEF Requests
  <2> QED BY <2>1, <2>2, <2>3, <2>4
<1>3. \A v \in Workers : \A s \in known'[v] : s \in known[v] \/ s = minted + 1
  BY <1>1 DEF SessionInv, TypeOK, Registered
<1>4. ASSUME NEW x, req' = [req EXCEPT ![r] = x], Serves(x), by' = by PROVE ReuseInv'
  BY <1>1, <1>3, <1>4, ReuseKept DEF Consumed
<1>5. CASE Finish(r, "refused") /\ by' = by
  <2>1. PICK x : x = Over(req[r], "refused")
    OBVIOUS
  <2> QED BY <1>4, <1>5, <2>1, OverServes DEF Finish, Serves
<1>6. ASSUME NEW phase \in {"update", "revoke"}, NEW b \in BOOLEAN,
             req' = [req EXCEPT ![r].pc = phase, ![r].vouched = b, ![r].next = minted']
      PROVE  \E x : /\ req' = [req EXCEPT ![r] = x] /\ x.pc = phase /\ x.vouched = b
                    /\ x.next = minted + 1 /\ x.kind = "refresh" /\ x.tok = t /\ x.at = w
  <2>1. PICK x : x = [req[r] EXCEPT !.pc = phase, !.vouched = b, !.next = minted + 1]
    OBVIOUS
  <2>2. /\ x.pc = phase /\ x.vouched = b /\ x.next = minted + 1 /\ x.kind = req[r].kind
        /\ x.tok = req[r].tok /\ x.at = req[r].at
    BY <1>2, <2>1 DEF Requests
  <2>3. req' = [req EXCEPT ![r] = x]
    BY <1>1, <1>2, <1>6, <2>1 DEF SessionInv, TypeOK
  <2> QED BY <1>2, <2>2, <2>3
<1>7. CASE /\ req' = [req EXCEPT ![r].pc = "update", ![r].vouched = TRUE, ![r].next = minted']
           /\ by' = [by EXCEPT ![w][t] = minted']
  <2>1. PICK x : /\ req' = [req EXCEPT ![r] = x] /\ x.pc = "update" /\ x.vouched
                 /\ x.next = minted + 1 /\ x.kind = "refresh" /\ x.tok = t /\ x.at = w
    BY <1>6, <1>7
  <2>2. req'[r] = x /\ \A q \in Reqs \ {r} : req'[q] = req[q]
    BY <2>1 DEF SessionInv, TypeOK
  <2>3. \A v \in Workers, s \in Tokens :
          by'[v][s] = IF v = w /\ s = t THEN minted + 1 ELSE by[v][s]
    BY <1>1, <1>2, <1>7 DEF SessionInv, TypeOK
  <2>4. (\A q \in Reqs : Serves(req[q]))'
    <3>1. Serves(x)
      BY <2>1 DEF Serves
    <3>2. \A q \in Reqs : Serves(req'[q])
      BY <2>2, <3>1 DEF ReuseInv
    <3> QED BY <3>2 DEF Serves
  <2>5. (unacked = 0 => \A s \in used : \E q \in Reqs : Succeeded(req[q], s))'
    <3>1. ASSUME unacked' = 0, NEW s \in used' PROVE \E q \in Reqs : Succeeded(req'[q], s)
      <4>1. PICK q \in Reqs : Succeeded(req[q], s)
        BY <1>1, <3>1 DEF ReuseInv
      <4> QED BY <1>1, <2>2, <4>1 DEF Succeeded
    <3> QED BY <3>1 DEF Succeeded
  <2>6. ASSUME NEW v \in Workers, NEW s \in Tokens, by'[v][s] # None
        PROVE  s <= minted' /\ (s \in known'[v] => \E q \in Reqs : Consumed(req[q], v, s)')
    <3>1. CASE v = w /\ s = t
      <4>1. Consumed(req[r], v, s)'
        BY <2>1, <2>2, <2>3, <3>1 DEF Consumed
      <4>2. s <= minted'
        BY <1>1, <1>2, <3>1, BoundsAssumption DEF Tokens
      <4> QED BY <4>1, <4>2
    <3>2. CASE ~(v = w /\ s = t)
      <4>1. by[v][s] = by'[v][s] /\ s <= minted /\ s \in Nat
        BY <2>3, <2>6, <3>2, BoundsAssumption DEF ReuseInv, Tokens
      <4>2. ASSUME s \in known'[v] PROVE \E q \in Reqs : Consumed(req[q], v, s)'
        <5>1. s \in known[v]
          BY <1>2, <1>3, <4>1, <4>2
        <5>2. PICK q \in Reqs : Consumed(req[q], v, s)
          BY <2>6, <4>1, <5>1 DEF ReuseInv
        <5>3. q # r
          BY <1>1, <5>2 DEF Consumed
        <5> QED BY <2>2, <4>1, <5>2, <5>3 DEF Consumed
      <4> QED BY <1>1, <1>2, <4>1, <4>2
    <3> QED BY <3>1, <3>2
  <2> QED BY <2>4, <2>5, <2>6 DEF ReuseInv
<1>8. CASE /\ by' = by
           /\ \E phase \in {"update", "revoke"} :
                req' = [req EXCEPT ![r].pc = phase, ![r].vouched = FALSE, ![r].next = minted']
  <2>1. PICK x : req' = [req EXCEPT ![r] = x] /\ x.pc \in {"update", "revoke"}
    BY <1>6, <1>8
  <2> QED BY <1>4, <1>8, <2>1 DEF Serves
<1> QED BY <1>5, <1>7, <1>8 DEF Consume

LEMMA ReuseStill ==
  ASSUME SessionInv, ReuseInv,
         UNCHANGED <<minted, used, known, by, req, unacked>>
  PROVE  ReuseInv'
BY DEF ReuseInv, Serves, Succeeded, Consumed

\* A restart forgets what the worker had consumed, and its requests are lost.
LEMMA ReuseRestart ==
  ASSUME SessionInv, ReuseInv, NEW w \in Workers, Restart(w)
  PROVE  ReuseInv'
<1>1. UNCHANGED <<minted, used, unacked>>
  BY DEF Restart, tokenVars, dbVars
<1>2. \A v \in Workers, t \in Tokens :
        by'[v][t] # None => v # w /\ by'[v][t] = by[v][t] /\ known'[v] = known[v]
  BY DEF Restart, SessionInv, TypeOK
<1>3. ASSUME NEW q \in Reqs
      PROVE  \/ req'[q] = req[q]
             \/ /\ req'[q].pc = "lost" /\ req'[q].kind = req[q].kind /\ req'[q].tok = req[q].tok
                /\ req[q].at = w /\ req[q].pc # "ok"
  <2>1. \/ req'[q] = req[q]
        \/ req'[q] = Over(req[q], "lost") /\ req[q].at = w /\ req[q].pc # "ok"
    BY DEF Restart, InFlight
  <2> QED BY <2>1, OverServes
<1>4. (\A q \in Reqs : Serves(req[q]))'
  <2>1. \A q \in Reqs : Serves(req'[q])
    BY <1>3 DEF ReuseInv, Serves
  <2> QED BY <2>1 DEF Serves
<1>5. (unacked = 0 => \A t \in used : \E q \in Reqs : Succeeded(req[q], t))'
  <2>1. ASSUME unacked' = 0, NEW t \in used' PROVE \E q \in Reqs : Succeeded(req'[q], t)
    <3>1. PICK q \in Reqs : Succeeded(req[q], t)
      BY <1>1, <2>1 DEF ReuseInv
    <3> QED BY <1>3, <3>1 DEF Succeeded
  <2> QED BY <2>1 DEF Succeeded
<1>6. ASSUME NEW v \in Workers, NEW t \in Tokens, by'[v][t] # None
      PROVE  t <= minted' /\ (t \in known'[v] => \E q \in Reqs : Consumed(req[q], v, t)')
  <2>1. ASSUME t \in known'[v] PROVE \E q \in Reqs : Consumed(req[q], v, t)'
    <3>1. PICK q \in Reqs : Consumed(req[q], v, t)
      BY <1>2, <1>6, <2>1 DEF ReuseInv
    <3> QED BY <1>2, <1>3, <1>6, <3>1 DEF Consumed
  <2>2. t <= minted'
    BY <1>1, <1>2, <1>6 DEF ReuseInv
  <2> QED BY <2>1, <2>2
<1> QED BY <1>4, <1>5, <1>6 DEF ReuseInv

LEMMA ReuseStep == SessionInv /\ ReuseInv /\ [Next]_vars => ReuseInv'
<1> SUFFICES ASSUME SessionInv, ReuseInv, [Next]_vars PROVE ReuseInv'
  OBVIOUS
<1>1. CASE UNCHANGED vars
  BY <1>1, ReuseStill DEF vars, tokenVars, dbVars, regVars, bounds
<1>2. CASE Expire
  BY <1>2, ReuseStill DEF Expire, dbVars, regVars, bounds
<1>3. ASSUME NEW r \in Reqs,
             \/ IssueSession(r) \/ Persist(r) \/ PersistFails(r) \/ PurgeAndAnswer(r)
             \/ ChangeRevokes(r) \/ Rehash(r) \/ RehashFails(r)
      PROVE  ReuseInv'
  <2>1. req[r].at \in Workers
    BY DEF SessionInv, TypeOK, Requests
  <2> QED BY <1>3, <2>1, ReuseUntouched
<1> QED
  BY <1>1, <1>2, <1>3, ReuseUntouched, ReuseAdvances, ReuseTakenBack, ReuseConsume,
     ReuseRestart DEF Next

\* A step that finds reuse finds it of a token that another request presented.
LEMMA ReuseFound ==
  ASSUME SessionInv, ReuseInv, Next, NEW r \in Reqs, FindsReuse(r)
  PROVE  Contested(r) \/ unacked > 0
<1>1. /\ req[r].pc \in {"verified", "update"} /\ req'[r].pc = "revoke" /\ req'[r] # req[r]
      /\ req[r] \in Requests /\ unacked \in Nat
  BY BoundsAssumption DEF FindsReuse, SessionInv, TypeOK
<1>2. Consume(r) \/ Update(r)
  <2>1. \A q \in Reqs \ {r} : \A x : req' # [req EXCEPT ![q] = x]
    BY <1>1 DEF SessionInv, TypeOK
  <2>2. ASSUME NEW q \in Reqs,
               \/ IssueSession(q) \/ Persist(q) \/ PersistFails(q) \/ PurgeAndAnswer(q)
               \/ Commit(q) \/ ChangeRevokes(q) \/ RevokeReads(q)
               \/ RevokeApplies(q) \/ RevokeFails(q) \/ Rehash(q) \/ RehashFails(q)
        PROVE  FALSE
    <3>1. req[q].pc \notin {"verified", "update"}
      BY <2>2 DEF IssueSession, Persist, PersistFails, PurgeAndAnswer, Commit, ChangeRevokes,
                  RevokeReads, RevokeApplies, RevokeFails, Rehash, RehashFails
    <3>2. \E x : req' = [req EXCEPT ![q] = x]
      BY <2>2 DEF IssueSession, Persist, PersistFails, PurgeAndAnswer, Commit, ChangeRevokes,
                  RevokeReads, RevokeApplies, RevokeFails, Rehash, RehashFails, To, Finish,
                  SessionInv, TypeOK
    <3> QED BY <1>1, <2>1, <3>1, <3>2
  <2>3. ASSUME NEW q \in Reqs, RotateFails(q) \/ CommitUnacked(q) PROVE FALSE
    <3>1. req' = [req EXCEPT ![q] = Over(req[q], "failed")]
      BY <2>3 DEF RotateFails, CommitUnacked, Finish
    <3>2. q = r /\ req'[r] = Over(req[r], "failed")
      BY <2>1, <3>1 DEF SessionInv, TypeOK
    <3> QED BY <1>1, <3>2, OverServes
  <2>4. ASSUME NEW q \in Reqs \ {r}, Consume(q) \/ Update(q) PROVE FALSE
    <3>1. \E x : req' = [req EXCEPT ![q] = x]
      BY <2>4 DEF Consume, Update, To, Finish, SessionInv, TypeOK
    <3> QED BY <2>1, <3>1
  <2>5. ~Expire
    BY <1>1 DEF Expire
  <2>6. ASSUME NEW w \in Workers, Restart(w) PROVE FALSE
    BY <1>1, <2>6, OverServes DEF Restart
  <2>7. ASSUME NEW q \in Reqs, Consume(q) \/ Update(q) PROVE Consume(r) \/ Update(r)
    BY <2>4, <2>7
  <2>8. ASSUME NEW q \in Reqs, NEW w \in Workers,
               \/ Login(q, w) \/ ChangePassword(q, w)
               \/ \E t \in Tokens : Refresh(q, w, t) \/ Logout(q, w, t)
        PROVE  FALSE
    <3>1. req[q].pc = "idle" /\ \E x : req' = [req EXCEPT ![q] = x]
      BY <2>8 DEF Login, ChangePassword, Refresh, Logout
    <3> QED BY <1>1, <2>1, <3>1
  <2> QED BY <2>2, <2>3, <2>5, <2>6, <2>7, <2>8 DEF Next
<1>3. CASE Consume(r)
  <2>1. /\ req[r].pc = "verified" /\ req[r].at \in Workers /\ req[r].tok \in Tokens
        /\ req[r].tok \in known'[req[r].at] /\ by[req[r].at][req[r].tok] # None
    <3>1. req[r].pc = "verified"
      BY <1>3 DEF Consume
    <3>2. req[r].at \in Workers /\ req[r].tok \in Tokens
      BY <1>1, <3>1, MintedAreTokens DEF Requests, SessionInv, Held, Carries
    <3>3. ASSUME Finish(r, "refused") PROVE FALSE
      <4>1. req'[r] = Over(req[r], "refused")
        BY <3>3 DEF Finish, SessionInv, TypeOK
      <4> QED BY <1>1, <4>1, OverServes
    <3>4. ASSUME NEW b \in BOOLEAN,
                 req' = [req EXCEPT ![r].pc = "update", ![r].vouched = b, ![r].next = minted']
          PROVE  FALSE
      <4>1. req'[r].pc = "update"
        BY <1>1, <3>4 DEF Requests, SessionInv, TypeOK
      <4> QED BY <1>1, <4>1
    <3>5. req[r].tok \in known'[req[r].at] /\ by[req[r].at][req[r].tok] # None
      BY <1>3, <3>3, <3>4 DEF Consume
    <3> QED BY <3>1, <3>2, <3>5
  <2>2. req[r].tok \in known[req[r].at]
    BY <1>3, <2>1, MintedAreTokens DEF Consume, Issues, Registered, SessionInv, TypeOK, ReuseInv
  <2>3. PICK q \in Reqs : Consumed(req[q], req[r].at, req[r].tok)
    BY <2>1, <2>2 DEF ReuseInv
  <2> QED BY <2>1, <2>3 DEF Consumed, Contested
<1>4. CASE Update(r)
  <2>1. req[r].pc = "update" /\ req[r].tok \in used
    BY <1>1, <1>4, OverServes DEF Update, Rotates, To, Finish, SessionInv, TypeOK, Requests
  <2>2. SUFFICES ASSUME unacked = 0 PROVE Contested(r)
    BY <1>1
  <2>3. PICK q \in Reqs : Succeeded(req[q], req[r].tok)
    BY <2>1, <2>2 DEF ReuseInv
  <2> QED BY <2>1, <2>3 DEF Succeeded, Contested
<1> QED BY <1>2, <1>3, <1>4

\* Reuse is only found of a token that was presented twice, for any number of
\* workers, requests and restarts (RefreshTokenRegistry.js consume, and the
\* second look at the row in RefreshTokenService.js rotate).
THEOREM ReuseIsRealTheorem == Spec => ReuseIsReal
<1>1. SessionInv /\ ReuseInv /\ [Next]_vars =>
        [\A r \in Reqs : FindsReuse(r) => Contested(r) \/ unacked > 0]_vars
  BY ReuseFound
<1> QED BY <1>1, SessionInit, SessionStep, ReuseInit, ReuseStep, PTL DEF Spec, ReuseIsReal

=============================================================================
