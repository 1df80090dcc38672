---------------------------- MODULE SessionLedger ----------------------------
(***************************************************************************)
(* Refresh-token sessions of one account, over several worker processes:   *)
(*   Backend/src/services/AuthService.js          login, refresh, logout,  *)
(*                                                changePassword           *)
(*   Backend/src/services/RefreshTokenService.js  rotate, revoke, purge    *)
(*   Backend/src/utils/auth/RefreshTokenRegistry.js  one per worker        *)
(*   Backend/src/models/auth.refresh.token.model.js  the shared table      *)
(*                                                                         *)
(* A request is a single-use process; what it does between two awaits is   *)
(* one action.  Tokens are numbered in the order they are issued, and the  *)
(* first token of a session names its family.  A transaction reads what is *)
(* committed; a rotation holds the lock of its row from its UPDATE to its  *)
(* commit, and an UPDATE of many rows changes those its snapshot selected. *)
(***************************************************************************)
EXTENDS Naturals, FiniteSets

CONSTANTS
  Workers,
  Reqs,         \* bound: requests served in a behaviour
  MaxTokens,    \* bound: tokens issued
  MaxEntries,   \* capacity of a worker's registry
  MaxFaults     \* bound: worker restarts, commits that succeed and are reported
                \* as failed, and tokens that reach their expiry, together

ASSUME BoundsAssumption ==
  /\ MaxTokens \in Nat \ {0} /\ MaxEntries \in Nat \ {0}
  /\ MaxFaults \in Nat

None   == 0
Tokens == 1..MaxTokens

VARIABLES
  token,      \* claims: family, predecessor, credential epoch
  minted,     \* tokens issued
  expired,    \* tokens 1..expired are past their expiry
  delivered,  \* tokens a client has received
  rows,       \* tokens with a row in the table
  used,       \* USED_AT set (kept when the row is purged)
  revoked,    \* REVOKED_AT set (kept when the row is purged)
  known,      \* per worker: tokens with a registry entry
  by,         \* per worker: replacedBy of the entry, None while not used
  ended,      \* per worker: families with a revoked marker
  epoch,      \* credential epoch of the stored password
  answered,   \* epoch of the last password change that was answered
  req,        \* requests
  restarts, unacked

tokenVars == <<token, minted, expired>>
dbVars    == <<rows, used, revoked>>
regVars   == <<known, by, ended>>
bounds    == <<restarts, unacked>>
vars      == <<tokenVars, delivered, dbVars, regVars, epoch, answered, req, bounds>>

MayFault == restarts + unacked + expired < MaxFaults

Kinds  == {"login", "refresh", "logout", "change"}
Phases == {"idle", "issue", "persist", "purge", "verified", "update", "commit",
           "checked", "revoke", "revoking", "rehash",
           "ok", "refused", "failed", "lost"}

Family(t) == token[t].family

\* Requests are started from a fresh record.
Started(w, kind, phase) ==
  [pc |-> phase, kind |-> kind, at |-> w, tok |-> None, next |-> None,
   saw |-> epoch, floor |-> answered, vouched |-> FALSE, snap |-> {}]

To(r, phase) == req' = [req EXCEPT ![r].pc = phase]

\* A request that is over keeps what it asked for and which rows it revoked.
Over(q, phase) ==
  [q EXCEPT !.pc = phase, !.next = None, !.saw = 1, !.floor = 1, !.vouched = FALSE]

Finish(r, phase) == req' = [req EXCEPT ![r] = Over(@, phase)]

\* A client is logged in on some worker and nothing else has happened.
Init ==
  /\ token = [t \in Tokens |-> [family |-> 1, parent |-> None, pwv |-> 1]]
  /\ minted = 1 /\ expired = 0 /\ delivered = {1}
  /\ rows = {1} /\ used = {} /\ revoked = {}
  /\ \E w \in Workers : known = [v \in Workers |-> IF v = w THEN {1} ELSE {}]
  /\ by = [w \in Workers |-> [t \in Tokens |-> None]]
  /\ ended = [w \in Workers |-> {}]
  /\ epoch = 1 /\ answered = 1
  /\ \E w \in Workers : req = [r \in Reqs |-> Started(w, "login", "idle")]
  /\ restarts = 0 /\ unacked = 0

-----------------------------------------------------------------------------
(* Registry and issuing                                                    *)

\* register, after #makeRoom: tokens live equally long, so the entries a sweep
\* drops are the oldest ones.
Registered(S, t) ==
  {s \in S : Cardinality(S) >= MaxEntries => \E u \in S : u < s} \cup {t}

\* _issueTokens: sign the next token and register it.
Issues(r, family, parent, pwv) ==
  /\ minted < MaxTokens
  /\ minted' = minted + 1
  /\ token' = [token EXCEPT ![minted'] =
                 [family |-> family, parent |-> parent, pwv |-> pwv]]
  /\ known' = [known EXCEPT ![req[r].at] = Registered(@, minted')]
  /\ UNCHANGED expired

\* revokeFamily / revokeUser of the registry.
Ends(w, families) == ended' = [ended EXCEPT ![w] = @ \cup families]

\* Deviation: a failed rotation leaves the local consume in place.
UnconsumedNever(r) == by

\* unconsume: only what this request consumed, and only what it wrote.
Unconsumed(r) ==
  LET w == req[r].at
      t == req[r].tok
  IN  IF req[r].vouched /\ t \in known[w] /\ by[w][t] = req[r].next
      THEN [by EXCEPT ![w][t] = None]
      ELSE by

-----------------------------------------------------------------------------
(* login, and the end of a password change                                 *)

Login(r, w) ==
  /\ req[r].pc = "idle"
  /\ req' = [req EXCEPT ![r] = Started(w, "login", "issue")]
  /\ UNCHANGED <<tokenVars, delivered, dbVars, regVars, epoch, answered, bounds>>

\* The password read at the start was right: a session of its own family.
IssueSession(r) ==
  /\ req[r].pc = "issue"
  /\ Issues(r, minted + 1, None, req[r].saw)
  /\ req' = [req EXCEPT ![r].pc = "persist", ![r].next = minted']
  /\ UNCHANGED <<delivered, dbVars, by, ended, epoch, answered, bounds>>

Persist(r) ==
  /\ req[r].pc = "persist"
  /\ rows' = rows \cup {req[r].next}
  /\ To(r, "purge")
  /\ UNCHANGED <<tokenVars, delivered, used, revoked, regVars, epoch, answered, bounds>>

PersistFails(r) ==
  /\ req[r].pc = "persist"
  /\ Finish(r, "failed")
  /\ UNCHANGED <<tokenVars, delivered, dbVars, regVars, epoch, answered, bounds>>

\* A day after their expiry no request still carries the tokens.
Purgeable == {t \in rows : t <= expired /\ \A r \in Reqs : req[r].tok = t =>
                             req[r].pc \in {"ok", "refused", "failed", "lost"}}

\* purgeExpired (best effort), then the answer.
PurgeAndAnswer(r) ==
  /\ req[r].pc = "purge"
  /\ \E gone \in {{}, Purgeable} : rows' = rows \ gone
  /\ delivered' = delivered \cup {req[r].next}
  /\ answered' = IF req[r].kind = "change" /\ req[r].saw > answered
                 THEN req[r].saw ELSE answered
  /\ Finish(r, "ok")
  /\ UNCHANGED <<tokenVars, used, revoked, regVars, epoch, bounds>>

-----------------------------------------------------------------------------
(* refresh                                                                 *)

\* Deviation: the credential epoch of the token is not compared.
SameCredentialUnchecked(t) == TRUE

SameCredential(t) == token[t].pwv = epoch

\* Deviation: the expiry of a presented token is not checked.
PresentableForever == delivered

\* jwt.verify accepts a token until it expires.
Presentable == {t \in delivered : t > expired}

\* The token verifies and the account is read.
Refresh(r, w, t) ==
  /\ req[r].pc = "idle" /\ t \in Presentable
  /\ IF SameCredential(t)
     THEN req' = [req EXCEPT ![r] = [Started(w, "refresh", "verified") EXCEPT !.tok = t]]
          /\ UNCHANGED ended
     ELSE req' = [req EXCEPT ![r] = [Started(w, "refresh", "revoke") EXCEPT !.tok = t]]
          /\ Ends(w, {Family(t)})
  /\ UNCHANGED <<tokenVars, delivered, dbVars, known, by, epoch, answered, bounds>>

\* Issue the successor, then consume the token in the registry.
Consume(r) ==
  LET w == req[r].at
      t == req[r].tok
      Answer(phase, vouched) ==
        req' = [req EXCEPT ![r].pc = phase, ![r].vouched = vouched, ![r].next = minted']
  IN
  /\ req[r].pc = "verified"
  /\ Issues(r, Family(t), t, req[r].saw)
  /\ \/ /\ Family(t) \in ended[w]
        /\ Finish(r, "refused")
        /\ UNCHANGED <<by, ended>>
     \/ /\ Family(t) \notin ended[w] /\ t \notin known'[w]
        /\ Answer("update", FALSE)
        /\ UNCHANGED <<by, ended>>
     \/ /\ Family(t) \notin ended[w] /\ t \in known'[w] /\ by[w][t] # None
        /\ Answer("revoke", FALSE)
        /\ Ends(w, {Family(t)})
        /\ UNCHANGED by
     \/ /\ Family(t) \notin ended[w] /\ t \in known'[w] /\ by[w][t] = None
        /\ Answer("update", TRUE)
        /\ by' = [by EXCEPT ![w][t] = minted']
        /\ UNCHANGED ended
  /\ UNCHANGED <<delivered, dbVars, epoch, answered, bounds>>

\* Rows that an open rotation has updated.
Locked(t) == \E r \in Reqs : req[r].pc = "commit" /\ req[r].tok = t

\* Deviation: the UPDATE does not ask for USED_AT IS NULL.
RotatesUsedToo(r) ==
  LET t == req[r].tok IN
  \/ t \in rows \ revoked
  \/ t \notin rows /\ req[r].vouched

\* The conditional UPDATE takes the row, or a row is absent and the registry
\* vouches for the token.
Rotates(r) ==
  LET t == req[r].tok IN
  \/ t \in rows \ (used \cup revoked)
  \/ t \notin rows /\ req[r].vouched

Update(r) ==
  LET t == req[r].tok IN
  /\ req[r].pc = "update" /\ ~Locked(t)
  /\ \/ /\ Rotates(r)
        /\ To(r, "commit") /\ UNCHANGED ended
     \/ /\ ~Rotates(r) /\ t \in rows \ revoked
        /\ To(r, "revoke") /\ Ends(req[r].at, {Family(t)})
     \/ /\ ~Rotates(r) /\ t \notin rows \ revoked
        /\ Finish(r, "refused") /\ UNCHANGED ended
  /\ UNCHANGED <<tokenVars, delivered, dbVars, known, by, epoch, answered, bounds>>

Rotated(r) ==
  /\ used' = used \cup {req[r].tok}
  /\ rows' = rows \cup {req[r].next}
  /\ UNCHANGED <<revoked, tokenVars, known, ended, epoch, answered, restarts>>

Commit(r) ==
  /\ req[r].pc = "commit"
  /\ Rotated(r)
  /\ delivered' = delivered \cup {req[r].next}
  /\ Finish(r, "ok")
  /\ UNCHANGED <<by, unacked>>

\* No connection, a failed statement, or a commit that did not happen.
RotateFails(r) ==
  /\ req[r].pc \in {"update", "commit"}
  /\ by' = Unconsumed(r)
  /\ Finish(r, "failed")
  /\ UNCHANGED <<tokenVars, delivered, dbVars, known, ended, epoch, answered, bounds>>

\* The commit happened and its acknowledgement was lost.
CommitUnacked(r) ==
  /\ req[r].pc = "commit" /\ MayFault
  /\ unacked' = unacked + 1
  /\ Rotated(r)
  /\ by' = Unconsumed(r)
  /\ Finish(r, "failed")
  /\ UNCHANGED delivered

-----------------------------------------------------------------------------
(* logout, password change, revocation                                     *)

Logout(r, w, t) ==
  /\ req[r].pc = "idle" /\ t \in Presentable
  /\ req' = [req EXCEPT ![r] = [Started(w, "logout", "revoke") EXCEPT !.tok = t]]
  /\ Ends(w, {Family(t)})
  /\ UNCHANGED <<tokenVars, delivered, dbVars, known, by, epoch, answered, bounds>>

ChangePassword(r, w) ==
  /\ req[r].pc = "idle"
  /\ req' = [req EXCEPT ![r] = Started(w, "change", "checked")]
  /\ UNCHANGED <<tokenVars, delivered, dbVars, regVars, epoch, answered, bounds>>

\* revokeAllForUser: first the families this worker knows.
ChangeRevokes(r) ==
  /\ req[r].pc = "checked"
  /\ Ends(req[r].at, {Family(t) : t \in known[req[r].at]})
  /\ To(r, "revoke")
  /\ UNCHANGED <<tokenVars, delivered, dbVars, known, by, epoch, answered, bounds>>

\* The rows of revokeFamily, or of revokeUser.
Targets(r) ==
  {t \in rows \ revoked : req[r].kind = "change" \/ Family(t) = Family(req[r].tok)}

RevokeReads(r) ==
  /\ req[r].pc = "revoke"
  /\ req' = [req EXCEPT ![r].pc = "revoking", ![r].snap = Targets(r)]
  /\ UNCHANGED <<tokenVars, delivered, dbVars, regVars, epoch, answered, bounds>>

AfterRevoke(r) ==
  CHOOSE p \in Phases : \/ req[r].kind = "change" /\ p = "rehash"
                        \/ req[r].kind = "logout" /\ p = "ok"
                        \/ req[r].kind \in {"refresh", "login"} /\ p = "refused"

RevokeApplies(r) ==
  /\ req[r].pc = "revoking"
  /\ \A t \in req[r].snap : ~Locked(t)
  /\ revoked' = revoked \cup (req[r].snap \cap rows)
  /\ Finish(r, AfterRevoke(r))
  /\ UNCHANGED <<tokenVars, delivered, rows, used, regVars, epoch, answered, bounds>>

\* Fails closed for a password change, best effort for the others.
RevokeFails(r) ==
  /\ req[r].pc \in {"revoke", "revoking"}
  /\ LET phase == IF req[r].kind = "change" THEN "failed" ELSE AfterRevoke(r)
     IN  req' = [req EXCEPT ![r] = [Over(@, phase) EXCEPT !.snap = {}]]
  /\ UNCHANGED <<tokenVars, delivered, dbVars, regVars, epoch, answered, bounds>>

\* Deviation: the tokens are issued and the new hash is not stored.
RehashForgotten(r) ==
  /\ req[r].pc = "rehash"
  /\ req' = [req EXCEPT ![r].pc = "issue", ![r].saw = epoch + 1]
  /\ UNCHANGED <<tokenVars, delivered, dbVars, regVars, epoch, answered, bounds>>

\* The new password hash is stored.
Rehash(r) ==
  /\ req[r].pc = "rehash"
  /\ epoch' = epoch + 1
  /\ req' = [req EXCEPT ![r].pc = "issue", ![r].saw = epoch']
  /\ UNCHANGED <<tokenVars, delivered, dbVars, regVars, answered, bounds>>

RehashFails(r) ==
  /\ req[r].pc = "rehash"
  /\ Finish(r, "failed")
  /\ UNCHANGED <<tokenVars, delivered, dbVars, regVars, epoch, answered, bounds>>

-----------------------------------------------------------------------------
(* time and restarts                                                       *)

Expire ==
  /\ MayFault /\ expired < minted
  /\ expired' = expired + 1
  /\ UNCHANGED <<token, minted, delivered, dbVars, regVars, epoch, answered, req, bounds>>

InFlight(r) == req[r].pc \notin {"idle", "ok", "refused", "failed", "lost"}

\* The registry is gone, open transactions roll back, nobody is answered.
Restart(w) ==
  /\ MayFault
  /\ restarts' = restarts + 1
  /\ known' = [known EXCEPT ![w] = {}]
  /\ by' = [by EXCEPT ![w] = [t \in Tokens |-> None]]
  /\ ended' = [ended EXCEPT ![w] = {}]
  /\ req' = [r \in Reqs |-> IF InFlight(r) /\ req[r].at = w
                            THEN Over(req[r], "lost") ELSE req[r]]
  /\ UNCHANGED <<tokenVars, delivered, dbVars, epoch, answered, unacked>>

Next ==
  \/ \E r \in Reqs, w \in Workers :
       \/ Login(r, w) \/ ChangePassword(r, w)
       \/ \E t \in Tokens : Refresh(r, w, t) \/ Logout(r, w, t)
  \/ \E r \in Reqs :
       \/ IssueSession(r) \/ Persist(r) \/ PersistFails(r) \/ PurgeAndAnswer(r)
       \/ Consume(r) \/ Update(r) \/ Commit(r) \/ RotateFails(r)
       \/ CommitUnacked(r) \/ ChangeRevokes(r) \/ RevokeReads(r)
       \/ RevokeApplies(r) \/ RevokeFails(r) \/ Rehash(r) \/ RehashFails(r)
  \/ Expire
  \/ \E w \in Workers : Restart(w)

Spec == Init /\ [][Next]_vars

-----------------------------------------------------------------------------
(* Properties.                                                             *)

Requests ==
  [pc : Phases, kind : Kinds, at : Workers, tok : Tokens \cup {None},
   next : Tokens \cup {None}, saw : Nat, floor : Nat, vouched : BOOLEAN,
   snap : SUBSET Tokens]

\* The variables keep their types, only issued tokens are recorded or answered,
\* and no password change is answered before the password has changed.
TypeOK ==
  /\ token \in [Tokens -> [family : Tokens, parent : Tokens \cup {None}, pwv : Nat]]
  /\ minted \in Tokens /\ expired \in 0..MaxFaults
  /\ delivered \subseteq 1..minted
  /\ rows \subseteq 1..minted /\ used \subseteq 1..minted /\ revoked \subseteq 1..minted
  /\ known \in [Workers -> SUBSET Tokens]
  /\ by \in [Workers -> [Tokens -> Tokens \cup {None}]]
  /\ ended \in [Workers -> SUBSET Tokens]
  /\ epoch \in Nat /\ answered \in 1..epoch
  /\ req \in [Reqs -> Requests]
  /\ restarts \in 0..MaxFaults /\ unacked \in 0..MaxFaults

\* "Two workers racing on the same token cannot both succeed"
\* (auth.refresh.token.model.js): a session never has two tokens that rotate.
OneLiveToken ==
  \A t, u \in rows \ (used \cup revoked) : Family(t) = Family(u) => t = u

\* The above, in states that are well formed.
TokensAreSound == TypeOK /\ OneLiveToken

\* A rotation never succeeds with a revoked token, also when the revocation is
\* recorded while the rotation is in flight, or when the row has been purged
\* and a registry would vouch for the token (RefreshTokenRegistry.js).
RevokedNeverRotates ==
  [][\A r \in Reqs : req[r].pc = "commit" /\ used' # used
       /\ req'[r].pc = "ok" => req[r].tok \notin revoked]_vars

\* Once a password change has been answered, no refresh that starts later
\* succeeds with a session of an older password, not even one whose login or
\* rotation raced the change and escaped its revocation (AuthService.js
\* _assertCredentialEpoch).
OldCredentialIsCutOff ==
  [][\A r \in Reqs : req[r].pc = "commit" /\ req'[r].pc = "ok"
       => token[req[r].tok].pwv >= req[r].floor]_vars

\* Some other request that presented r's token has not failed.
Contested(r) == \E q \in Reqs \ {r} :
  req[q].kind = "refresh" /\ req[q].tok = req[r].tok /\ req[q].pc # "failed"

FindsReuse(r) == req[r].pc \in {"verified", "update"} /\ req'[r].pc = "revoke"

\* As long as every commit is acknowledged, reuse is only detected when the
\* token was presented twice: no restart, eviction, failed statement or expired
\* row turns an honest refresh into theft and ends the session.
ReuseIsReal == [][\A r \in Reqs : FindsReuse(r) => Contested(r) \/ unacked > 0]_vars

\* "The whole family is revoked, including the successor the legitimate holder
\* received" (auth-documentation.md): once the revocation of a refused refresh
\* is recorded, no token of the family rotates.
ReuseEndsFamily ==
  \A r \in Reqs :
    req[r].kind = "refresh" /\ req[r].pc = "refused" /\ req[r].snap # {}
      => \A t \in rows \ (used \cup revoked) : Family(t) # Family(req[r].tok)
=============================================================================
