----------------------------- MODULE AdminGuard ------------------------------
(***************************************************************************)
(* The privileged accounts, T_ADMINS_DEV, and the calls that change them:  *)
(*   Backend/src/services/AdminManagementService.js   the handlers         *)
(*   Backend/src/models/admin.model.js   withLastSuperAdminGuard, _set     *)
(*   Backend/src/services/AuthService.js   changePassword, the hash upgrade*)
(*   Backend/src/services/BackupTokenService.js   consume                  *)
(*                                                                         *)
(* A handler reads the row, signs what the row will be and writes it some  *)
(* awaits later.  Its write sets the columns it is about and SYSSIGNATURE; *)
(* the rest of the row may have changed since.  The guard locks the rows   *)
(* of the active SUPER_ADMINs until its transaction commits.               *)
(***************************************************************************)
EXTENDS Naturals, FiniteSets

CONSTANTS
  Admins,    \* usernames
  Calls,     \* bound: calls in a behaviour
  Roles,     \* some of SUPER_ADMIN, ADMIN, USER
  Ops,       \* the operations that are called
  MaxTokens  \* bound: backups made

VARIABLES
  row,       \* per username its row, or NoRow
  call,      \* the calls
  tokens,    \* backup tokens: the admin backed up, who made it, used or not
  ids,       \* rows inserted so far: the next ID is one more
  words,     \* passwords set so far, named by number
  dead,      \* history: per username the passwords that another has replaced
  raced      \* history: a write met a row other than the one its handler read

vars == <<row, call, tokens, ids, words, dead, raced>>

NoRow == [id |-> 0]
Idle  == [at |-> "idle"]

\* What SYSSIGNATURE signs; pass is the password and whether its hash is of today's kind.
Fields(r) == [role |-> r.role, active |-> r.active, pass |-> r.pass]
Row(id, f) == [id |-> id, role |-> f.role, active |-> f.active, pass |-> f.pass, sig |-> f]

Valid(r)  == r.sig = Fields(r)
Super(r)  == r # NoRow /\ r.role = "SUPER_ADMIN" /\ r.active
Supers    == {a \in Admins : Super(row[a])}

Init ==
  /\ row \in [Admins -> {NoRow} \cup
        {Row(1, [role |-> r, active |-> TRUE, pass |-> <<0, FALSE>>]) : r \in Roles}]
  /\ Supers # {}
  /\ call = [c \in Calls |-> Idle]
  /\ tokens = {} /\ ids = 1 /\ words = 0
  /\ dead = [a \in Admins |-> {}] /\ raced = FALSE

-----------------------------------------------------------------------------
(* What several handlers do.                                               *)

Goes(c, at) == call' = [call EXCEPT ![c].at = at]
Ends(c, how) == call' = [call EXCEPT ![c] =
                  [at |-> how, op |-> call[c].op, token |-> call[c].token, locks |-> {}]]

\* _assertCanManage and the route's requireSuperAdmin; own rows and own
\* passwords are the handlers' own checks.
Allowed(op, by, as, target, new) ==
  \/ op \in {"change", "upgrade"} /\ by = target
  \/ op \in {"delete", "revoke"} /\ as = "SUPER_ADMIN" /\ by # target
  \/ op \in {"role", "sign", "flags", "reset"} /\ as = "SUPER_ADMIN"
  \/ op = "add" /\ (as = "SUPER_ADMIN" \/ (as = "ADMIN" /\ new = "USER"))
  \/ op = "reset" /\ as = "ADMIN" /\ by # target /\ row[target].role = "USER"

\* The row as the handler will leave it, and signs it.
After(op, seen, new, word) ==
  CASE op = "role"              -> [Fields(seen) EXCEPT !.role = new]
    [] op = "flags"             -> [Fields(seen) EXCEPT !.active = new]
    [] op = "revoke"            -> [Fields(seen) EXCEPT !.active = FALSE]
    [] op \in {"reset", "change"} -> [Fields(seen) EXCEPT !.pass = <<word, TRUE>>]
    [] op = "upgrade"           -> [Fields(seen) EXCEPT !.pass = <<seen.pass[1], TRUE>>]
    [] op = "sign"              -> Fields(seen)
    [] op = "add"               -> [role |-> new, active |-> TRUE, pass |-> <<word, TRUE>>]
    [] op = "delete"            -> Fields(seen)

\* The updates of admin.model: the columns that op is about, and the signature.
Written(op, r, f) ==
  CASE op = "role"              -> [r EXCEPT !.role = f.role, !.sig = f]
    [] op \in {"flags", "revoke"} -> [r EXCEPT !.active = f.active, !.sig = f]
    [] op \in {"reset", "change", "upgrade", "sign"} -> [r EXCEPT !.pass = f.pass, !.sig = f]

\* The handlers that may take a SUPER_ADMIN away, as their own reading says.
\* (updateAdmin asks for the role, updatePermissions for IS_ACTIVE.)
Reduces(op, seen, f) ==
  \/ op \in {"delete", "revoke"}
  \/ op = "role" /\ seen.role = "SUPER_ADMIN" /\ f.role # "SUPER_ADMIN"
  \/ op = "flags" /\ seen.active /\ ~f.active

\* Sessions end before the row changes, when what they carry changes.
EndsSessions(op, seen, f) ==
  \/ op \in {"delete", "revoke", "reset", "change", "add"}
  \/ op = "role" /\ seen.role # f.role
  \/ op = "flags" /\ seen.active /\ ~f.active

LockedBy(c) == IF call[c].at = "idle" THEN {} ELSE call[c].locks
Locked(a, c) == \E d \in Calls \ {c} : a \in LockedBy(d)

-----------------------------------------------------------------------------
(* The handlers.                                                           *)

\* buildRevokeBackup for target, by an admin.
Backup(target, by) ==
  /\ Cardinality(tokens) < MaxTokens
  /\ row[target] # NoRow /\ Valid(row[target])
  /\ tokens' = tokens \cup {[n |-> Cardinality(tokens), of |-> target, by |-> by, used |-> FALSE]}
  /\ UNCHANGED <<row, call, ids, words, dead, raced>>

\* A handler up to its signature: the policy, findByUsername, the check of the
\* signature (not in resetSignature), the password that it hashes.
Begin(c, op, target, by, as, new) ==
  /\ call[c] = Idle
  /\ LET seen == row[target] IN
     /\ IF op = "add" THEN seen = NoRow
                      ELSE seen # NoRow /\ (op # "sign" => Valid(seen))
     /\ Allowed(op, by, as, target, new)
     /\ op = "upgrade" => ~seen.pass[2]
     /\ op = "flags" => new # seen.active
     /\ LET word == words + 1
            f    == After(op, seen, new, word)
        IN /\ words' = IF f.pass[1] = word THEN word ELSE words
           /\ call' = [call EXCEPT ![c] =
                [at |-> IF Reduces(op, seen, f) /\ Super(seen) THEN "guard" ELSE
                        IF op \in {"delete", "revoke"} THEN "token" ELSE
                        IF EndsSessions(op, seen, f) THEN "end" ELSE "write",
                 op |-> op, of |-> target, by |-> by, seen |-> seen, f |-> f,
                 locks |-> {}, token |-> 0]]
  /\ UNCHANGED <<row, tokens, ids, dead, raced>>

\* Deviation: the rows are read, and not locked.
GuardUnlocked(c) ==
  /\ call[c].at = "guard"
  /\ IF \A a \in Supers : row[a].id = call[c].seen.id /\ a = call[c].of
     THEN Ends(c, "refused")
     ELSE Goes(c, IF call[c].op \in {"delete", "revoke"} THEN "token" ELSE "end")
  /\ UNCHANGED <<row, tokens, ids, words, dead, raced>>

\* withLastSuperAdminGuard: it waits for the rows another guard has locked, and
\* refuses when the row it is about is the last.
Guard(c) ==
  /\ call[c].at = "guard"
  /\ \A a \in Supers : ~Locked(a, c)
  /\ IF Supers = {call[c].of} /\ row[call[c].of].id = call[c].seen.id
     THEN Ends(c, "refused")
     ELSE call' = [call EXCEPT ![c].locks = Supers,
                     ![c].at = IF call[c].op \in {"delete", "revoke"} THEN "token" ELSE "end"]
  /\ UNCHANGED <<row, tokens, ids, words, dead, raced>>

\* Deviation: a token is looked at and not used up.
TokenKept(c) ==
  /\ call[c].at = "token"
  /\ \/ \E t \in tokens :
          IF ~t.used /\ t.by = call[c].by /\ t.of = call[c].of
          THEN call' = [call EXCEPT ![c].at = "end", ![c].token = t.n + 1]
          ELSE Ends(c, "refused")
     \/ Ends(c, "refused")
  /\ UNCHANGED <<row, tokens, ids, words, dead, raced>>

\* _verifyRevokeBackupToken: any token the caller sends is used up, whatever is
\* then found; no token, or one that has expired, changes nothing.
Token(c) ==
  /\ call[c].at = "token"
  /\ \/ \E t \in tokens :
          /\ ~t.used
          /\ tokens' = (tokens \ {t}) \cup {[t EXCEPT !.used = TRUE]}
          /\ IF t.by = call[c].by /\ t.of = call[c].of
             THEN call' = [call EXCEPT ![c].at = "end", ![c].token = t.n + 1]
             ELSE Ends(c, "refused")
     \/ Ends(c, "refused") /\ UNCHANGED tokens
  /\ UNCHANGED <<row, ids, words, dead, raced>>

\* revokeAllForUser; when it fails, nothing is written.
End(c) ==
  /\ call[c].at = "end"
  /\ Goes(c, "write") \/ Ends(c, "refused")
  /\ UNCHANGED <<row, tokens, ids, words, dead, raced>>

\* The write, and the commit that releases the locks.  A row that is gone is
\* not written and nobody is told; a username taken meanwhile is (ORA-00001).
Write(c) ==
  /\ call[c].at = "write"
  /\ LET a == call[c].of
         r == row[a]
     IN /\ ~Locked(a, c)
        /\ raced' = (raced \/ r # call[c].seen)
        /\ IF call[c].op = "add"
           THEN IF r = NoRow
                THEN /\ row' = [row EXCEPT ![a] = Row(ids + 1, call[c].f)]
                     /\ ids' = ids + 1 /\ Ends(c, "done")
                ELSE Ends(c, "refused") /\ UNCHANGED <<row, ids>>
           ELSE /\ row' = [row EXCEPT ![a] =
                       IF r = NoRow \/ call[c].op = "delete" THEN NoRow
                       ELSE Written(call[c].op, r, call[c].f)]
                /\ Ends(c, "done") /\ UNCHANGED ids
        /\ dead' = [dead EXCEPT ![a] = @ \cup
             IF r = NoRow \/ row'[a] = NoRow THEN {} ELSE {r.pass[1]} \ {row'[a].pass[1]}]
  /\ UNCHANGED <<tokens, words>>

Arguments(op) ==
  CASE op \in {"role", "add"} -> Roles
    [] op = "flags"           -> BOOLEAN
    [] op \in {"sign", "reset", "change", "upgrade", "delete", "revoke"} -> {0}

Next ==
  \/ \E target, by \in Admins : Backup(target, by)
  \/ \E c \in Calls :
       \/ \E op \in Ops, target, by \in Admins, as \in Roles :
            \E new \in Arguments(op) : Begin(c, op, target, by, as, new)
       \/ Guard(c) \/ Token(c) \/ End(c) \/ Write(c)

Spec == Init /\ [][Next]_vars

-----------------------------------------------------------------------------
(* Properties                                                              *)

Removals == {c \in Calls : /\ call[c] # Idle /\ call[c].at = "done"
                           /\ call[c].op \in {"delete", "revoke"}}

\* A password that a reset or a change has replaced does not work again.
OldWordIsDead ==
  \A a \in Admins : row[a] # NoRow => row[a].pass[1] \notin dead[a]

\* While every handler writes the row that it has read, an active SUPER_ADMIN is
\* left, whichever two of them are demoted, revoked or deleted at once, every
\* signature is right and no replaced password is written back; and each removal
\* that succeeds has used up a backup token of its own.
AdminsGuarded ==
  /\ ~raced => /\ Supers # {} /\ OldWordIsDead
               /\ \A a \in Admins : row[a] # NoRow => Valid(row[a])
  /\ \A c, d \in Removals : c # d => call[c].token # call[d].token
=============================================================================
