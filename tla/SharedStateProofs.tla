-------------------------- MODULE SharedStateProofs --------------------------
(***************************************************************************)
(* Proofs about the parts of MCSharedState, each for any value of its      *)
(* parameters and then in the composition that is checked: the majority    *)
(* that deletes a backup archive (BackupVote), the privileged accounts     *)
(* (AdminGuard), the purge of tables and the restore (DataPurge), the      *)
(* archives that build on each other (BackupChain) and the backups that    *)
(* are cut when they are quiet (BackupWatchdog).  MirrorProofs is about    *)
(* the parts that copy what is kept elsewhere.                             *)
(***************************************************************************)
EXTENDS MCSharedState, Integers, Sequences, FiniteSetTheorems, WellFoundedInduction, TLAPS

-----------------------------------------------------------------------------
(* BackupVote                                                              *)

\* Who deletes knows of a majority that has voted, and of a majority that is
\* there somebody who counts, or deletes, has still to take notice.
VoteInv ==
  /\ votes \subseteq voted /\ voted \subseteq Voters
  /\ kept \in BOOLEAN /\ refused \in BOOLEAN /\ clash \in BOOLEAN
  /\ handler \in [Voters -> {"idle", "request", "vote", "cancel", "count", "delete", "clear"}]
  /\ \A a \in Voters : handler[a] = "delete" => Cardinality(voted) >= Vote!VotesNeeded
  /\ ~kept => Cardinality(voted) >= Vote!VotesNeeded
  /\ kept /\ ~refused /\ ~clash /\ Cardinality(votes) >= Vote!VotesNeeded =>
       \E a \in Voters : handler[a] \in {"count", "delete"}

\* The counts of the component are those of this module.
LEMMA VotesAreCounted == \A S : Vote!Cardinality(S) = Cardinality(S)
BY DEF Vote!Cardinality, Cardinality

\* Half of the admins and one more are a majority, and fewer are none.
LEMMA MajorityOf ==
  /\ Cardinality(Voters) \in Nat /\ Vote!VotesNeeded \in Nat /\ Vote!VotesNeeded >= 1
  /\ \A n \in Nat : n >= Vote!VotesNeeded <=> 2 * n > Cardinality(Voters)
<1>1. Cardinality(Voters) \in Nat
  BY FS_CardinalityType, VotersAssumption
<1>2. ASSUME NEW c \in Nat
      PROVE  /\ c \div 2 + 1 \in Nat /\ c \div 2 + 1 >= 1
             /\ \A n \in Nat : n >= c \div 2 + 1 <=> 2 * n > c
  OBVIOUS
<1> QED BY <1>1, <1>2, VotesAreCounted DEF Vote!VotesNeeded

\* Sets of votes are counted, and to add votes makes no count smaller.
LEMMA CountsOfVotes ==
  ASSUME NEW S \in SUBSET Voters, NEW T \in SUBSET S
  PROVE  Cardinality(S) \in Nat /\ Cardinality(T) \in Nat /\ Cardinality(T) <= Cardinality(S)
<1>1. IsFiniteSet(S)
  BY FS_Subset, VotersAssumption
<1>2. IsFiniteSet(T) /\ Cardinality(T) <= Cardinality(S)
  BY <1>1, FS_Subset
<1> QED BY <1>1, <1>2, FS_CardinalityType

LEMMA VoteInvInit == ASSUME Vote!Init PROVE VoteInv
<1>1. Cardinality({}) = 0 /\ Vote!VotesNeeded >= 1 /\ Vote!VotesNeeded \in Nat
  BY MajorityOf, FS_EmptySet
<1>2. votes = {} /\ voted = {} /\ kept = TRUE /\ refused = FALSE /\ clash = FALSE
      /\ handler = [a \in Voters |-> "idle"]
  BY DEF Vote!Init
<1>3. ~(Cardinality(votes) >= Vote!VotesNeeded)
  BY <1>1, <1>2
<1> QED BY <1>2, <1>3 DEF VoteInv

\* A handler that only moves on, to where no majority is overlooked.
LEMMA MovesOn ==
  ASSUME VoteInv, NEW a \in Voters, NEW to, Vote!Goes(a, to),
         to \in {"idle", "request", "vote", "cancel", "count", "delete", "clear"},
         to = "delete" => Cardinality(voted) >= Vote!VotesNeeded,
         UNCHANGED <<votes, voted, kept>>,
         refused' \in BOOLEAN, clash' = clash, refused => refused',
         \/ handler[a] \notin {"count", "delete"} \/ to \in {"count", "delete"}
         \/ ~kept \/ refused' \/ clash \/ ~(Cardinality(votes) >= Vote!VotesNeeded)
  PROVE  VoteInv'
<1>1. \A b \in Voters : handler'[b] = IF b = a THEN to ELSE handler[b]
  BY DEF Vote!Goes, VoteInv
<1>2. handler' \in [Voters -> {"idle", "request", "vote", "cancel", "count", "delete", "clear"}]
  BY DEF Vote!Goes, VoteInv
<1>3. Vote!VotesNeeded' = Vote!VotesNeeded
  BY DEF Vote!VotesNeeded
<1>4. \A b \in Voters : handler'[b] = "delete" => Cardinality(voted) >= Vote!VotesNeeded
  BY <1>1 DEF VoteInv
<1>5. ASSUME kept, ~refused', ~clash, Cardinality(votes) >= Vote!VotesNeeded
      PROVE  \E b \in Voters : handler'[b] \in {"count", "delete"}
  <2>1. PICK b \in Voters : handler[b] \in {"count", "delete"}
    BY <1>5 DEF VoteInv
  <2>2. b = a => to \in {"count", "delete"}
    BY <1>5, <2>1
  <2>3. handler'[b] \in {"count", "delete"}
    BY <1>1, <2>1, <2>2
  <2> QED BY <2>3
<1> QED BY <1>2, <1>3, <1>4, <1>5 DEF VoteInv

\* The vote is cast: the one who finds a majority goes on to count, and a request
\* that met no other vote is itself the majority or has none.
LEMMA Casts ==
  ASSUME VoteInv, NEW a \in Voters, Vote!RequestCast(a) \/ Vote!VoteCast(a)
  PROVE  VoteInv'
<1>1. PICK to : /\ Vote!Goes(a, to) /\ to \in {"idle", "count", "delete"}
                /\ handler[a] \notin {"count", "delete"}
                /\ to = "delete" => 1 >= Vote!VotesNeeded
                /\ \/ clash' = clash /\ (a \in votes \/ to = "count")
                   \/ clash' = (clash \/ votes # {}) /\ (1 >= Vote!VotesNeeded => to = "delete")
  <2>1. CASE Vote!RequestCast(a)
    <3>1. PICK to : to = IF 1 >= Vote!VotesNeeded THEN "delete" ELSE "idle"
      OBVIOUS
    <3> QED BY <2>1, <3>1 DEF Vote!RequestCast
  <2>2. CASE Vote!VoteCast(a)
    <3>1. PICK to : to = IF a \in votes THEN "idle" ELSE "count"
      OBVIOUS
    <3> QED BY <2>2, <3>1 DEF Vote!VoteCast
  <2> QED BY <2>1, <2>2
<1>2. votes' = votes \cup {a} /\ voted' = voted \cup {a} /\ kept' = kept /\ refused' = refused
  BY DEF Vote!RequestCast, Vote!VoteCast, Vote!Cast
<1>3. \A b \in Voters : handler'[b] = IF b = a THEN to ELSE handler[b]
  BY <1>1 DEF Vote!Goes, VoteInv
<1>4. handler' \in [Voters -> {"idle", "request", "vote", "cancel", "count", "delete", "clear"}]
  BY <1>1 DEF Vote!Goes, VoteInv
<1>5. Vote!VotesNeeded' = Vote!VotesNeeded /\ Vote!VotesNeeded \in Nat
  BY MajorityOf DEF Vote!VotesNeeded
<1>6. /\ Cardinality(voted) \in Nat /\ Cardinality(voted') \in Nat
      /\ Cardinality(voted) <= Cardinality(voted')
  <2>1. voted' \in SUBSET Voters /\ voted \in SUBSET voted'
    BY <1>2 DEF VoteInv
  <2> QED BY <2>1, CountsOfVotes
<1>7. Cardinality({a}) = 1
  BY FS_Singleton
<1>8. 1 <= Cardinality(voted')
  <2>1. voted' \in SUBSET Voters /\ {a} \in SUBSET voted'
    BY <1>2 DEF VoteInv
  <2> QED BY <2>1, <1>7, CountsOfVotes
<1>9. ASSUME NEW b \in Voters, handler'[b] = "delete"
      PROVE  Cardinality(voted') >= Vote!VotesNeeded
  BY <1>1, <1>3, <1>5, <1>6, <1>8, <1>9 DEF VoteInv
<1>10. ~kept' => Cardinality(voted') >= Vote!VotesNeeded
  BY <1>2, <1>5, <1>6 DEF VoteInv
<1>11. ASSUME kept', ~refused', ~clash', Cardinality(votes') >= Vote!VotesNeeded
       PROVE  \E b \in Voters : handler'[b] \in {"count", "delete"}
  <2>1. CASE to \in {"count", "delete"}
    BY <2>1, <1>3
  <2>2. CASE to = "idle" /\ a \in votes /\ clash' = clash
    <3>1. votes' = votes
      BY <2>2, <1>2
    <3>2. PICK b \in Voters : handler[b] \in {"count", "delete"}
      BY <3>1, <2>2, <1>2, <1>11 DEF VoteInv
    <3>3. b # a
      BY <3>2, <1>1
    <3> QED BY <3>2, <3>3, <1>3
  <2>3. CASE votes = {} /\ ~(1 >= Vote!VotesNeeded)
    <3>1. Cardinality(votes') = 1
      <4>1. votes' = {a}
        BY <2>3, <1>2
      <4> QED BY <4>1, <1>7
    <3> QED BY <3>1, <2>3, <1>11
  <2> QED BY <2>1, <2>2, <2>3, <1>1, <1>11 DEF VoteInv
<1>12. votes' \subseteq voted' /\ voted' \subseteq Voters /\ kept' \in BOOLEAN
       /\ refused' \in BOOLEAN /\ clash' \in BOOLEAN
  BY <1>1, <1>2 DEF VoteInv
<1> QED BY <1>4, <1>5, <1>9, <1>10, <1>11, <1>12 DEF VoteInv

LEMMA VoteInvStep == ASSUME VoteInv, [Vote!Next]_Vote!vars PROVE VoteInv'
<1>1. ASSUME NEW a \in Voters, Vote!RequestDelete(a) \/ Vote!VoteDelete(a) \/ Vote!CancelDelete(a)
      PROVE  VoteInv'
  <2>1. PICK to \in {"idle", "request", "vote", "cancel"} :
          /\ Vote!Goes(a, to) /\ handler[a] = "idle"
          /\ UNCHANGED <<votes, kept, refused, voted, clash>>
    BY <1>1 DEF Vote!RequestDelete, Vote!VoteDelete, Vote!CancelDelete, Vote!Call
  <2> QED BY <2>1, MovesOn DEF VoteInv
<1>2. ASSUME NEW a \in Voters, Vote!RequestCast(a) \/ Vote!VoteCast(a)
      PROVE  VoteInv'
  BY <1>2, Casts
<1>3. ASSUME NEW a \in Voters, Vote!VoteCount(a)
      PROVE  VoteInv'
  <2>1. PICK to : to = IF Vote!CountsEnough(a) THEN "delete" ELSE "idle"
    OBVIOUS
  <2>2. Vote!Goes(a, to) /\ UNCHANGED <<votes, kept, refused, voted, clash>>
    BY <1>3, <2>1 DEF Vote!VoteCount
  <2>3. /\ Cardinality(votes) \in Nat /\ Cardinality(voted) \in Nat /\ Vote!VotesNeeded \in Nat
        /\ Cardinality(votes) <= Cardinality(voted)
    BY CountsOfVotes, MajorityOf DEF VoteInv
  <2>4. to = "delete" => Cardinality(voted) >= Vote!VotesNeeded
    BY <2>1, <2>3, VotesAreCounted DEF Vote!CountsEnough
  <2>5. to \in {"count", "delete"} \/ ~(Cardinality(votes) >= Vote!VotesNeeded)
    BY <2>1, VotesAreCounted DEF Vote!CountsEnough
  <2>6. to \in {"idle", "request", "vote", "cancel", "count", "delete", "clear"}
    BY <2>1
  <2> QED BY <2>2, <2>4, <2>5, <2>6, MovesOn DEF VoteInv
<1>4. ASSUME NEW a \in Voters, Vote!DeleteArchive(a)
      PROVE  VoteInv'
  <2>1. CASE ~kept /\ Vote!Goes(a, "idle") /\ UNCHANGED <<kept, refused>>
    BY <1>4, <2>1, MovesOn DEF Vote!DeleteArchive, VoteInv
  <2>2. CASE kept /\ refused' = TRUE /\ Vote!Goes(a, "idle") /\ UNCHANGED kept
    BY <1>4, <2>2, MovesOn DEF Vote!DeleteArchive, VoteInv
  <2>3. CASE kept /\ kept' = FALSE /\ Vote!Goes(a, "clear") /\ UNCHANGED refused
    <3>1. votes' = votes /\ voted' = voted /\ clash' = clash /\ handler[a] = "delete"
      BY <1>4 DEF Vote!DeleteArchive
    <3>2. handler' = [handler EXCEPT ![a] = "clear"]
      BY <2>3 DEF Vote!Goes
    <3>3. Cardinality(voted) >= Vote!VotesNeeded
      BY <3>1 DEF VoteInv
    <3>4. Vote!VotesNeeded' = Vote!VotesNeeded
      BY DEF Vote!VotesNeeded
    <3> QED BY <2>3, <3>1, <3>2, <3>3, <3>4 DEF VoteInv
  <2> QED BY <1>4, <2>1, <2>2, <2>3 DEF Vote!DeleteArchive
<1>5. ASSUME NEW a \in Voters, Vote!CancelRequest(a)
      PROVE  VoteInv'
  <2>1. /\ votes' = {} /\ voted' = voted /\ kept' = kept /\ refused' = refused /\ clash' = clash
        /\ handler' = [handler EXCEPT ![a] = "idle"]
    BY <1>5 DEF Vote!CancelRequest, Vote!Goes
  <2>2. Cardinality(votes') = 0 /\ Vote!VotesNeeded \in Nat /\ Vote!VotesNeeded >= 1
    BY <2>1, MajorityOf, FS_EmptySet
  <2>3. Vote!VotesNeeded' = Vote!VotesNeeded
    BY DEF Vote!VotesNeeded
  <2>4. \A b \in Voters : handler'[b] = "delete" => handler[b] = "delete"
    BY <2>1 DEF VoteInv
  <2>5. handler' \in [Voters -> {"idle", "request", "vote", "cancel", "count", "delete", "clear"}]
    BY <2>1 DEF VoteInv
  <2> QED BY <2>1, <2>2, <2>3, <2>4, <2>5 DEF VoteInv
<1>6. CASE UNCHANGED Vote!vars
  BY <1>6 DEF Vote!vars, VoteInv, Vote!VotesNeeded
<1> QED BY <1>1, <1>2, <1>3, <1>4, <1>5, <1>6 DEF Vote!Next

LEMMA VoteInvSuffices == VoteInv => Vote!MajorityRules
<1> SUFFICES ASSUME VoteInv PROVE Vote!MajorityRules
  OBVIOUS
<1>1. Cardinality(voted) \in Nat /\ Cardinality(votes) \in Nat
  BY CountsOfVotes DEF VoteInv
<1>2. \A n \in Nat : n >= Vote!VotesNeeded <=> 2 * n > Cardinality(Voters)
  BY MajorityOf
<1>3. Cardinality(Voters) \in Nat /\ Vote!VotesNeeded \in Nat
  BY MajorityOf
<1>4. ~kept => 2 * Cardinality(voted) > Cardinality(Voters)
  BY <1>1, <1>2 DEF VoteInv
<1>5. ASSUME Vote!Quiet, kept, ~refused, ~clash
      PROVE  2 * Cardinality(votes) <= Cardinality(Voters)
  <2>1. ~(Cardinality(votes) >= Vote!VotesNeeded)
    BY <1>5 DEF VoteInv, Vote!Quiet
  <2>2. ~(2 * Cardinality(votes) > Cardinality(Voters))
    BY <2>1, <1>1, <1>2
  <2> QED BY <2>2, <1>1, <1>3
<1> QED BY <1>4, <1>5, VotesAreCounted DEF Vote!MajorityRules

\* The vote by itself: for any finite set of admins and any number of calls.
THEOREM VoteIsSafe == Vote!Spec => []Vote!MajorityRules
<1>1. Vote!Init => VoteInv
  BY VoteInvInit
<1>2. VoteInv /\ [Vote!Next]_Vote!vars => VoteInv'
  BY VoteInvStep
<1> QED BY <1>1, <1>2, VoteInvSuffices, PTL DEF Vote!Spec

\* A step of the composition is one of the vote, or leaves it alone.
LEMMA VoteSteps == [Next]_vars => [Vote!Next]_Vote!vars
<1> SUFFICES ASSUME [Next]_vars, ~Vote!Next PROVE UNCHANGED Vote!vars
  OBVIOUS
<1>1. UNCHANGED vote
  BY DEF Next, vars
<1> QED BY <1>1 DEF vote, Vote!vars

\* An archive that is gone had the votes of more than half of the admins, and
\* when all handlers have ended, votes of more than half have deleted it: for
\* any finite set of admins and any order of their calls.
THEOREM MajorityRulesTheorem == Spec => []MajorityRules
<1>1. Init => VoteInv
  BY VoteInvInit DEF Init
<1>2. VoteInv /\ [Next]_vars => VoteInv'
  BY VoteInvStep, VoteSteps
<1>3. VoteInv => MajorityRules
  BY VoteInvSuffices DEF MajorityRules
<1> QED BY <1>1, <1>2, <1>3, PTL DEF Spec

-----------------------------------------------------------------------------
(* AdminGuard                                                              *)

Passes    == Nat \X BOOLEAN
FieldSets == [role : Roles, active : BOOLEAN, pass : Passes]
RowSets   == [id : Nat, role : Roles, active : BOOLEAN, pass : Passes, sig : FieldSets]
MaybeRows == {r \in RowSets : r.id > 0} \cup {Guarded!NoRow}
Steps     == {"guard", "token", "end", "write"}
Ended     == [at : {"done", "refused"}, op : Ops, token : Nat, locks : {{}}]
Active    == [at : Steps, op : Ops, of : Accounts, by : Accounts, seen : MaybeRows,
              f : FieldSets, locks : SUBSET Accounts, token : Nat]
Runs(c)   == adminCall[c] \in Active

Tickets   == [n : Nat, of : Accounts, by : Accounts, used : BOOLEAN]

\* Passwords are numbered up to the last one.
AdminTypes ==
  /\ IsFiniteSet(tokens) /\ tokens \subseteq Tickets
  /\ account \in [Accounts -> MaybeRows] /\ dead \in [Accounts -> SUBSET (0..passwords)]
  /\ adminCall \in [AdminCalls -> {Guarded!Idle} \cup Ended \cup Active]
  /\ passwords \in Nat /\ ids \in Nat /\ raced \in BOOLEAN
  /\ \A a \in Accounts : account[a] # Guarded!NoRow => account[a].pass[1] <= passwords
  /\ \A c \in AdminCalls : Runs(c) => adminCall[c].f.pass[1] <= passwords

\* What a handler signs differs from what it read in what it is about.
Keeps(x) ==
  /\ x.op = "add" <=> x.seen = Guarded!NoRow
  /\ x.op = "role" => x.f.active = x.seen.active
  /\ x.op \in {"flags", "revoke"} => x.f.role = x.seen.role
  /\ x.op \in {"reset", "change", "upgrade", "sign"} =>
       x.f.role = x.seen.role /\ x.f.active = x.seen.active
  /\ x.op \in {"role", "flags", "revoke"} => x.f.pass = x.seen.pass
  /\ x.op \in {"upgrade", "sign"} => x.f.pass[1] = x.seen.pass[1]

\* A handler that takes a SUPER_ADMIN away has locked another one, or a row that
\* is not the one it has read, and what is locked stays.
TakesAway(x) == /\ Guarded!Super(x.seen)
                /\ x.op \in {"delete", "revoke"} \/ x.f.role # "SUPER_ADMIN" \/ ~x.f.active
Held(x) ==
  /\ x.locks \subseteq Guarded!Supers
  /\ \/ \E b \in x.locks : b # x.of
     \/ x.of \in x.locks /\ account[x.of] # x.seen

\* A password that a handler has made is nobody's until it is written.
NewWord(c) == Runs(c) /\ adminCall[c].op \in {"reset", "change", "add"}
Unused(w) == \A a \in Accounts :
  w \notin dead[a] /\ (account[a] # Guarded!NoRow => account[a].pass[1] # w)

AdminInv ==
  /\ AdminTypes
  /\ \A c \in AdminCalls : Runs(c) => Keeps(adminCall[c])
  /\ ~raced =>
       /\ Guarded!Supers # {} /\ Guarded!OldWordIsDead
       /\ \A a \in Accounts : account[a] # Guarded!NoRow => Guarded!Valid(account[a])
       /\ \A c \in AdminCalls :
            Runs(c) /\ adminCall[c].at # "guard" /\ TakesAway(adminCall[c]) => Held(adminCall[c])
       /\ \A c \in AdminCalls : NewWord(c) => Unused(adminCall[c].f.pass[1])
       /\ \A c, d \in AdminCalls :
            NewWord(c) /\ NewWord(d) /\ adminCall[c].f.pass[1] = adminCall[d].f.pass[1] => c = d

\* No call is of two kinds.
LEMMA CallKinds ==
  /\ Guarded!Idle \notin Active /\ Guarded!Idle \notin Ended
  /\ \A x \in Active : x.at \in Steps /\ x # Guarded!Idle /\ x \notin Ended
  /\ \A x \in Ended : x \notin Active /\ x.locks = {}
<1>1. Guarded!Idle.at = "idle"
  BY DEF Guarded!Idle
<1>2. \A x \in Active : x.at \in Steps
  BY DEF Active
<1>3. \A x \in Ended : x.at \in {"done", "refused"} /\ x.locks = {}
  BY DEF Ended
<1> QED BY <1>1, <1>2, <1>3 DEF Steps

\* A password, by its number and the kind of its hash.
LEMMA PassIs ==
  /\ \A n \in Nat, b \in BOOLEAN : <<n, b>> \in Passes
  /\ \A n, b : <<n, b>>[1] = n
  /\ \A p \in Passes : p[1] \in Nat
BY DEF Passes

LEMMA AdminInvInit == ASSUME Guarded!Init PROVE AdminInv
<1>1. adminCall = [c \in AdminCalls |-> Guarded!Idle] /\ passwords = 0 /\ ids = 1 /\ tokens = {}
      /\ dead = [a \in Accounts |-> {}] /\ raced = FALSE
  BY DEF Guarded!Init
<1>2. ASSUME NEW r \in Roles
      PROVE  LET first == Guarded!Row(1, [role |-> r, active |-> TRUE, pass |-> <<0, FALSE>>])
             IN first \in MaybeRows /\ first.pass[1] = 0 /\ Guarded!Valid(first)
  <2> DEFINE f == [role |-> r, active |-> TRUE, pass |-> <<0, FALSE>>]
             first == [id |-> 1, role |-> f.role, active |-> f.active, pass |-> f.pass, sig |-> f]
  <2>1. f \in FieldSets /\ f.role = r /\ f.active = TRUE /\ f.pass = <<0, FALSE>>
    BY PassIs DEF FieldSets
  <2> HIDE DEF f
  <2>2. first \in RowSets /\ first.id = 1
    BY <2>1, PassIs DEF RowSets, FieldSets
  <2>3. first.sig = f /\ first.role = f.role /\ first.active = f.active /\ first.pass = f.pass
    OBVIOUS
  <2>4. f = [role |-> f.role, active |-> f.active, pass |-> f.pass]
    BY <2>1 DEF f
  <2>5. first.pass[1] = 0
    BY <2>1, <2>3, PassIs
  <2>6. first = Guarded!Row(1, f)
    BY DEF Guarded!Row
  <2>7. first \in MaybeRows
    BY <2>2 DEF MaybeRows
  <2>8. Guarded!Valid(first)
    BY <2>3, <2>4 DEF Guarded!Valid, Guarded!Fields
  <2> QED BY <2>5, <2>6, <2>7, <2>8 DEF f
<1>3. ASSUME NEW a \in Accounts
      PROVE  /\ account[a] \in MaybeRows
             /\ account[a] # Guarded!NoRow => account[a].pass[1] = 0 /\ Guarded!Valid(account[a])
  <2>1. account[a] \in {Guarded!NoRow} \cup
          {Guarded!Row(1, [role |-> r, active |-> TRUE, pass |-> <<0, FALSE>>]) : r \in Roles}
    BY DEF Guarded!Init
  <2>2. CASE account[a] = Guarded!NoRow
    BY <2>2 DEF MaybeRows
  <2>3. CASE \E r \in Roles :
          account[a] = Guarded!Row(1, [role |-> r, active |-> TRUE, pass |-> <<0, FALSE>>])
    BY <2>3, <1>2
  <2> QED BY <2>1, <2>2, <2>3
<1>4. account \in [Accounts -> MaybeRows]
  <2>1. account = [a \in Accounts |-> account[a]]
    BY DEF Guarded!Init
  <2> QED BY <2>1, <1>3
<1>5. \A c \in AdminCalls : ~Runs(c)
  BY <1>1, CallKinds DEF Runs
<1>6. AdminTypes
  <2>1. dead \in [Accounts -> SUBSET (0..passwords)]
    BY <1>1
  <2>2. adminCall \in [AdminCalls -> {Guarded!Idle} \cup Ended \cup Active]
    BY <1>1
  <2>3. \A a \in Accounts : account[a] # Guarded!NoRow => account[a].pass[1] <= passwords
    BY <1>1, <1>3
  <2>4. passwords \in Nat /\ ids \in Nat /\ raced \in BOOLEAN
    BY <1>1
  <2>5. IsFiniteSet(tokens) /\ tokens \subseteq Tickets
    BY <1>1, FS_EmptySet
  <2> QED BY <1>4, <1>5, <2>1, <2>2, <2>3, <2>4, <2>5 DEF AdminTypes
<1>7. Guarded!Supers # {} /\ Guarded!OldWordIsDead
  BY <1>1 DEF Guarded!Init, Guarded!OldWordIsDead
<1> QED BY <1>1, <1>3, <1>5, <1>6, <1>7 DEF AdminInv, NewWord

\* What the handler signs.
LEMMA AfterIs ==
  ASSUME NEW op \in Ops, NEW seen \in MaybeRows, op = "add" <=> seen = Guarded!NoRow,
         NEW new \in Guarded!Arguments(op), NEW word \in Nat
  PROVE  LET f == Guarded!After(op, seen, new, word) IN
         /\ f \in FieldSets
         /\ op = "role" => f.active = seen.active
         /\ op \in {"flags", "revoke"} => f.role = seen.role
         /\ op \in {"reset", "change", "upgrade", "sign"} =>
              f.role = seen.role /\ f.active = seen.active
         /\ op \in {"role", "flags", "revoke"} => f.pass = seen.pass
         /\ op \in {"upgrade", "sign"} => f.pass[1] = seen.pass[1]
         /\ op \in {"reset", "change", "add"} => f.pass[1] = word
         /\ op \notin {"reset", "change", "add"} => f.pass[1] = seen.pass[1]
<1> DEFINE f == Guarded!After(op, seen, new, word)
<1>1. CASE op = "add"
  BY <1>1 DEF Guarded!After, Guarded!Arguments, FieldSets, Passes
<1>2. CASE op # "add"
  <2> DEFINE g == Guarded!Fields(seen)
  <2>1. seen \in RowSets
    BY <1>2 DEF MaybeRows
  <2>2. g \in FieldSets /\ g.role = seen.role /\ g.active = seen.active /\ g.pass = seen.pass
    BY <2>1 DEF Guarded!Fields, FieldSets, RowSets
  <2>3. g.pass[1] \in Nat
    BY <2>2 DEF FieldSets, Passes
  <2> HIDE DEF g
  <2>4. CASE op = "role"
    <3>1. f = [g EXCEPT !.role = new] /\ new \in Roles
      BY <2>4 DEF Guarded!After, Guarded!Arguments, g
    <3> QED BY <2>4, <3>1, <2>2 DEF FieldSets
  <2>5. CASE op = "flags"
    <3>1. f = [g EXCEPT !.active = new] /\ new \in BOOLEAN
      BY <2>5 DEF Guarded!After, Guarded!Arguments, g
    <3> QED BY <2>5, <3>1, <2>2 DEF FieldSets
  <2>6. CASE op = "revoke"
    <3>1. f = [g EXCEPT !.active = FALSE]
      BY <2>6 DEF Guarded!After, g
    <3> QED BY <2>6, <3>1, <2>2 DEF FieldSets
  <2>7. CASE op \in {"reset", "change"}
    <3>1. f = [g EXCEPT !.pass = <<word, TRUE>>]
      BY <2>7 DEF Guarded!After, g
    <3>2. f \in FieldSets /\ f.pass = <<word, TRUE>> /\ f.role = g.role /\ f.active = g.active
      BY <3>1, <2>2, PassIs DEF FieldSets
    <3> QED BY <2>7, <3>2, <2>2, PassIs
  <2>8. CASE op = "upgrade"
    <3>1. f = [g EXCEPT !.pass = <<seen.pass[1], TRUE>>]
      BY <2>8 DEF Guarded!After, g
    <3>2. /\ f \in FieldSets /\ f.pass = <<seen.pass[1], TRUE>>
          /\ f.role = g.role /\ f.active = g.active
      <4>1. PICK q \in Passes : q = <<seen.pass[1], TRUE>>
        BY <2>2, <2>3, PassIs
      <4>2. f = [g EXCEPT !.pass = q]
        BY <3>1, <4>1
      <4>3. f \in FieldSets /\ f.pass = q /\ f.role = g.role /\ f.active = g.active
        BY <4>2, <2>2 DEF FieldSets
      <4> QED BY <4>1, <4>3
    <3> QED BY <2>8, <3>2, <2>2, PassIs
  <2>9. CASE op \in {"sign", "delete"}
    <3>1. f = g
      BY <2>9 DEF Guarded!After, g
    <3> QED BY <2>9, <3>1, <2>2
  <2> QED BY <1>2, <2>4, <2>5, <2>6, <2>7, <2>8, <2>9, OpsAssumption
<1> QED BY <1>1, <1>2

\* A handler up to its signature.
LEMMA BeginIs ==
  ASSUME AdminInv, NEW c \in AdminCalls, NEW op \in Ops, NEW target \in Accounts,
         NEW by \in Accounts, NEW as \in Roles, NEW new \in Guarded!Arguments(op),
         Guarded!Begin(c, op, target, by, as, new)
  PROVE  /\ adminCall[c] = Guarded!Idle /\ passwords' \in Nat /\ passwords <= passwords'
         /\ \E y \in Active :
              /\ adminCall' = [adminCall EXCEPT ![c] = y]
              /\ Keeps(y) /\ y.f.pass[1] <= passwords'
              /\ y.at = "guard" \/ ~TakesAway(y)
              /\ y.op \in {"reset", "change", "add"} => y.f.pass[1] = passwords + 1
              /\ y.token = 0 /\ (y.op \in {"delete", "revoke"} => y.at \in {"guard", "token"})
         /\ UNCHANGED <<account, tokens, ids, dead, raced>>
<1> DEFINE seen == account[target]
           word == passwords + 1
           f    == Guarded!After(op, seen, new, word)
           at   == IF Guarded!Reduces(op, seen, f) /\ Guarded!Super(seen) THEN "guard" ELSE
                   IF op \in {"delete", "revoke"} THEN "token" ELSE
                   IF Guarded!EndsSessions(op, seen, f) THEN "end" ELSE "write"
           y    == [at |-> at, op |-> op, of |-> target, by |-> by, seen |-> seen, f |-> f,
                    locks |-> {}, token |-> 0]
<1>1. /\ adminCall[c] = Guarded!Idle
      /\ IF op = "add" THEN seen = Guarded!NoRow ELSE seen # Guarded!NoRow
      /\ passwords' = IF f.pass[1] = word THEN word ELSE passwords
      /\ adminCall' = [adminCall EXCEPT ![c] = y]
      /\ UNCHANGED <<account, tokens, ids, dead, raced>>
  BY DEF Guarded!Begin
<1>2. seen \in MaybeRows /\ passwords \in Nat /\ word \in Nat
  BY DEF AdminInv, AdminTypes
<1>3. op = "add" <=> seen = Guarded!NoRow
  BY <1>1
<1>4. /\ f \in FieldSets
      /\ op = "role" => f.active = seen.active
      /\ op \in {"flags", "revoke"} => f.role = seen.role
      /\ op \in {"reset", "change", "upgrade", "sign"} =>
           f.role = seen.role /\ f.active = seen.active
      /\ op \in {"role", "flags", "revoke"} => f.pass = seen.pass
      /\ op \in {"upgrade", "sign"} => f.pass[1] = seen.pass[1]
      /\ op \in {"reset", "change", "add"} => f.pass[1] = word
      /\ op \notin {"reset", "change", "add"} => f.pass[1] = seen.pass[1]
  BY <1>2, <1>3, AfterIs
<1>5. at \in Steps
  BY DEF Steps
<1>6. Guarded!Super(seen) /\ ~(op \in {"delete", "revoke"}) /\ ~Guarded!Reduces(op, seen, f)
        => f.role = "SUPER_ADMIN" /\ f.active
  <2> SUFFICES ASSUME Guarded!Super(seen), op \notin {"delete", "revoke"},
                      ~Guarded!Reduces(op, seen, f)
               PROVE  f.role = "SUPER_ADMIN" /\ f.active
    OBVIOUS
  <2>1. seen # Guarded!NoRow /\ seen.role = "SUPER_ADMIN" /\ seen.active = TRUE
    <3>1. seen.active \in BOOLEAN
      BY <1>2 DEF Guarded!Super, MaybeRows, RowSets
    <3> QED BY <3>1 DEF Guarded!Super
  <2>2. op \in {"role", "flags", "reset", "change", "upgrade", "sign"}
    BY <2>1, <1>3, OpsAssumption
  <2>3. f.active \in BOOLEAN
    BY <1>4 DEF FieldSets
  <2> QED BY <2>1, <2>2, <2>3, <1>4 DEF Guarded!Reduces
<1>7. seen # Guarded!NoRow => seen.pass[1] <= passwords
  BY DEF AdminInv, AdminTypes
<1>8. f.pass[1] \in Nat /\ f.pass[1] <= passwords' /\ passwords' \in Nat /\ passwords <= passwords'
  <2>1. f.pass[1] \in Nat
    BY <1>4, PassIs DEF FieldSets
  <2>2. f.pass[1] # word => f.pass[1] <= passwords
    BY <1>3, <1>4, <1>7
  <2> QED BY <2>1, <2>2, <1>1, <1>2
<1> HIDE DEF f, at, seen
<1>9. /\ y.at = at /\ y.op = op /\ y.of = target /\ y.by = by /\ y.seen = seen /\ y.f = f
      /\ y.locks = {} /\ y.token = 0
  OBVIOUS
<1>10. y \in Active
  BY <1>2, <1>4, <1>5 DEF Active
<1>11. Keeps(y)
  BY <1>3, <1>4, <1>9 DEF Keeps
<1>12. y.at = "guard" \/ ~TakesAway(y)
  BY <1>6, <1>9 DEF TakesAway, at, Guarded!Reduces
<1>13. y.token = 0 /\ (y.op \in {"delete", "revoke"} => y.at \in {"guard", "token"})
  BY <1>9 DEF at
<1> QED BY <1>1, <1>4, <1>8, <1>9, <1>10, <1>11, <1>12, <1>13

\* Calls other than c are as they were.
LEMMA OthersRun ==
  ASSUME AdminTypes, NEW c \in AdminCalls, NEW y,
         adminCall' = [adminCall EXCEPT ![c] = y]
  PROVE  /\ adminCall'[c] = y
         /\ \A d \in AdminCalls \ {c} :
              adminCall'[d] = adminCall[d] /\ (Runs(d)' <=> Runs(d)) /\ (NewWord(d)' <=> NewWord(d))
<1>1. adminCall'[c] = y /\ \A d \in AdminCalls \ {c} : adminCall'[d] = adminCall[d]
  BY DEF AdminTypes
<1> QED BY <1>1 DEF Runs, NewWord, Active, MaybeRows, RowSets, FieldSets

LEMMA BeginKeeps ==
  ASSUME AdminInv, NEW c \in AdminCalls, NEW op \in Ops, NEW target \in Accounts,
         NEW by \in Accounts, NEW as \in Roles, NEW new \in Guarded!Arguments(op),
         Guarded!Begin(c, op, target, by, as, new)
  PROVE  AdminInv'
<1>1. /\ passwords \in Nat /\ passwords' \in Nat /\ passwords <= passwords'
      /\ UNCHANGED <<account, tokens, ids, dead, raced>>
  BY BeginIs DEF AdminInv, AdminTypes
<1>2. PICK y \in Active :
        /\ adminCall' = [adminCall EXCEPT ![c] = y]
        /\ Keeps(y) /\ y.f.pass[1] <= passwords'
        /\ y.at = "guard" \/ ~TakesAway(y)
        /\ y.op \in {"reset", "change", "add"} => y.f.pass[1] = passwords + 1
  BY BeginIs
<1>3. /\ adminCall'[c] = y
      /\ \A d \in AdminCalls \ {c} :
           adminCall'[d] = adminCall[d] /\ (Runs(d)' <=> Runs(d)) /\ (NewWord(d)' <=> NewWord(d))
  BY <1>2, OthersRun DEF AdminInv
<1>4. AdminTypes'
  <2>1. adminCall' \in [AdminCalls -> {Guarded!Idle} \cup Ended \cup Active]
    BY <1>2 DEF AdminInv, AdminTypes
  <2>2. dead' \in [Accounts -> SUBSET (0..passwords')]
    <3>1. 0..passwords \subseteq 0..passwords'
      BY <1>1
    <3> QED BY <1>1, <3>1 DEF AdminInv, AdminTypes
  <2>3. ASSUME NEW a \in Accounts, account'[a] # Guarded!NoRow
        PROVE  account'[a].pass[1] <= passwords'
    <3>1. account[a].pass[1] \in Nat /\ account[a].pass[1] <= passwords
      BY <1>1, <2>3, PassIs DEF AdminInv, AdminTypes, MaybeRows, RowSets
    <3> QED BY <3>1, <1>1
  <2>4. ASSUME NEW d \in AdminCalls, Runs(d)'
        PROVE  adminCall'[d].f.pass[1] <= passwords'
    <3>1. CASE d = c
      BY <3>1, <1>2, <1>3
    <3>2. CASE d # c
      <4>1. adminCall[d].f.pass[1] \in Nat /\ adminCall[d].f.pass[1] <= passwords
        BY <1>3, <2>4, <3>2, PassIs DEF AdminInv, AdminTypes, Runs, Active, FieldSets
      <4> QED BY <4>1, <3>2, <1>1, <1>3
    <3> QED BY <3>1, <3>2
  <2> QED BY <1>1, <2>1, <2>2, <2>3, <2>4 DEF AdminInv, AdminTypes
<1>5. \A d \in AdminCalls : Runs(d)' => Keeps(adminCall'[d])
  BY <1>2, <1>3 DEF AdminInv
<1>6. ASSUME ~raced'
      PROVE  /\ (Guarded!Supers # {} /\ Guarded!OldWordIsDead)'
             /\ \A a \in Accounts : account'[a] # Guarded!NoRow => Guarded!Valid(account'[a])
  BY <1>1, <1>6 DEF AdminInv, Guarded!Supers, Guarded!OldWordIsDead
<1>7. ASSUME ~raced', NEW d \in AdminCalls, Runs(d)', adminCall'[d].at # "guard",
             TakesAway(adminCall'[d])
      PROVE  Held(adminCall[d])'
  <2>1. d # c /\ Runs(d) /\ adminCall'[d] = adminCall[d]
    BY <1>2, <1>3, <1>7
  <2>2. Held(adminCall[d])
    BY <2>1, <1>1, <1>7 DEF AdminInv
  <2> QED BY <2>1, <2>2, <1>1 DEF Held, Guarded!Supers
<1>8. ASSUME ~raced', NEW d \in AdminCalls, NewWord(d)'
      PROVE  Unused(adminCall[d].f.pass[1])'
  <2>1. CASE d = c
    <3>1. adminCall'[d].f.pass[1] = passwords + 1
      BY <2>1, <1>2, <1>3, <1>8 DEF NewWord
    <3>2. \A a \in Accounts : /\ passwords + 1 \notin dead[a]
                              /\ account[a] # Guarded!NoRow => account[a].pass[1] # passwords + 1
      <4> TAKE a \in Accounts
      <4>1. dead[a] \subseteq 0..passwords
        BY DEF AdminInv, AdminTypes
      <4>2. passwords + 1 \notin dead[a]
        BY <4>1, <1>1
      <4>3. account[a] # Guarded!NoRow => account[a].pass[1] <= passwords
        BY DEF AdminInv, AdminTypes
      <4> QED BY <4>2, <4>3, <1>1
    <3> QED BY <3>1, <3>2, <1>1 DEF Unused
  <2>2. CASE d # c
    <3>1. Unused(adminCall[d].f.pass[1])
      BY <2>2, <1>1, <1>3, <1>8 DEF AdminInv
    <3> QED BY <3>1, <2>2, <1>1, <1>3 DEF Unused
  <2> QED BY <2>1, <2>2
<1>9. ASSUME NEW d \in AdminCalls \ {c}, NewWord(d)', NewWord(c)'
      PROVE  adminCall'[d].f.pass[1] # adminCall'[c].f.pass[1]
  <2>1. adminCall[d].f.pass[1] <= passwords /\ adminCall'[d] = adminCall[d]
    BY <1>3, <1>9 DEF AdminInv, AdminTypes, NewWord
  <2>2. adminCall'[c].f.pass[1] = passwords + 1
    BY <1>2, <1>3, <1>9 DEF NewWord
  <2> QED BY <2>1, <2>2, <1>1
<1>10. ASSUME ~raced', NEW d \in AdminCalls, NEW e \in AdminCalls, NewWord(d)', NewWord(e)',
              adminCall'[d].f.pass[1] = adminCall'[e].f.pass[1]
       PROVE  d = e
  <2>1. CASE d # c /\ e # c
    BY <2>1, <1>1, <1>3, <1>10 DEF AdminInv
  <2> QED BY <2>1, <1>9, <1>10
<1> QED BY <1>4, <1>5, <1>6, <1>7, <1>8, <1>10 DEF AdminInv

\* A handler that moves on, or ends, and writes no row.
LEMMA MoveKeeps ==
  ASSUME AdminInv, AdminTypes', NEW c \in AdminCalls, Runs(c), NEW y \in Active \cup Ended,
         adminCall' = [adminCall EXCEPT ![c] = y],
         y \in Active => /\ y.op = adminCall[c].op /\ y.of = adminCall[c].of
                         /\ y.seen = adminCall[c].seen /\ y.f = adminCall[c].f
                         /\ ~raced /\ y.at # "guard" /\ TakesAway(y) => Held(y),
         UNCHANGED <<account, ids, passwords, dead, raced>>
  PROVE  AdminInv'
<1>1. /\ adminCall'[c] = y
      /\ \A d \in AdminCalls \ {c} :
           adminCall'[d] = adminCall[d] /\ (Runs(d)' <=> Runs(d)) /\ (NewWord(d)' <=> NewWord(d))
  BY OthersRun DEF AdminInv
<1>2. Runs(c)' => y \in Active
  BY <1>1 DEF Runs, Active, MaybeRows, RowSets, FieldSets
<1>3. \A d \in AdminCalls : Runs(d)' => /\ Runs(d) /\ adminCall'[d].op = adminCall[d].op
                                         /\ adminCall'[d].f = adminCall[d].f
  BY <1>1, <1>2
<1>4. \A d \in AdminCalls : NewWord(d)' => NewWord(d)
  BY <1>3 DEF NewWord
<1>5. \A d \in AdminCalls : Runs(d)' => Keeps(adminCall'[d])
  BY <1>1, <1>2 DEF AdminInv, Keeps
<1>6. ASSUME ~raced'
      PROVE  /\ (Guarded!Supers # {} /\ Guarded!OldWordIsDead)'
             /\ \A a \in Accounts : account'[a] # Guarded!NoRow => Guarded!Valid(account'[a])
  BY <1>6 DEF AdminInv, Guarded!Supers, Guarded!OldWordIsDead
<1>7. ASSUME ~raced', NEW d \in AdminCalls, Runs(d)', adminCall'[d].at # "guard",
             TakesAway(adminCall'[d])
      PROVE  Held(adminCall[d])'
  <2>1. Held(adminCall'[d])
    BY <1>1, <1>2, <1>7 DEF AdminInv
  <2> QED BY <2>1 DEF Held, Guarded!Supers
<1>8. ASSUME ~raced', NEW d \in AdminCalls, NewWord(d)'
      PROVE  Unused(adminCall[d].f.pass[1])'
  <2>1. Unused(adminCall'[d].f.pass[1])
    BY <1>3, <1>4, <1>8 DEF AdminInv, NewWord
  <2> QED BY <2>1 DEF Unused
<1>9. ASSUME ~raced', NEW d \in AdminCalls, NEW e \in AdminCalls, NewWord(d)', NewWord(e)',
             adminCall'[d].f.pass[1] = adminCall'[e].f.pass[1]
      PROVE  d = e
  BY <1>3, <1>4, <1>9 DEF AdminInv, NewWord
<1> QED BY <1>5, <1>6, <1>7, <1>8, <1>9 DEF AdminInv

\* The types after a handler has moved on.
LEMMA MoveTypes ==
  ASSUME AdminTypes, NEW c \in AdminCalls, Runs(c), NEW y \in Active \cup Ended,
         adminCall' = [adminCall EXCEPT ![c] = y],
         y \in Active => y.f = adminCall[c].f,
         IsFiniteSet(tokens') /\ tokens' \subseteq Tickets,
         UNCHANGED <<account, ids, passwords, dead, raced>>
  PROVE  AdminTypes'
<1>1. /\ adminCall'[c] = y
      /\ \A d \in AdminCalls \ {c} :
           adminCall'[d] = adminCall[d] /\ (Runs(d)' <=> Runs(d)) /\ (NewWord(d)' <=> NewWord(d))
  BY OthersRun
<1>2. Runs(c)' => y \in Active
  BY <1>1 DEF Runs, Active, MaybeRows, RowSets, FieldSets
<1>3. \A d \in AdminCalls : Runs(d)' => adminCall'[d].f.pass[1] <= passwords'
  BY <1>1, <1>2 DEF AdminTypes
<1>4. adminCall' \in [AdminCalls -> {Guarded!Idle} \cup Ended \cup Active]
  BY DEF AdminTypes
<1> QED BY <1>3, <1>4 DEF AdminTypes

\* How a handler ends, and how it moves on.
LEMMA EndIs ==
  ASSUME NEW c \in AdminCalls, Runs(c), NEW how \in {"done", "refused"}, Guarded!Ends(c, how)
  PROVE  \E y \in Ended : /\ adminCall' = [adminCall EXCEPT ![c] = y]
                         /\ y.at = how /\ y.op = adminCall[c].op /\ y.token = adminCall[c].token
<1> DEFINE y == [at |-> how, op |-> adminCall[c].op, token |-> adminCall[c].token, locks |-> {}]
<1>1. /\ y \in Ended
      /\ y.at = how /\ y.op = adminCall[c].op /\ y.token = adminCall[c].token
  BY DEF Runs, Active, Ended
<1>2. adminCall' = [adminCall EXCEPT ![c] = y]
  BY DEF Guarded!Ends
<1> QED BY <1>1, <1>2

\* Who takes a super away still holds what it has locked.
LEMMA HeldStays ==
  ASSUME NEW x, NEW y, x.locks = y.locks, x.of = y.of, x.seen = y.seen, Held(x)
  PROVE  Held(y)
BY DEF Held

\* The steps of a handler between its signature and its write.
LEMMA GuardKeeps == ASSUME AdminInv, NEW c \in AdminCalls, Runs(c), Guarded!Guard(c) PROVE AdminInv'
<1> DEFINE x == adminCall[c]
<1>1. /\ x \in Active /\ x.at = "guard" /\ x.of \in Accounts /\ x.token \in Nat
      /\ IsFiniteSet(tokens) /\ tokens \subseteq Tickets
  BY DEF Runs, Active, Guarded!Guard, AdminInv, AdminTypes
<1>2. UNCHANGED <<account, tokens, ids, passwords, dead, raced>>
  BY DEF Guarded!Guard
<1>3. CASE Guarded!Ends(c, "refused")
  <2>1. PICK y \in Ended : adminCall' = [adminCall EXCEPT ![c] = y]
    BY <1>3, EndIs
  <2>2. y \notin Active
    BY CallKinds
  <2>3. AdminTypes'
    BY <1>1, <1>2, <2>1, <2>2, MoveTypes DEF AdminInv
  <2> QED BY <1>2, <2>1, <2>2, <2>3, MoveKeeps
<1>4. CASE ~Guarded!Ends(c, "refused")
  <2> DEFINE at == IF x.op \in {"delete", "revoke"} THEN "token" ELSE "end"
             y  == [x EXCEPT !.at = at, !.locks = Guarded!Supers, !.token = x.token]
  <2>1. adminCall' = [adminCall EXCEPT ![c] = y]
    <3>1. [x EXCEPT !.locks = Guarded!Supers, !.at = at] = y
      BY <1>1 DEF Active
    <3> QED BY <1>4, <3>1 DEF Guarded!Guard
  <2>2. ~(Guarded!Supers = {x.of} /\ account[x.of].id = x.seen.id)
    BY <1>4 DEF Guarded!Guard
  <2>3. Guarded!Supers \in SUBSET Accounts /\ at \in Steps
    BY DEF Guarded!Supers, Steps
  <2>4. /\ y \in Active /\ y.at = at /\ y.locks = Guarded!Supers
        /\ y.op = x.op /\ y.of = x.of /\ y.seen = x.seen /\ y.f = x.f
    BY <1>1, <2>3 DEF Active
  <2> HIDE DEF y
  <2>5. ASSUME ~raced
        PROVE  Held(y)
    <3>1. Guarded!Supers # {}
      BY <2>5 DEF AdminInv
    <3>2. \/ \E b \in Guarded!Supers : b # x.of
          \/ x.of \in Guarded!Supers /\ account[x.of] # x.seen
      BY <3>1, <2>2
    <3> QED BY <3>2, <2>4 DEF Held
  <2>6. AdminTypes'
    BY <1>1, <1>2, <2>1, <2>4, MoveTypes DEF AdminInv
  <2> QED BY <1>2, <2>1, <2>4, <2>5, <2>6, MoveKeeps
<1> QED BY <1>3, <1>4

LEMMA EndKeeps == ASSUME AdminInv, NEW c \in AdminCalls, Runs(c), Guarded!End(c) PROVE AdminInv'
<1> DEFINE x == adminCall[c]
<1>1. /\ x \in Active /\ x.at = "end" /\ x.locks \in SUBSET Accounts /\ x.token \in Nat
      /\ IsFiniteSet(tokens) /\ tokens \subseteq Tickets
  BY DEF Runs, Active, Guarded!End, AdminInv, AdminTypes
<1>2. UNCHANGED <<account, tokens, ids, passwords, dead, raced>>
  BY DEF Guarded!End
<1>3. CASE Guarded!Ends(c, "refused")
  <2>1. PICK y \in Ended : adminCall' = [adminCall EXCEPT ![c] = y]
    BY <1>3, EndIs
  <2>2. y \notin Active
    BY CallKinds
  <2>3. AdminTypes'
    BY <1>1, <1>2, <2>1, <2>2, MoveTypes DEF AdminInv
  <2> QED BY <1>2, <2>1, <2>2, <2>3, MoveKeeps
<1>4. CASE Guarded!Goes(c, "write")
  <2> DEFINE y == [x EXCEPT !.at = "write", !.locks = x.locks, !.token = x.token]
  <2>1. adminCall' = [adminCall EXCEPT ![c] = y]
    <3>1. [x EXCEPT !.at = "write"] = y
      BY <1>1 DEF Active
    <3> QED BY <1>4, <3>1 DEF Guarded!Goes
  <2>2. /\ y \in Active /\ y.at = "write" /\ y.locks = x.locks
        /\ y.op = x.op /\ y.of = x.of /\ y.seen = x.seen /\ y.f = x.f
    <3>1. "write" \in Steps
      BY DEF Steps
    <3> QED BY <1>1, <3>1 DEF Active
  <2> HIDE DEF y
  <2>3. ~raced /\ TakesAway(y) => Held(y)
    <3>1. TakesAway(y) => TakesAway(x)
      BY <2>2 DEF TakesAway
    <3>2. ~raced /\ TakesAway(x) => Held(x)
      BY <1>1 DEF AdminInv
    <3> QED BY <3>1, <3>2, <2>2, HeldStays
  <2>4. AdminTypes'
    BY <1>1, <1>2, <2>1, <2>2, MoveTypes DEF AdminInv
  <2> QED BY <1>2, <2>1, <2>2, <2>3, <2>4, MoveKeeps
<1> QED BY <1>3, <1>4 DEF Guarded!End

\* A token that is used up is still one of the tokens.
LEMMA TicketsStay ==
  ASSUME IsFiniteSet(tokens), tokens \subseteq Tickets, NEW t \in tokens,
         tokens' = (tokens \ {t}) \cup {[t EXCEPT !.used = TRUE]}
  PROVE  IsFiniteSet(tokens') /\ tokens' \subseteq Tickets
<1>1. IsFiniteSet(tokens \ {t})
  BY FS_RemoveElement
<1>2. IsFiniteSet(tokens')
  BY <1>1, FS_AddElement
<1>3. [t EXCEPT !.used = TRUE] \in Tickets
  BY DEF Tickets
<1> QED BY <1>2, <1>3

LEMMA TokenKeeps == ASSUME AdminInv, NEW c \in AdminCalls, Runs(c), Guarded!Token(c) PROVE AdminInv'
<1> DEFINE x == adminCall[c]
<1>1. /\ x \in Active /\ x.at = "token" /\ x.locks \in SUBSET Accounts
      /\ IsFiniteSet(tokens) /\ tokens \subseteq Tickets
  BY DEF Runs, Active, Guarded!Token, AdminInv, AdminTypes
<1>2. UNCHANGED <<account, ids, passwords, dead, raced>>
  BY DEF Guarded!Token
<1>3. IsFiniteSet(tokens') /\ tokens' \subseteq Tickets
  <2>1. CASE UNCHANGED tokens
    BY <1>1, <2>1
  <2>2. CASE \E t \in tokens : tokens' = (tokens \ {t}) \cup {[t EXCEPT !.used = TRUE]}
    BY <1>1, <2>2, TicketsStay
  <2> QED BY <2>1, <2>2 DEF Guarded!Token
<1>4. CASE Guarded!Ends(c, "refused")
  <2>1. PICK y \in Ended : adminCall' = [adminCall EXCEPT ![c] = y]
    BY <1>4, EndIs
  <2>2. y \notin Active
    BY CallKinds
  <2>3. AdminTypes'
    BY <1>2, <1>3, <2>1, <2>2, MoveTypes DEF AdminInv
  <2> QED BY <1>2, <2>1, <2>2, <2>3, MoveKeeps
<1>5. CASE \E t \in tokens : adminCall' = [adminCall EXCEPT ![c].at = "end", ![c].token = t.n + 1]
  <2>1. PICK t \in tokens : adminCall' = [adminCall EXCEPT ![c].at = "end", ![c].token = t.n + 1]
    BY <1>5
  <2>2. t.n + 1 \in Nat
    BY <1>1 DEF Tickets
  <2> DEFINE y == [x EXCEPT !.at = "end", !.token = t.n + 1]
  <2>3. adminCall' = [adminCall EXCEPT ![c] = y]
    BY <2>1
  <2>4. /\ y \in Active /\ y.at = "end" /\ y.locks = x.locks
        /\ y.op = x.op /\ y.of = x.of /\ y.seen = x.seen /\ y.f = x.f
    <3>1. "end" \in Steps
      BY DEF Steps
    <3> QED BY <1>1, <2>2, <3>1 DEF Active
  <2> HIDE DEF y
  <2>5. ~raced /\ TakesAway(y) => Held(y)
    <3>1. TakesAway(y) => TakesAway(x)
      BY <2>4 DEF TakesAway
    <3>2. ~raced /\ TakesAway(x) => Held(x)
      BY <1>1 DEF AdminInv
    <3> QED BY <3>1, <3>2, <2>4, HeldStays
  <2>6. AdminTypes'
    BY <1>2, <1>3, <2>3, <2>4, MoveTypes DEF AdminInv
  <2> QED BY <1>2, <2>3, <2>4, <2>5, <2>6, MoveKeeps
<1> QED BY <1>4, <1>5 DEF Guarded!Token

LEMMA BackupKeeps ==
  ASSUME AdminInv, NEW target \in Accounts, NEW by \in Accounts, Guarded!Backup(target, by)
  PROVE  AdminInv'
<1> DEFINE t == [n |-> Guarded!Cardinality(tokens), of |-> target, by |-> by, used |-> FALSE]
<1>1. tokens' = tokens \cup {t} /\ UNCHANGED <<account, adminCall, ids, passwords, dead, raced>>
  BY DEF Guarded!Backup
<1>2. IsFiniteSet(tokens) /\ tokens \subseteq Tickets
  BY DEF AdminInv, AdminTypes
<1>3. Guarded!Cardinality(tokens) \in Nat
  <2>1. Guarded!Cardinality(tokens) = Cardinality(tokens)
    BY DEF Guarded!Cardinality, Cardinality
  <2> QED BY <2>1, <1>2, FS_CardinalityType
<1>4. t \in Tickets
  BY <1>3 DEF Tickets
<1>5. IsFiniteSet(tokens') /\ tokens' \subseteq Tickets
  BY <1>1, <1>2, <1>4, FS_AddElement
<1> QED BY <1>1, <1>5 DEF AdminInv, AdminTypes, Runs, NewWord, Active, MaybeRows, RowSets, FieldSets,
     Held, Unused, Guarded!Supers, Guarded!OldWordIsDead

-----------------------------------------------------------------------------

\* The row that a write leaves, when the handler meets the one that it has read.
LEMMA WrittenIs ==
  ASSUME NEW x \in Active, Keeps(x), x.op \notin {"add", "delete"}
  PROVE  LET r == Guarded!Written(x.op, x.seen, x.f) IN
         /\ r \in MaybeRows /\ r # Guarded!NoRow /\ r.id = x.seen.id
         /\ r.role = x.f.role /\ r.active = x.f.active /\ r.pass = x.f.pass /\ r.sig = x.f
<1> DEFINE f == x.f
           s == x.seen
           r == Guarded!Written(x.op, s, f)
<1>1. f \in FieldSets /\ s \in MaybeRows /\ s # Guarded!NoRow /\ x.op \in Ops
  BY DEF Active, Keeps
<1>2. s \in RowSets /\ s.id > 0
  BY <1>1 DEF MaybeRows
<1>3. /\ x.op = "role" => f.active = s.active
      /\ x.op \in {"flags", "revoke"} => f.role = s.role
      /\ x.op \in {"reset", "change", "upgrade", "sign"} => f.role = s.role /\ f.active = s.active
      /\ x.op \in {"role", "flags", "revoke"} => f.pass = s.pass
  BY DEF Keeps
<1> HIDE DEF f, s
<1>4. /\ r \in RowSets /\ r.id = s.id
      /\ r.role = f.role /\ r.active = f.active /\ r.pass = f.pass /\ r.sig = f
  <2>1. CASE x.op = "role"
    <3>1. r = [s EXCEPT !.role = f.role, !.sig = f]
      BY <2>1 DEF Guarded!Written
    <3> QED BY <2>1, <3>1, <1>1, <1>2, <1>3 DEF RowSets, FieldSets
  <2>2. CASE x.op \in {"flags", "revoke"}
    <3>1. r = [s EXCEPT !.active = f.active, !.sig = f]
      BY <2>2 DEF Guarded!Written
    <3> QED BY <2>2, <3>1, <1>1, <1>2, <1>3 DEF RowSets, FieldSets
  <2>3. CASE x.op \in {"reset", "change", "upgrade", "sign"}
    <3>1. r = [s EXCEPT !.pass = f.pass, !.sig = f]
      BY <2>3 DEF Guarded!Written
    <3> QED BY <2>3, <3>1, <1>1, <1>2, <1>3 DEF RowSets, FieldSets
  <2> QED BY <2>1, <2>2, <2>3, <1>1, OpsAssumption
<1>5. r \in MaybeRows /\ r # Guarded!NoRow
  <2>1. Guarded!NoRow.id = 0
    BY DEF Guarded!NoRow
  <2> QED BY <2>1, <1>2, <1>4 DEF MaybeRows
<1> QED BY <1>4, <1>5 DEF f, s

\* The same of any row: it is a row, with one of the two passwords.
LEMMA WrittenTypes ==
  ASSUME NEW x \in Active, x.op \notin {"add", "delete"}, NEW s \in MaybeRows, s # Guarded!NoRow
  PROVE  LET r == Guarded!Written(x.op, s, x.f) IN r \in MaybeRows /\ r.pass \in {s.pass, x.f.pass}
<1> DEFINE f == x.f
           r == Guarded!Written(x.op, s, f)
<1>1. f \in FieldSets /\ x.op \in Ops
  BY DEF Active
<1>2. s \in RowSets /\ s.id > 0
  BY DEF MaybeRows
<1> HIDE DEF f
<1>3. r \in RowSets /\ r.id = s.id /\ r.pass \in {s.pass, f.pass}
  <2>1. CASE x.op = "role"
    <3>1. r = [s EXCEPT !.role = f.role, !.sig = f]
      BY <2>1 DEF Guarded!Written
    <3> QED BY <3>1, <1>1, <1>2 DEF RowSets, FieldSets
  <2>2. CASE x.op \in {"flags", "revoke"}
    <3>1. r = [s EXCEPT !.active = f.active, !.sig = f]
      BY <2>2 DEF Guarded!Written
    <3> QED BY <3>1, <1>1, <1>2 DEF RowSets, FieldSets
  <2>3. CASE x.op \in {"reset", "change", "upgrade", "sign"}
    <3>1. r = [s EXCEPT !.pass = f.pass, !.sig = f]
      BY <2>3 DEF Guarded!Written
    <3> QED BY <3>1, <1>1, <1>2 DEF RowSets, FieldSets
  <2> QED BY <2>1, <2>2, <2>3, <1>1, OpsAssumption
<1> QED BY <1>2, <1>3 DEF f, MaybeRows

\* A row that is inserted.
LEMMA InsertedIs ==
  ASSUME NEW f \in FieldSets, NEW id \in Nat
  PROVE  LET r == Guarded!Row(id + 1, f) IN
         /\ r \in MaybeRows /\ r # Guarded!NoRow
         /\ r.role = f.role /\ r.active = f.active /\ r.pass = f.pass /\ r.sig = f
<1> DEFINE r == Guarded!Row(id + 1, f)
<1>1. /\ r.id = id + 1 /\ r.role = f.role /\ r.active = f.active /\ r.pass = f.pass /\ r.sig = f
      /\ r \in RowSets
  BY DEF Guarded!Row, RowSets, FieldSets
<1>2. Guarded!NoRow.id = 0
  BY DEF Guarded!NoRow
<1> QED BY <1>1, <1>2 DEF MaybeRows

\* The write and the commit.
LEMMA WriteIs ==
  ASSUME AdminInv, NEW c \in AdminCalls, Runs(c), Guarded!Write(c)
  PROVE  LET x == adminCall[c] IN
         \E y \in Ended, new \in MaybeRows :
           /\ adminCall' = [adminCall EXCEPT ![c] = y]
           /\ account' = [account EXCEPT ![x.of] = new]
           /\ new # Guarded!NoRow => new.pass[1] <= passwords
           /\ dead' = [dead EXCEPT ![x.of] = @ \cup
                IF account[x.of] = Guarded!NoRow \/ new = Guarded!NoRow THEN {}
                ELSE {account[x.of].pass[1]} \ {new.pass[1]}]
           /\ ids' \in Nat /\ UNCHANGED <<tokens, passwords>>
           /\ raced' = (raced \/ account[x.of] # x.seen)
           /\ \A d \in AdminCalls \ {c} : Runs(d) => x.of \notin adminCall[d].locks
           /\ account[x.of] = x.seen =>
                new = IF x.op = "add" THEN Guarded!Row(ids + 1, x.f)
                      ELSE IF x.op = "delete" THEN Guarded!NoRow
                      ELSE Guarded!Written(x.op, x.seen, x.f)
<1> DEFINE x == adminCall[c]
           r == account[x.of]
<1>1. /\ x \in Active /\ x.of \in Accounts /\ x.f \in FieldSets /\ x.f.pass[1] <= passwords
      /\ r \in MaybeRows /\ (r # Guarded!NoRow => r.pass[1] <= passwords) /\ ids \in Nat /\ Keeps(x)
      /\ account \in [Accounts -> MaybeRows]
  BY DEF Runs, Active, AdminInv, AdminTypes
<1>2. /\ UNCHANGED <<tokens, passwords>> /\ raced' = (raced \/ r # x.seen)
      /\ ~Guarded!Locked(x.of, c)
  BY DEF Guarded!Write
<1>3. ASSUME NEW d \in AdminCalls \ {c}, Runs(d)
      PROVE  x.of \notin adminCall[d].locks
  <2>1. adminCall[d].at # "idle"
    BY <1>3 DEF Runs, Active, Steps
  <2> QED BY <2>1, <1>2 DEF Guarded!Locked, Guarded!LockedBy
<1>4. PICK new \in MaybeRows :
        /\ account' = [account EXCEPT ![x.of] = new] /\ ids' \in Nat
        /\ new # Guarded!NoRow => new.pass[1] <= passwords
        /\ Guarded!Ends(c, "done") \/ Guarded!Ends(c, "refused")
        /\ r = x.seen =>
             new = IF x.op = "add" THEN Guarded!Row(ids + 1, x.f)
                   ELSE IF x.op = "delete" THEN Guarded!NoRow
                   ELSE Guarded!Written(x.op, x.seen, x.f)
  <2>1. CASE x.op = "add" /\ r = Guarded!NoRow
    <3> DEFINE new == Guarded!Row(ids + 1, x.f)
    <3>1. new \in MaybeRows /\ new.pass = x.f.pass
      BY <1>1, InsertedIs
    <3>2. account' = [account EXCEPT ![x.of] = new] /\ ids' = ids + 1 /\ Guarded!Ends(c, "done")
      BY <2>1 DEF Guarded!Write
    <3> HIDE DEF new
    <3>3. new.pass[1] <= passwords
      BY <3>1, <1>1
    <3>4. ids' \in Nat
      BY <3>2, <1>1
    <3>5. new = Guarded!Row(ids + 1, x.f)
      BY DEF new
    <3> QED BY <2>1, <3>1, <3>2, <3>3, <3>4, <3>5
  <2>2. CASE x.op = "add" /\ r # Guarded!NoRow
    <3>1. account' = account /\ ids' = ids /\ Guarded!Ends(c, "refused")
      BY <2>2 DEF Guarded!Write
    <3>2. account' = [account EXCEPT ![x.of] = r]
      BY <3>1, <1>1
    <3>3. r # x.seen
      BY <2>2, <1>1 DEF Keeps
    <3> QED BY <3>1, <3>2, <3>3, <1>1
  <2>3. CASE x.op # "add"
    <3> DEFINE new == IF r = Guarded!NoRow \/ x.op = "delete" THEN Guarded!NoRow
                      ELSE Guarded!Written(x.op, r, x.f)
    <3>1. account' = [account EXCEPT ![x.of] = new] /\ ids' = ids /\ Guarded!Ends(c, "done")
      BY <2>3 DEF Guarded!Write
    <3>2. new \in MaybeRows /\ (new # Guarded!NoRow => new.pass[1] <= passwords)
      <4>1. CASE r = Guarded!NoRow \/ x.op = "delete"
        BY <4>1 DEF MaybeRows
      <4>2. CASE r # Guarded!NoRow /\ x.op # "delete"
        <5>1. new \in MaybeRows /\ new.pass \in {r.pass, x.f.pass}
          BY <2>3, <4>2, <1>1, WrittenTypes
        <5> QED BY <5>1, <4>2, <1>1
      <4> QED BY <4>1, <4>2
    <3>3. r = x.seen => new = IF x.op = "delete" THEN Guarded!NoRow
                              ELSE Guarded!Written(x.op, x.seen, x.f)
      BY <2>3, <1>1 DEF Keeps
    <3> QED BY <2>3, <3>1, <3>2, <3>3, <1>1
  <2> QED BY <2>1, <2>2, <2>3
<1>5. PICK y \in Ended : adminCall' = [adminCall EXCEPT ![c] = y]
  BY <1>4, EndIs
<1>6. dead' = [dead EXCEPT ![x.of] = @ \cup
                IF r = Guarded!NoRow \/ new = Guarded!NoRow THEN {} ELSE {r.pass[1]} \ {new.pass[1]}]
  <2>1. account'[x.of] = new
    BY <1>1, <1>4
  <2> QED BY <2>1 DEF Guarded!Write
<1> QED BY <1>2, <1>3, <1>4, <1>5, <1>6

LEMMA WriteTypes ==
  ASSUME AdminInv, NEW c \in AdminCalls, Runs(c), Guarded!Write(c)
  PROVE  AdminTypes'
<1> DEFINE x == adminCall[c]
<1>1. PICK y \in Ended, new \in MaybeRows :
        /\ adminCall' = [adminCall EXCEPT ![c] = y]
        /\ account' = [account EXCEPT ![x.of] = new]
        /\ new # Guarded!NoRow => new.pass[1] <= passwords
        /\ dead' = [dead EXCEPT ![x.of] = @ \cup
             IF account[x.of] = Guarded!NoRow \/ new = Guarded!NoRow THEN {}
             ELSE {account[x.of].pass[1]} \ {new.pass[1]}]
        /\ ids' \in Nat /\ UNCHANGED <<tokens, passwords>>
        /\ raced' = (raced \/ account[x.of] # x.seen)
  BY WriteIs
<1>2. x.of \in Accounts
  BY DEF Runs, Active
<1>3. account' \in [Accounts -> MaybeRows] /\ raced' \in BOOLEAN
  BY <1>1 DEF AdminInv, AdminTypes
<1>4. adminCall' \in [AdminCalls -> {Guarded!Idle} \cup Ended \cup Active]
  BY <1>1 DEF AdminInv, AdminTypes
<1>5. ASSUME NEW a \in Accounts, account'[a] # Guarded!NoRow
      PROVE  account'[a].pass[1] <= passwords'
  BY <1>1, <1>2, <1>5 DEF AdminInv, AdminTypes
<1>6. ASSUME NEW d \in AdminCalls, Runs(d)'
      PROVE  adminCall'[d].f.pass[1] <= passwords'
  <2>1. adminCall'[c] = y /\ y \notin Active
    BY <1>1, OthersRun, CallKinds DEF AdminInv
  <2>2. ~Runs(c)'
    BY <2>1 DEF Runs, Active, MaybeRows, RowSets, FieldSets
  <2>3. d # c /\ adminCall'[d] = adminCall[d] /\ Runs(d)
    BY <1>1, <1>6, <2>2, OthersRun DEF AdminInv
  <2> QED BY <2>3, <1>1 DEF AdminInv, AdminTypes
<1>7. dead' \in [Accounts -> SUBSET (0..passwords')]
  <2> DEFINE more == IF account[x.of] = Guarded!NoRow \/ new = Guarded!NoRow THEN {}
                     ELSE {account[x.of].pass[1]} \ {new.pass[1]}
  <2>1. account[x.of] # Guarded!NoRow => account[x.of].pass[1] \in 0..passwords
    <3>1. account[x.of] # Guarded!NoRow =>
            account[x.of].pass[1] \in Nat /\ account[x.of].pass[1] <= passwords
      BY <1>2, PassIs DEF AdminInv, AdminTypes, MaybeRows, RowSets
    <3> QED BY <3>1 DEF AdminInv, AdminTypes
  <2>2. more \subseteq 0..passwords
    BY <2>1
  <2> HIDE DEF more
  <2>3. dead' = [dead EXCEPT ![x.of] = @ \cup more]
    BY <1>1 DEF more
  <2>4. ASSUME NEW S, dead \in [Accounts -> SUBSET S], more \subseteq S
        PROVE  dead' \in [Accounts -> SUBSET S]
    <3>1. \A a \in Accounts : dead'[a] \in SUBSET S
      BY <2>3, <2>4, <1>2
    <3> QED BY <2>3, <2>4, <3>1
  <2>5. dead \in [Accounts -> SUBSET (0..passwords)] /\ passwords' = passwords
    BY <1>1 DEF AdminInv, AdminTypes
  <2> QED BY <2>2, <2>4, <2>5
<1> QED BY <1>1, <1>3, <1>4, <1>5, <1>6, <1>7 DEF AdminInv, AdminTypes

\* A write of the row that was read leaves a right one, with a password that is
\* the row's or new, and an active SUPER_ADMIN.
LEMMA WriteIsGuarded ==
  ASSUME AdminInv, NEW c \in AdminCalls, Runs(c), Guarded!Write(c), ~raced'
  PROVE  LET x == adminCall[c] IN
         /\ ~raced /\ account[x.of] = x.seen /\ Guarded!Supers' # {}
         /\ \A a \in Accounts : account'[a] # Guarded!NoRow => Guarded!Valid(account'[a])
         /\ account'[x.of] # Guarded!NoRow =>
              \/ NewWord(c) /\ account'[x.of].pass[1] = x.f.pass[1]
              \/ account[x.of] # Guarded!NoRow /\ account'[x.of].pass[1] = account[x.of].pass[1]
<1> DEFINE x == adminCall[c]
           r == account[x.of]
<1>1. PICK new \in MaybeRows :
        /\ account' = [account EXCEPT ![x.of] = new]
        /\ raced' = (raced \/ r # x.seen)
        /\ r = x.seen =>
             new = IF x.op = "add" THEN Guarded!Row(ids + 1, x.f)
                   ELSE IF x.op = "delete" THEN Guarded!NoRow
                   ELSE Guarded!Written(x.op, x.seen, x.f)
  BY WriteIs
<1>2. /\ x \in Active /\ x.of \in Accounts /\ x.f \in FieldSets /\ x.op \in Ops /\ x.at = "write"
      /\ Keeps(x) /\ raced \in BOOLEAN /\ ids \in Nat /\ account \in [Accounts -> MaybeRows]
  BY DEF Runs, Active, Guarded!Write, AdminInv, AdminTypes
<1>3. ~raced /\ r = x.seen
  BY <1>1, <1>2
<1>4. \A a \in Accounts : account'[a] = IF a = x.of THEN new ELSE account[a]
  BY <1>1, <1>2
<1>5. new # Guarded!NoRow =>
        /\ x.op # "delete"
        /\ new.role = x.f.role /\ new.active = x.f.active /\ new.pass = x.f.pass /\ new.sig = x.f
  <2>1. CASE x.op = "add"
    BY <2>1, <1>1, <1>2, <1>3, InsertedIs
  <2>2. CASE x.op = "delete"
    BY <2>2, <1>1, <1>3
  <2>3. CASE x.op \notin {"add", "delete"}
    BY <2>3, <1>1, <1>2, <1>3, WrittenIs
  <2> QED BY <2>1, <2>2, <2>3
<1>6. x.op # "delete" => new # Guarded!NoRow
  <2>1. CASE x.op = "add"
    BY <2>1, <1>1, <1>2, <1>3, InsertedIs
  <2>2. CASE x.op \notin {"add", "delete"}
    BY <2>2, <1>1, <1>2, <1>3, WrittenIs
  <2> QED BY <2>1, <2>2
<1>7. new # Guarded!NoRow => Guarded!Valid(new)
  <2>1. x.f = [role |-> x.f.role, active |-> x.f.active, pass |-> x.f.pass]
    BY <1>2 DEF FieldSets
  <2> QED BY <2>1, <1>5 DEF Guarded!Valid, Guarded!Fields
<1>8. \A a \in Accounts : account'[a] # Guarded!NoRow => Guarded!Valid(account'[a])
  BY <1>3, <1>4, <1>7 DEF AdminInv
<1>9. new # Guarded!NoRow =>
        \/ NewWord(c) /\ new.pass[1] = x.f.pass[1]
        \/ r # Guarded!NoRow /\ new.pass[1] = r.pass[1]
  <2> SUFFICES ASSUME new # Guarded!NoRow, ~NewWord(c)
               PROVE  r # Guarded!NoRow /\ new.pass[1] = r.pass[1]
    BY <1>5
  <2>1. x.op \in {"role", "flags", "revoke", "upgrade", "sign"}
    BY <1>2, <1>5, OpsAssumption DEF NewWord
  <2> QED BY <2>1, <1>2, <1>3, <1>5 DEF Keeps
<1>10. \A a \in Accounts : a \in Guarded!Supers' <=> Guarded!Super(account'[a])
  BY DEF Guarded!Supers, Guarded!Super, Guarded!NoRow
<1>11. CASE TakesAway(x)
  <2>1. Held(x)
    BY <1>2, <1>3, <1>11 DEF AdminInv
  <2>2. PICK b \in x.locks : b # x.of
    BY <2>1, <1>3 DEF Held
  <2>3. b \in Accounts /\ Guarded!Super(account[b])
    BY <2>1, <2>2 DEF Held, Guarded!Supers
  <2>4. Guarded!Super(account'[b])
    BY <2>2, <2>3, <1>4
  <2> QED BY <2>3, <2>4, <1>3, <1>4, <1>8, <1>9, <1>10, <1>2
<1>12. CASE ~TakesAway(x) /\ Guarded!Super(x.seen)
  <2>1. x.op \notin {"delete", "revoke"} /\ x.f.role = "SUPER_ADMIN" /\ x.f.active
    BY <1>12 DEF TakesAway
  <2>2. Guarded!Super(account'[x.of])
    BY <2>1, <1>2, <1>4, <1>5, <1>6 DEF Guarded!Super
  <2> QED BY <2>2, <1>2, <1>3, <1>4, <1>8, <1>9, <1>10
<1>13. CASE ~Guarded!Super(x.seen)
  <2>1. PICK b \in Accounts : Guarded!Super(account[b])
    BY <1>3 DEF AdminInv, Guarded!Supers
  <2>2. b # x.of
    BY <2>1, <1>3, <1>13
  <2>3. Guarded!Super(account'[b])
    BY <2>1, <2>2, <1>4
  <2> QED BY <2>3, <1>2, <1>3, <1>4, <1>8, <1>9, <1>10
<1> QED BY <1>11, <1>12, <1>13

LEMMA WriteKeeps ==
  ASSUME AdminInv, NEW c \in AdminCalls, Runs(c), Guarded!Write(c)
  PROVE  AdminInv'
<1> DEFINE x == adminCall[c]
<1>1. PICK y \in Ended, new \in MaybeRows :
        /\ adminCall' = [adminCall EXCEPT ![c] = y]
        /\ account' = [account EXCEPT ![x.of] = new]
        /\ dead' = [dead EXCEPT ![x.of] = @ \cup
             IF account[x.of] = Guarded!NoRow \/ new = Guarded!NoRow THEN {}
             ELSE {account[x.of].pass[1]} \ {new.pass[1]}]
        /\ \A d \in AdminCalls \ {c} : Runs(d) => x.of \notin adminCall[d].locks
  BY WriteIs
<1>2. x.of \in Accounts /\ x \in Active
  BY DEF Runs, Active
<1>3. \A d \in AdminCalls : Runs(d)' => d # c /\ Runs(d) /\ adminCall'[d] = adminCall[d]
  <2>1. adminCall'[c] = y /\ y \notin Active
    BY <1>1, OthersRun, CallKinds DEF AdminInv
  <2>2. ~Runs(c)'
    BY <2>1 DEF Runs, Active, MaybeRows, RowSets, FieldSets
  <2> QED BY <1>1, <2>2, OthersRun DEF AdminInv
<1>4. \A d \in AdminCalls : NewWord(d)' => d # c /\ NewWord(d) /\ adminCall'[d] = adminCall[d]
  BY <1>3 DEF NewWord
<1>5. \A a \in Accounts : /\ account'[a] = IF a = x.of THEN new ELSE account[a]
                          /\ dead'[a] = IF a # x.of THEN dead[a] ELSE dead[a] \cup
                               IF account[a] = Guarded!NoRow \/ new = Guarded!NoRow THEN {}
                               ELSE {account[a].pass[1]} \ {new.pass[1]}
  BY <1>1, <1>2 DEF AdminInv, AdminTypes
<1>6. AdminTypes'
  BY WriteTypes
<1>7. \A d \in AdminCalls : Runs(d)' => Keeps(adminCall'[d])
  BY <1>3 DEF AdminInv
<1>8. ASSUME ~raced'
      PROVE  /\ ~raced /\ Guarded!Supers' # {}
             /\ \A a \in Accounts : account'[a] # Guarded!NoRow => Guarded!Valid(account'[a])
             /\ account'[x.of] # Guarded!NoRow =>
                  \/ NewWord(c) /\ account'[x.of].pass[1] = x.f.pass[1]
                  \/ account[x.of] # Guarded!NoRow /\ account'[x.of].pass[1] = account[x.of].pass[1]
  BY <1>8, WriteIsGuarded
<1>9. ASSUME ~raced' PROVE Guarded!OldWordIsDead'
  <2> SUFFICES ASSUME NEW a \in Accounts, account'[a] # Guarded!NoRow
               PROVE  account'[a].pass[1] \notin dead'[a]
    BY DEF Guarded!OldWordIsDead, Guarded!NoRow
  <2>1. CASE a # x.of
    BY <2>1, <1>5, <1>8, <1>9 DEF AdminInv, Guarded!OldWordIsDead
  <2>2. CASE a = x.of
    <3>1. account'[a].pass[1] \notin dead[a]
      <4>1. CASE NewWord(c) /\ account'[a].pass[1] = x.f.pass[1]
        BY <4>1, <1>8, <1>9 DEF AdminInv, Unused
      <4>2. CASE account[a] # Guarded!NoRow /\ account'[a].pass[1] = account[a].pass[1]
        BY <4>2, <1>8, <1>9 DEF AdminInv, Guarded!OldWordIsDead
      <4> QED BY <2>2, <4>1, <4>2, <1>8, <1>9
    <3>2. account'[a] = new
      BY <2>2, <1>5
    <3> QED BY <2>2, <3>1, <3>2, <1>5
  <2> QED BY <2>1, <2>2
<1>10. ASSUME ~raced', NEW d \in AdminCalls, Runs(d)', adminCall'[d].at # "guard",
              TakesAway(adminCall'[d])
       PROVE  Held(adminCall[d])'
  <2>1. d # c /\ Runs(d) /\ adminCall'[d] = adminCall[d] /\ x.of \notin adminCall[d].locks
    BY <1>1, <1>3, <1>10
  <2>2. Held(adminCall[d])
    BY <2>1, <1>8, <1>10 DEF AdminInv
  <2>3. adminCall[d].locks \subseteq Guarded!Supers'
    <3> SUFFICES ASSUME NEW b \in adminCall[d].locks PROVE b \in Guarded!Supers'
      OBVIOUS
    <3>1. b \in Accounts /\ Guarded!Super(account[b]) /\ b # x.of
      BY <2>1, <2>2 DEF Held, Guarded!Supers
    <3>2. Guarded!Super(account'[b])
      BY <3>1, <1>5
    <3> QED BY <3>1, <3>2 DEF Guarded!Supers, Guarded!Super, Guarded!NoRow
  <2>4. adminCall[d].of \in adminCall[d].locks => account'[adminCall[d].of] = account[adminCall[d].of]
    <3>1. adminCall[d].of \in Accounts
      BY <2>1 DEF Runs, Active
    <3> QED BY <3>1, <2>1, <1>5
  <2> QED BY <2>1, <2>2, <2>3, <2>4 DEF Held
<1>11. ASSUME ~raced', NEW d \in AdminCalls, NewWord(d)'
       PROVE  Unused(adminCall[d].f.pass[1])'
  <2> DEFINE w == adminCall[d].f.pass[1]
  <2>1. d # c /\ NewWord(d) /\ adminCall'[d] = adminCall[d]
    BY <1>4, <1>11
  <2>2. Unused(w)
    BY <2>1, <1>8, <1>11 DEF AdminInv
  <2>3. NewWord(c) => x.f.pass[1] # w
    BY <2>1, <1>8, <1>11 DEF AdminInv
  <2>4. ASSUME NEW a \in Accounts
        PROVE  w \notin dead'[a] /\ (account'[a] # Guarded!NoRow => account'[a].pass[1] # w)
    <3>1. w \notin dead'[a]
      BY <2>2, <1>5 DEF Unused
    <3>2. CASE a = x.of
      BY <2>2, <2>3, <3>1, <3>2, <1>8, <1>11 DEF Unused
    <3>3. CASE a # x.of
      BY <2>2, <3>1, <3>3, <1>5 DEF Unused
    <3> QED BY <3>2, <3>3
  <2> QED BY <2>1, <2>4 DEF Unused, Guarded!NoRow
<1>12. ASSUME ~raced', NEW d \in AdminCalls, NEW e \in AdminCalls, NewWord(d)', NewWord(e)',
              adminCall'[d].f.pass[1] = adminCall'[e].f.pass[1]
       PROVE  d = e
  BY <1>4, <1>8, <1>12 DEF AdminInv
<1> QED BY <1>6, <1>7, <1>8, <1>9, <1>10, <1>11, <1>12 DEF AdminInv

-----------------------------------------------------------------------------

\* A token has a number of its own; the tokens of calls are used up, each by one
\* call, and a removal past its check has one.
Has(c) == adminCall[c] \in Active \cup Ended
TokenInv ==
  /\ \A t \in tokens : t.n < Cardinality(tokens)
  /\ \A t, u \in tokens : t.n = u.n => t = u
  /\ \A c \in AdminCalls : Has(c) /\ adminCall[c].token # 0 =>
       \E t \in tokens : t.used /\ t.n + 1 = adminCall[c].token
  /\ \A c \in AdminCalls : /\ Has(c) /\ adminCall[c].op \in {"delete", "revoke"}
                           /\ adminCall[c].at \in {"end", "write", "done"}
                           => adminCall[c].token # 0
  /\ \A c, d \in AdminCalls : Has(c) /\ Has(d) /\ adminCall[c].token # 0
                              /\ adminCall[c].token = adminCall[d].token => c = d

LEMMA TokenInvInit == ASSUME Guarded!Init PROVE TokenInv
<1>1. tokens = {} /\ adminCall = [c \in AdminCalls |-> Guarded!Idle]
  BY DEF Guarded!Init
<1>2. \A c \in AdminCalls : ~Has(c)
  BY <1>1, CallKinds DEF Has
<1> QED BY <1>1, <1>2 DEF TokenInv

\* A call that takes no token.
LEMMA TokensStay ==
  ASSUME AdminTypes, TokenInv, NEW c \in AdminCalls, NEW y \in Active \cup Ended,
         adminCall' = [adminCall EXCEPT ![c] = y], tokens' = tokens,
         y.token # 0 => Has(c) /\ y.token = adminCall[c].token,
         y.op \in {"delete", "revoke"} /\ y.at \in {"end", "write", "done"} => y.token # 0
  PROVE  TokenInv'
<1>1. adminCall'[c] = y /\ \A d \in AdminCalls \ {c} : adminCall'[d] = adminCall[d]
  BY DEF AdminTypes
<1>2. \A d \in AdminCalls \ {c} : Has(d)' <=> Has(d)
  BY <1>1 DEF Has, Active, Ended, MaybeRows, RowSets, FieldSets
<1>3. ASSUME NEW d \in AdminCalls, Has(d)', adminCall'[d].token # 0
      PROVE  Has(d) /\ adminCall[d].token = adminCall'[d].token
  BY <1>1, <1>2, <1>3
<1>4. ASSUME NEW d \in AdminCalls, Has(d)', adminCall'[d].op \in {"delete", "revoke"},
             adminCall'[d].at \in {"end", "write", "done"}
      PROVE  adminCall'[d].token # 0
  BY <1>1, <1>2, <1>4 DEF TokenInv
<1> QED BY <1>3, <1>4 DEF TokenInv

\* A token that is used up.
LEMMA TokenTaken ==
  ASSUME AdminTypes, TokenInv, NEW c \in AdminCalls, Runs(c), NEW y \in Active \cup Ended,
         adminCall' = [adminCall EXCEPT ![c] = y], NEW t \in tokens, ~t.used,
         tokens' = (tokens \ {t}) \cup {[t EXCEPT !.used = TRUE]},
         y.token \in {adminCall[c].token, t.n + 1},
         y.op \in {"delete", "revoke"} /\ y.at \in {"end", "write", "done"} => y.token = t.n + 1
  PROVE  TokenInv'
<1> DEFINE u == [t EXCEPT !.used = TRUE]
<1>1. /\ IsFiniteSet(tokens) /\ tokens \subseteq Tickets /\ t.n \in Nat /\ u.n = t.n /\ u.used = TRUE
      /\ Cardinality(tokens) \in Nat
  BY FS_CardinalityType DEF AdminTypes, Tickets
<1>2. adminCall'[c] = y /\ \A d \in AdminCalls \ {c} : adminCall'[d] = adminCall[d]
  BY DEF AdminTypes
<1>3. \A d \in AdminCalls \ {c} : Has(d)' <=> Has(d)
  BY <1>2 DEF Has, Active, Ended, MaybeRows, RowSets, FieldSets
<1>4. Has(c)
  BY DEF Has, Runs
<1>5. tokens' = (tokens \ {t}) \cup {u}
  OBVIOUS
<1> HIDE DEF u
<1>6. u \notin tokens \ {t}
  <2> SUFFICES ASSUME u \in tokens \ {t} PROVE FALSE
    OBVIOUS
  <2>1. u = t
    BY <1>1 DEF TokenInv
  <2> QED BY <2>1
<1>7. Cardinality(tokens') = Cardinality(tokens)
  <2>1. IsFiniteSet(tokens \ {t}) /\ Cardinality(tokens \ {t}) = Cardinality(tokens) - 1
    BY <1>1, FS_RemoveElement
  <2>2. PICK T : T = tokens \ {t}
    OBVIOUS
  <2>3. Cardinality(T \cup {u}) = Cardinality(T) + 1
    <3>1. IsFiniteSet(T) /\ u \notin T
      BY <2>1, <2>2, <1>6
    <3> QED BY <3>1, FS_AddElement
  <2>4. tokens' = T \cup {u} /\ Cardinality(T) = Cardinality(tokens) - 1
    BY <2>1, <2>2, <1>5
  <2>5. Cardinality(T \cup {u}) = Cardinality(tokens)
    BY <2>3, <2>4, <1>1
  <2> QED BY <2>4, <2>5
<1>8. \A v \in tokens' : \E w \in tokens : w.n = v.n /\ (v # u => w = v) /\ (v = u => w = t)
  BY <1>1, <1>5
<1>9. \A v \in tokens' : v.n < Cardinality(tokens')
  BY <1>7, <1>8 DEF TokenInv
<1>10. ASSUME NEW v \in tokens', NEW w \in tokens', v.n = w.n PROVE v = w
  <2>1. PICK a \in tokens : a.n = v.n /\ (v # u => a = v) /\ (v = u => a = t)
    BY <1>8
  <2>2. PICK b \in tokens : b.n = w.n /\ (w # u => b = w) /\ (w = u => b = t)
    BY <1>8
  <2>3. a = b
    BY <2>1, <2>2, <1>10 DEF TokenInv
  <2> QED BY <2>1, <2>2, <2>3, <1>5, <1>6
<1>11. \A v \in tokens : v.used => v \in tokens' /\ v.n # t.n
  BY <1>5 DEF TokenInv
<1>12. ASSUME NEW d \in AdminCalls, Has(d), adminCall[d].token # 0
       PROVE  /\ \E v \in tokens' : v.used /\ v.n + 1 = adminCall[d].token
              /\ adminCall[d].token # t.n + 1
  <2>1. PICK v \in tokens : v.used /\ v.n + 1 = adminCall[d].token
    BY <1>12 DEF TokenInv
  <2>2. v.n \in Nat /\ v \in tokens' /\ v.n # t.n
    BY <2>1, <1>1, <1>11 DEF Tickets
  <2> QED BY <2>1, <2>2, <1>1
<1>13. u \in tokens' /\ u.used /\ u.n + 1 = t.n + 1 /\ t.n + 1 # 0
  BY <1>1, <1>5
<1>14. ASSUME NEW d \in AdminCalls, Has(d)', adminCall'[d].token # 0
       PROVE  \E v \in tokens' : v.used /\ v.n + 1 = adminCall'[d].token
  BY <1>2, <1>3, <1>4, <1>12, <1>13, <1>14
<1>15. ASSUME NEW d \in AdminCalls, Has(d)', adminCall'[d].op \in {"delete", "revoke"},
              adminCall'[d].at \in {"end", "write", "done"}
       PROVE  adminCall'[d].token # 0
  BY <1>2, <1>3, <1>13, <1>15 DEF TokenInv
<1>16. ASSUME NEW d \in AdminCalls, NEW e \in AdminCalls, Has(d)', Has(e)',
              adminCall'[d].token # 0, adminCall'[d].token = adminCall'[e].token
       PROVE  d = e
  <2>1. \A g \in AdminCalls : Has(g)' => Has(g)
    BY <1>3, <1>4
  <2>2. CASE d # c /\ e # c
    BY <2>1, <2>2, <1>2, <1>16 DEF TokenInv
  <2>3. CASE d = c /\ e # c
    BY <2>1, <2>3, <1>2, <1>4, <1>12, <1>16 DEF TokenInv
  <2>4. CASE d # c /\ e = c
    BY <2>1, <2>4, <1>2, <1>4, <1>12, <1>16 DEF TokenInv
  <2> QED BY <2>2, <2>3, <2>4
<1> QED BY <1>9, <1>10, <1>14, <1>15, <1>16 DEF TokenInv

\* A new token has the next number.
LEMMA TokenMade ==
  ASSUME AdminTypes, TokenInv, NEW target \in Accounts, NEW by \in Accounts,
         Guarded!Backup(target, by)
  PROVE  TokenInv'
<1> DEFINE t == [n |-> Cardinality(tokens), of |-> target, by |-> by, used |-> FALSE]
<1>1. tokens' = tokens \cup {t} /\ adminCall' = adminCall
  <2>1. Guarded!Cardinality(tokens) = Cardinality(tokens)
    BY DEF Guarded!Cardinality, Cardinality
  <2> QED BY <2>1 DEF Guarded!Backup
<1>2. /\ IsFiniteSet(tokens) /\ Cardinality(tokens) \in Nat
      /\ \A u \in tokens : u.n \in Nat /\ u.n < Cardinality(tokens)
  BY FS_CardinalityType DEF AdminTypes, TokenInv, Tickets
<1>3. t.n = Cardinality(tokens)
  OBVIOUS
<1> HIDE DEF t
<1>4. t \notin tokens
  BY <1>2, <1>3
<1>5. Cardinality(tokens') = Cardinality(tokens) + 1
  BY <1>1, <1>2, <1>4, FS_AddElement
<1>6. \A u \in tokens' : u.n < Cardinality(tokens')
  BY <1>1, <1>2, <1>3, <1>5
<1>7. \A u, v \in tokens' : u.n = v.n => u = v
  BY <1>1, <1>2, <1>3 DEF TokenInv
<1>8. \A c \in AdminCalls : Has(c)' <=> Has(c)
  BY <1>1 DEF Has, Active, Ended, MaybeRows, RowSets, FieldSets
<1> QED BY <1>1, <1>6, <1>7, <1>8 DEF TokenInv

\* A call in one of the steps is an active one.
LEMMA RunsAt ==
  ASSUME AdminTypes, NEW c \in AdminCalls, adminCall[c].at \in Steps
  PROVE  Runs(c)
<1>1. Guarded!Idle.at = "idle"
  BY DEF Guarded!Idle
<1>2. adminCall[c] \notin Ended
  BY DEF Ended, Steps
<1> QED BY <1>1, <1>2 DEF AdminTypes, Runs, Steps

LEMMA AdminInvStep == ASSUME AdminInv, [Guarded!Next]_Guarded!vars PROVE AdminInv'
<1>1. ASSUME NEW c \in AdminCalls, NEW op \in Ops, NEW target \in Accounts, NEW by \in Accounts,
             NEW as \in Roles, NEW new \in Guarded!Arguments(op),
             Guarded!Begin(c, op, target, by, as, new)
      PROVE  AdminInv'
  BY <1>1, BeginKeeps
<1>2. ASSUME NEW c \in AdminCalls, Guarded!Guard(c) PROVE AdminInv'
  <2>1. Runs(c)
    BY <1>2, RunsAt DEF Guarded!Guard, Steps, AdminInv
  <2> QED BY <1>2, <2>1, GuardKeeps
<1>3. ASSUME NEW c \in AdminCalls, Guarded!Token(c) PROVE AdminInv'
  <2>1. Runs(c)
    BY <1>3, RunsAt DEF Guarded!Token, Steps, AdminInv
  <2> QED BY <1>3, <2>1, TokenKeeps
<1>4. ASSUME NEW c \in AdminCalls, Guarded!End(c) PROVE AdminInv'
  <2>1. Runs(c)
    BY <1>4, RunsAt DEF Guarded!End, Steps, AdminInv
  <2> QED BY <1>4, <2>1, EndKeeps
<1>5. ASSUME NEW c \in AdminCalls, Guarded!Write(c) PROVE AdminInv'
  <2>1. Runs(c)
    BY <1>5, RunsAt DEF Guarded!Write, Steps, AdminInv
  <2> QED BY <1>5, <2>1, WriteKeeps
<1>6. ASSUME NEW target \in Accounts, NEW by \in Accounts, Guarded!Backup(target, by)
      PROVE  AdminInv'
  BY <1>6, BackupKeeps
<1>7. CASE UNCHANGED Guarded!vars
  BY <1>7 DEF Guarded!vars, AdminInv, AdminTypes, Runs, NewWord, Active, MaybeRows, RowSets, FieldSets,
     Held, Unused, Guarded!Supers, Guarded!OldWordIsDead
<1> QED BY <1>1, <1>2, <1>3, <1>4, <1>5, <1>6, <1>7 DEF Guarded!Next

LEMMA TokenInvStep ==
  ASSUME AdminInv, TokenInv, [Guarded!Next]_Guarded!vars
  PROVE  TokenInv'
<1> USE DEF AdminInv
<1>1. ASSUME NEW c \in AdminCalls, NEW op \in Ops, NEW target \in Accounts, NEW by \in Accounts,
             NEW as \in Roles, NEW new \in Guarded!Arguments(op),
             Guarded!Begin(c, op, target, by, as, new)
      PROVE  TokenInv'
  <2>1. PICK y \in Active : /\ adminCall' = [adminCall EXCEPT ![c] = y] /\ y.token = 0
                            /\ y.op \in {"delete", "revoke"} => y.at \in {"guard", "token"}
    BY <1>1, BeginIs
  <2>2. tokens' = tokens
    BY <1>1, BeginIs
  <2> QED BY <2>1, <2>2, TokensStay
<1>2. ASSUME NEW c \in AdminCalls, Guarded!Guard(c) PROVE TokenInv'
  <2>1. Runs(c) /\ tokens' = tokens
    BY <1>2, RunsAt DEF Guarded!Guard, Steps
  <2>2. PICK y \in Active \cup Ended :
          /\ adminCall' = [adminCall EXCEPT ![c] = y] /\ y.token = adminCall[c].token
          /\ y.op \in {"delete", "revoke"} => y.at \in {"token", "refused"}
    <3>1. CASE Guarded!Ends(c, "refused")
      BY <2>1, <3>1, EndIs
    <3>2. CASE ~Guarded!Ends(c, "refused")
      <4> DEFINE x == adminCall[c]
                 y == [x EXCEPT !.locks = Guarded!Supers,
                                !.at = IF x.op \in {"delete", "revoke"} THEN "token" ELSE "end"]
      <4>1. adminCall' = [adminCall EXCEPT ![c] = y]
        BY <1>2, <3>2 DEF Guarded!Guard
      <4>2. Guarded!Supers \in SUBSET Accounts /\ {"token", "end"} \subseteq Steps
        BY DEF Guarded!Supers, Steps
      <4>3. /\ y \in Active /\ y.token = x.token
            /\ y.op \in {"delete", "revoke"} => y.at \in {"token", "refused"}
        BY <2>1, <4>2 DEF Runs, Active
      <4> QED BY <4>1, <4>3
    <3> QED BY <3>1, <3>2
  <2> QED BY <2>1, <2>2, TokensStay DEF Runs, Has
<1>3. ASSUME NEW c \in AdminCalls, Guarded!Token(c) PROVE TokenInv'
  <2>1. Runs(c) /\ IsFiniteSet(tokens) /\ tokens \subseteq Tickets
    BY <1>3, RunsAt DEF Guarded!Token, Steps, AdminTypes
  <2>2. CASE Guarded!Ends(c, "refused") /\ UNCHANGED tokens
    <3>1. PICK y \in Ended : /\ adminCall' = [adminCall EXCEPT ![c] = y]
                             /\ y.at = "refused" /\ y.token = adminCall[c].token
      BY <2>1, <2>2, EndIs
    <3> QED BY <2>1, <2>2, <3>1, TokensStay DEF Runs, Has
  <2>3. ASSUME NEW t \in tokens, ~t.used, tokens' = (tokens \ {t}) \cup {[t EXCEPT !.used = TRUE]},
               Guarded!Ends(c, "refused")
        PROVE  TokenInv'
    <3>1. PICK y \in Ended : /\ adminCall' = [adminCall EXCEPT ![c] = y]
                             /\ y.at = "refused" /\ y.token = adminCall[c].token
      BY <2>1, <2>3, EndIs
    <3> QED BY <2>1, <2>3, <3>1, TokenTaken
  <2>4. ASSUME NEW t \in tokens, ~t.used, tokens' = (tokens \ {t}) \cup {[t EXCEPT !.used = TRUE]},
               adminCall' = [adminCall EXCEPT ![c].at = "end", ![c].token = t.n + 1]
        PROVE  TokenInv'
    <3> DEFINE x == adminCall[c]
               y == [x EXCEPT !.at = "end", !.token = t.n + 1]
    <3>1. adminCall' = [adminCall EXCEPT ![c] = y]
      BY <2>4
    <3>2. t.n + 1 \in Nat /\ "end" \in Steps
      BY <2>1 DEF Tickets, Steps
    <3>3. y \in Active /\ y.token = t.n + 1
      BY <2>1, <3>2 DEF Runs, Active
    <3> HIDE DEF y
    <3> QED BY <2>1, <2>4, <3>1, <3>3, TokenTaken
  <2> QED BY <1>3, <2>2, <2>3, <2>4 DEF Guarded!Token
<1>4. ASSUME NEW c \in AdminCalls, Guarded!End(c) PROVE TokenInv'
  <2>1. Runs(c) /\ tokens' = tokens /\ adminCall[c].at = "end"
    BY <1>4, RunsAt DEF Guarded!End, Steps
  <2>2. PICK y \in Active \cup Ended :
          /\ adminCall' = [adminCall EXCEPT ![c] = y]
          /\ y.token = adminCall[c].token /\ y.op = adminCall[c].op
    <3>1. CASE Guarded!Ends(c, "refused")
      BY <2>1, <3>1, EndIs
    <3>2. CASE Guarded!Goes(c, "write")
      <4> DEFINE x == adminCall[c]
                 y == [x EXCEPT !.at = "write"]
      <4>1. adminCall' = [adminCall EXCEPT ![c] = y]
        BY <3>2 DEF Guarded!Goes
      <4>2. y \in Active /\ y.token = x.token /\ y.op = x.op
        BY <2>1 DEF Runs, Active, Steps
      <4> QED BY <4>1, <4>2
    <3> QED BY <1>4, <3>1, <3>2 DEF Guarded!End
  <2>3. adminCall[c].op \in {"delete", "revoke"} => adminCall[c].token # 0
    BY <2>1 DEF TokenInv, Runs, Has
  <2> QED BY <2>1, <2>2, <2>3, TokensStay DEF Runs, Has
<1>5. ASSUME NEW c \in AdminCalls, Guarded!Write(c) PROVE TokenInv'
  <2>1. Runs(c) /\ tokens' = tokens /\ adminCall[c].at = "write"
    BY <1>5, RunsAt DEF Guarded!Write, Steps
  <2>2. Guarded!Ends(c, "done") \/ Guarded!Ends(c, "refused")
    BY <1>5 DEF Guarded!Write
  <2>3. PICK y \in Ended :
          /\ adminCall' = [adminCall EXCEPT ![c] = y]
          /\ y.token = adminCall[c].token /\ y.op = adminCall[c].op
    BY <2>1, <2>2, EndIs
  <2>4. adminCall[c].op \in {"delete", "revoke"} => adminCall[c].token # 0
    BY <2>1 DEF TokenInv, Runs, Has
  <2> QED BY <2>1, <2>3, <2>4, TokensStay DEF Runs, Has
<1>6. ASSUME NEW target \in Accounts, NEW by \in Accounts, Guarded!Backup(target, by)
      PROVE  TokenInv'
  BY <1>6, TokenMade
<1>7. CASE UNCHANGED Guarded!vars
  BY <1>7 DEF Guarded!vars, TokenInv, Has, Active, Ended, MaybeRows, RowSets, FieldSets
<1> QED BY <1>1, <1>2, <1>3, <1>4, <1>5, <1>6, <1>7 DEF Guarded!Next

LEMMA AdminInvSuffices == AdminInv /\ TokenInv => Guarded!AdminsGuarded
<1> SUFFICES ASSUME AdminInv, TokenInv PROVE Guarded!AdminsGuarded
  OBVIOUS
<1>1. ASSUME NEW c \in Guarded!Removals
      PROVE  c \in AdminCalls /\ Has(c) /\ adminCall[c].token # 0
  BY DEF Guarded!Removals, AdminInv, AdminTypes, TokenInv, Has
<1>2. \A c, d \in Guarded!Removals : c # d => adminCall[c].token # adminCall[d].token
  BY <1>1 DEF TokenInv
<1> QED BY <1>2 DEF Guarded!AdminsGuarded, AdminInv

\* The accounts by themselves: any accounts, calls, roles and operations.
THEOREM AdminsAreGuarded == Guarded!Spec => []Guarded!AdminsGuarded
<1>1. Guarded!Init => AdminInv /\ TokenInv
  BY AdminInvInit, TokenInvInit
<1>2. AdminInv /\ TokenInv /\ [Guarded!Next]_Guarded!vars => (AdminInv /\ TokenInv)'
  BY AdminInvStep, TokenInvStep
<1> QED BY <1>1, <1>2, AdminInvSuffices, PTL DEF Guarded!Spec

\* A step of the composition is one of the accounts, or leaves them alone.
LEMMA AdminSteps == [Next]_vars => [Guarded!Next]_Guarded!vars
<1> SUFFICES ASSUME [Next]_vars, ~Guarded!Next PROVE UNCHANGED Guarded!vars
  OBVIOUS
<1>1. UNCHANGED admin
  BY DEF Next, vars
<1> QED BY <1>1 DEF admin, Guarded!vars

\* As long as every handler writes the row that it has read, an active SUPER_ADMIN
\* is left, every signature is right and no replaced password works again; and a
\* removal has used up a backup token of its own.
THEOREM AdminsGuardedTheorem == Spec => []AdminsGuarded
<1>1. Init => AdminInv /\ TokenInv
  BY AdminInvInit, TokenInvInit DEF Init
<1>2. AdminInv /\ TokenInv /\ [Next]_vars => (AdminInv /\ TokenInv)'
  BY AdminInvStep, TokenInvStep, AdminSteps
<1>3. AdminInv /\ TokenInv => AdminsGuarded
  BY AdminInvSuffices DEF AdminsGuarded
<1> QED BY <1>1, <1>2, <1>3, PTL DEF Spec

-----------------------------------------------------------------------------
(* DataPurge                                                               *)

Rows     == [pk : Nat, of : Nat]
Placed   == [pk : Nat, of : Nat, at : Nat]
Copies   == [n : Nat, scope : SUBSET Purge!Tables, log : SUBSET Placed, ack : SUBSET Placed,
             missing : SUBSET Rows, torn : BOOLEAN, used : BOOLEAN]
Reads    == [table : Purge!Tables, skip : Nat, scope : SUBSET Purge!Tables,
             rows : [Purge!Tables -> SUBSET Placed], missing : SUBSET Rows, torn : BOOLEAN]
Purging  == [at : {"recount", "delete"}, a : Copies, scope : SUBSET Purge!Tables]
Restores == [at : {"insert"}, a : Copies]
Over     == [at : {"done", "refused"}]

\* A purge or a restore has an archive at hand; a restore is about to insert.
Holds(c)   == purgeCall[c] \in Purging \cup Restores
Inserts(c) == purgeCall[c] \in Restores

PurgeTypes ==
  /\ log \subseteq Rows /\ flight \subseteq Rows /\ IsFiniteSet(log)
  /\ pk \in Nat /\ ack \in [PurgeKeys -> Nat] /\ version \in Nat /\ amiss \in BOOLEAN
  /\ archives \subseteq Copies /\ IsFiniteSet(archives)
  /\ archiving \in Reads \cup {Purge!NoBackup}
  /\ purgeCall \in [PurgeCalls -> {Purge!Idle} \cup Over \cup Purging \cup Restores]

\* What was read of the log: no row that is still under way, and no number to come.
Sound(L) ==
  /\ IsFiniteSet(L) /\ \E n \in Nat : \A s \in L : s.at <= n
  /\ \A s \in L : 0 < s.at /\ s.pk <= pk /\ s.of <= pk
  /\ \A r \in flight, s \in L : r.of # s.of

\* A row that is neither among what was read nor among what may be missing has a
\* higher PK than all that was read; no row was read twice, unless pages were torn.
Whole(L, missing, torn) ==
  /\ \A r \in log \cup flight : r \in Purge!RowsOf(L) \cup missing \/ \A s \in L : s.pk < r.pk
  /\ ~amiss /\ ~torn => \A r, s \in L : r.of = s.of => r = s

Known(a) ==
  /\ Sound(a.log) /\ Whole(a.log, a.missing, a.torn)
  /\ a.log # {} => "log" \in a.scope

\* The log is read, or being read page by page.
PartRead(b) ==
  /\ Sound(b.rows["log"]) /\ (b.rows["log"] # {} => "log" \in b.scope)
  /\ b.table = "log" => "log" \in b.scope
  /\ b.table = "ack" => Whole(b.rows["log"], b.missing, b.torn)

RowsAreNumbered ==
  /\ \A r \in log \cup flight : 0 < r.pk /\ r.pk <= pk /\ r.of <= pk
  /\ \A r \in flight, s \in log : r.of # s.of
  /\ \A r, s \in flight : r.of = s.of => r = s
ArchivesAreKnown ==
  /\ \A a \in archives : Known(a)
  /\ archiving # Purge!NoBackup => PartRead(archiving)
  /\ \A c \in PurgeCalls : Holds(c) => Known(purgeCall[c].a)
  /\ \A c \in PurgeCalls : purgeCall[c] \in Purging => purgeCall[c].scope \subseteq purgeCall[c].a.scope
RowsAreOnce ==
  /\ \A r, s \in log : r.of = s.of => r = s
  /\ \A c \in PurgeCalls : Inserts(c) =>
       ~purgeCall[c].a.torn /\ \A r \in log, s \in purgeCall[c].a.log : r.of # s.of
  /\ \A c, d \in PurgeCalls : Inserts(c) /\ Inserts(d) => c = d

PurgeInv ==
  /\ PurgeTypes /\ RowsAreNumbered /\ ArchivesAreKnown
  /\ ~amiss => RowsAreOnce
  /\ Purge!NothingLost

\* The counts of the component are those of this module.
LEMMA RowsAreCounted == \A S : Purge!Cardinality(S) = Cardinality(S)
BY DEF Purge!Cardinality, Cardinality

LEMMA PurgeKinds ==
  /\ \A x \in Purging \cup Restores : x \notin Over /\ x # Purge!Idle /\ x.a \in Copies
  /\ \A x \in Restores : x \notin Purging
<1>1. Purge!Idle.at = "idle"
  BY DEF Purge!Idle
<1>2. \A x \in Purging : x.at \in {"recount", "delete"} /\ x.a \in Copies
  BY DEF Purging
<1>3. \A x \in Restores : x.at = "insert" /\ x.a \in Copies
  BY DEF Restores
<1>4. \A x \in Over : x.at \in {"done", "refused"}
  BY DEF Over
<1> QED BY <1>1, <1>2, <1>3, <1>4

LEMMA PurgeInvInit == ASSUME Purge!Init PROVE PurgeInv
<1>1. /\ log = {} /\ flight = {} /\ pk = 0 /\ ack = [k \in PurgeKeys |-> 0] /\ version = 0
      /\ archiving = Purge!NoBackup /\ archives = {}
      /\ purgeCall = [c \in PurgeCalls |-> Purge!Idle] /\ lost = {} /\ amiss = FALSE
  BY DEF Purge!Init
<1>2. PurgeTypes
  BY <1>1, FS_EmptySet DEF PurgeTypes
<1>3. \A c \in PurgeCalls : ~Holds(c) /\ purgeCall[c] \notin Purging /\ ~Inserts(c)
  BY <1>1, PurgeKinds DEF Holds, Inserts
<1> QED BY <1>1, <1>2, <1>3 DEF PurgeInv, RowsAreNumbered, ArchivesAreKnown, RowsAreOnce, Purge!NothingLost

\* What makes an archive known: new rows come after it, new numbers after all.
Grows ==
  /\ pk' \in Nat /\ pk <= pk' /\ (amiss => amiss')
  /\ \A r \in log' \cup flight' : r \in log \cup flight \/ pk < r.pk
  /\ \A r \in flight' : r \in flight \/ pk < r.of

LEMMA SoundStays ==
  ASSUME PurgeTypes, PurgeTypes', NEW L \in SUBSET Placed, Sound(L), Grows
  PROVE  Sound(L)'
<1>1. /\ pk \in Nat /\ pk' \in Nat /\ pk <= pk'
      /\ \A s \in L : s.pk \in Nat /\ s.of \in Nat
  BY DEF PurgeTypes, Placed, Grows
<1>2. \A s \in L : s.pk <= pk' /\ s.of <= pk'
  BY <1>1 DEF Sound
<1>3. ASSUME NEW r \in flight', NEW s \in L
      PROVE  r.of # s.of
  <2>1. CASE r \in flight
    BY <2>1 DEF Sound
  <2>2. CASE pk < r.of
    <3>1. s.of <= pk /\ r.of \in Nat
      BY <1>3 DEF Sound, PurgeTypes, Rows
    <3> QED BY <2>2, <3>1, <1>1
  <2> QED BY <2>1, <2>2, <1>3 DEF Grows
<1> QED BY <1>2, <1>3 DEF Sound

LEMMA WholeStays ==
  ASSUME PurgeTypes, PurgeTypes', NEW L \in SUBSET Placed, NEW missing, NEW torn \in BOOLEAN,
         Sound(L), Whole(L, missing, torn), Grows
  PROVE  Whole(L, missing, torn)'
<1>1. ASSUME NEW r \in log' \cup flight'
      PROVE  r \in Purge!RowsOf(L) \cup missing \/ \A s \in L : s.pk < r.pk
  <2>1. CASE r \in log \cup flight
    BY <2>1 DEF Whole
  <2>2. CASE pk < r.pk
    <3>1. r.pk \in Nat /\ pk \in Nat /\ \A s \in L : s.pk \in Nat /\ s.pk <= pk
      BY <1>1 DEF Sound, PurgeTypes, Rows, Placed
    <3> QED BY <2>2, <3>1
  <2> QED BY <2>1, <2>2, <1>1 DEF Grows
<1>2. Purge!RowsOf(L)' = Purge!RowsOf(L)
  BY DEF Purge!RowsOf
<1>3. ~amiss' => ~amiss
  BY DEF Grows
<1> QED BY <1>1, <1>2, <1>3 DEF Whole

LEMMA KnownStays ==
  ASSUME PurgeTypes, PurgeTypes', NEW a \in Copies, Known(a), Grows
  PROVE  Known(a)'
<1>1. a.log \in SUBSET Placed /\ a.torn \in BOOLEAN
  BY DEF Copies
<1>2. Sound(a.log)'
  BY <1>1, SoundStays DEF Known
<1>3. Whole(a.log, a.missing, a.torn)'
  BY <1>1, WholeStays DEF Known
<1> QED BY <1>2, <1>3 DEF Known

LEMMA PartStays ==
  ASSUME PurgeTypes, PurgeTypes', NEW b \in Reads, PartRead(b), Grows
  PROVE  PartRead(b)'
<1> DEFINE L == b.rows["log"]
<1>1. L \in SUBSET Placed /\ b.torn \in BOOLEAN
  BY DEF Reads, Purge!Tables
<1> HIDE DEF L
<1>2. Sound(L) /\ (b.table = "ack" => Whole(L, b.missing, b.torn))
  BY DEF PartRead, L
<1>3. Sound(L)'
  BY <1>1, <1>2, SoundStays
<1>4. b.table = "ack" => Whole(L, b.missing, b.torn)'
  BY <1>1, <1>2, WholeStays
<1> QED BY <1>3, <1>4 DEF PartRead, L

\* The rows of the log and their places.
LEMMA PlacesAre ==
  ASSUME NEW T \in SUBSET Rows, IsFiniteSet(T)
  PROVE  LET at(r) == Purge!Cardinality({s \in T : s.pk <= r.pk})
             C == {[pk |-> r.pk, of |-> r.of, at |-> at(r)] : r \in T}
         IN /\ C \in SUBSET Placed /\ IsFiniteSet(C) /\ Purge!RowsOf(C) = T
            /\ \A c \in C : 0 < c.at /\ c.at <= Cardinality(T)
            /\ \A c \in C : \E r \in T : c = [pk |-> r.pk, of |-> r.of, at |-> at(r)]
<1> DEFINE at(r) == Purge!Cardinality({s \in T : s.pk <= r.pk})
           copy(r) == [pk |-> r.pk, of |-> r.of, at |-> at(r)]
           C == {copy(r) : r \in T}
<1>1. ASSUME NEW r \in T PROVE at(r) \in Nat /\ 0 < at(r) /\ at(r) <= Cardinality(T)
  <2> DEFINE S == {s \in T : s.pk <= r.pk}
  <2>1. IsFiniteSet(S) /\ Cardinality(S) <= Cardinality(T) /\ Cardinality(T) \in Nat
    BY FS_Subset, FS_CardinalityType
  <2>2. r \in S
    BY <1>1 DEF Rows
  <2>3. Cardinality(S) \in Nat /\ Cardinality(S) # 0
    BY <2>1, <2>2, FS_CardinalityType, FS_EmptySet
  <2>4. at(r) = Cardinality(S)
    BY RowsAreCounted
  <2> HIDE DEF S
  <2> QED BY <2>1, <2>3, <2>4
<1> HIDE DEF at
<1>2. ASSUME NEW r \in T
      PROVE  /\ copy(r) \in Placed /\ copy(r).at = at(r)
             /\ r = [pk |-> copy(r).pk, of |-> copy(r).of]
  BY <1>1, <1>2 DEF Placed, Rows
<1>3. IsFiniteSet(C)
  <2> DEFINE f == [r \in T |-> copy(r)]
  <2>1. f \in Surjection(T, C)
    BY DEF Surjection
  <2> QED BY <2>1, FS_Surjection
<1>4. Purge!RowsOf(C) = T
  <2>1. ASSUME NEW q \in Purge!RowsOf(C) PROVE q \in T
    <3>1. PICK c \in C : q = [pk |-> c.pk, of |-> c.of]
      BY <2>1 DEF Purge!RowsOf
    <3>2. PICK r \in T : c = copy(r)
      BY <3>1
    <3> HIDE DEF copy
    <3> QED BY <1>2, <3>1, <3>2
  <2>2. ASSUME NEW r \in T PROVE r \in Purge!RowsOf(C)
    BY <1>2, <2>2 DEF Purge!RowsOf
  <2> QED BY <2>1, <2>2
<1>5. \A c \in C : c \in Placed /\ 0 < c.at /\ c.at <= Cardinality(T)
  BY <1>1, <1>2
<1> QED BY <1>3, <1>4, <1>5 DEF at

LEMMA CopiedLog ==
  ASSUME PurgeInv
  PROVE  LET C == Purge!Copied("log") IN
         /\ C \in SUBSET Placed /\ Sound(C) /\ Whole(C, flight, FALSE)
<1> DEFINE at(r) == Purge!Cardinality({s \in log : s.pk <= r.pk})
           copy(r) == [pk |-> r.pk, of |-> r.of, at |-> at(r)]
           C == {copy(r) : r \in log}
<1>1. log \in SUBSET Rows /\ IsFiniteSet(log) /\ Cardinality(log) \in Nat
  BY FS_CardinalityType DEF PurgeInv, PurgeTypes
<1>2. /\ C \in SUBSET Placed /\ IsFiniteSet(C) /\ Purge!RowsOf(C) = log
      /\ \A c \in C : 0 < c.at /\ c.at <= Cardinality(log)
  BY <1>1, PlacesAre
<1>3. Purge!Copied("log") = C
  BY DEF Purge!Copied, Purge!Content
<1>4. ASSUME NEW c \in C PROVE \E r \in log : c = copy(r) /\ c.pk = r.pk /\ c.of = r.of
  <2>1. PICK r \in log : c = copy(r)
    BY <1>4
  <2> HIDE DEF at
  <2>2. c.pk = r.pk /\ c.of = r.of
    BY <2>1
  <2> QED BY <2>1, <2>2
<1> HIDE DEF at
<1>5. ASSUME NEW c \in C PROVE c.pk <= pk /\ c.of <= pk
  <2>1. PICK r \in log : c.pk = r.pk /\ c.of = r.of
    BY <1>4
  <2> QED BY <2>1 DEF PurgeInv, RowsAreNumbered
<1>6. ASSUME NEW r \in flight, NEW c \in C PROVE r.of # c.of
  <2>1. PICK q \in log : c.of = q.of
    BY <1>4
  <2> QED BY <2>1 DEF PurgeInv, RowsAreNumbered
<1>7. ASSUME ~amiss, NEW c \in C, NEW d \in C, c.of = d.of PROVE c = d
  <2>1. PICK r \in log : c = copy(r) /\ c.of = r.of
    BY <1>4, <1>7
  <2>2. PICK q \in log : d = copy(q) /\ d.of = q.of
    BY <1>4, <1>7
  <2>3. r = q
    BY <1>7, <2>1, <2>2 DEF PurgeInv, RowsAreOnce
  <2> QED BY <2>1, <2>2, <2>3
<1> HIDE DEF C
<1> QED BY <1>1, <1>2, <1>3, <1>5, <1>6, <1>7 DEF Sound, Whole

LEMMA CopiedAck == ASSUME PurgeInv PROVE Purge!Copied("ack") \in SUBSET Placed
<1> DEFINE T == {[pk |-> k, of |-> ack[k]] : k \in Purge!Present(ack)}
<1>1. PurgeKeys \in SUBSET Nat /\ IsFiniteSet(PurgeKeys) /\ ack \in [PurgeKeys -> Nat]
  BY PurgeAssumption DEF PurgeInv, PurgeTypes
<1>2. Purge!Present(ack) \in SUBSET PurgeKeys /\ IsFiniteSet(Purge!Present(ack))
  BY <1>1, FS_Subset DEF Purge!Present
<1>3. T \in SUBSET Rows
  <2>1. ASSUME NEW k \in Purge!Present(ack) PROVE [pk |-> k, of |-> ack[k]] \in Rows
    <3>1. k \in Nat /\ ack[k] \in Nat
      BY <1>1, <1>2
    <3> QED BY <3>1 DEF Rows
  <2> QED BY <2>1
<1>4. IsFiniteSet(T)
  <2> DEFINE f == [k \in Purge!Present(ack) |-> [pk |-> k, of |-> ack[k]]]
  <2>1. f \in Surjection(Purge!Present(ack), T)
    BY DEF Surjection
  <2> QED BY <2>1, <1>2, FS_Surjection
<1> DEFINE C == {[pk |-> r.pk, of |-> r.of, at |-> Purge!Cardinality({s \in T : s.pk <= r.pk})] : r \in T}
<1>5. Purge!Copied("ack") = C
  BY DEF Purge!Copied, Purge!Content
<1> HIDE DEF T
<1> QED BY <1>3, <1>4, <1>5, PlacesAre

\* Archives with the same rows are known together.
LEMMA SameRows ==
  ASSUME NEW a, NEW b, a.log = b.log, a.missing = b.missing, a.torn = b.torn, a.scope = b.scope,
         Known(a)
  PROVE  Known(b)
BY DEF Known

\* What was read so far stays known when only rows come and go.
LEMMA ReadingStays ==
  ASSUME PurgeInv, PurgeTypes', Grows, archiving' = archiving, archiving' # Purge!NoBackup
  PROVE  PartRead(archiving)'
<1>1. PICK b : b = archiving
  OBVIOUS
<1>2. b \in Reads /\ PartRead(b)
  BY <1>1 DEF PurgeInv, PurgeTypes, ArchivesAreKnown
<1>3. PartRead(b)'
  BY <1>2, PartStays DEF PurgeInv
<1> QED BY <1>1, <1>3 DEF PartRead

\* The archives at hand stay known when only rows come and go.
LEMMA ArchivesStayKnown ==
  ASSUME PurgeInv, PurgeTypes', Grows, UNCHANGED <<archives, archiving, purgeCall>>
  PROVE  ArchivesAreKnown'
<1>1. ASSUME NEW a \in archives' PROVE Known(a)'
  <2>1. a \in Copies /\ Known(a)
    BY <1>1 DEF PurgeInv, PurgeTypes, ArchivesAreKnown
  <2> QED BY <2>1, KnownStays DEF PurgeInv
<1>2. archiving' # Purge!NoBackup => PartRead(archiving)'
  BY ReadingStays
<1>3. ASSUME NEW c \in PurgeCalls, Holds(c)' PROVE Known(purgeCall[c].a)'
  <2>1. Holds(c) /\ purgeCall' = purgeCall
    BY <1>3 DEF Holds, Purging, Restores, Copies, Placed, Rows, Purge!Tables
  <2>2. PICK a : a = purgeCall[c].a
    OBVIOUS
  <2>3. a \in Copies /\ Known(a)
    BY <2>1, <2>2, PurgeKinds DEF PurgeInv, ArchivesAreKnown, Holds
  <2>4. Known(a)'
    BY <2>3, KnownStays DEF PurgeInv
  <2> QED BY <2>1, <2>2, <2>4 DEF Known
<1>4. \A c \in PurgeCalls :
        purgeCall'[c] \in Purging => purgeCall'[c].scope \subseteq purgeCall'[c].a.scope
  BY DEF PurgeInv, ArchivesAreKnown
<1> QED BY <1>1, <1>2, <1>3, <1>4 DEF ArchivesAreKnown, Holds, Purging, Restores, Copies, Placed, Rows, Purge!Tables

\* A call that has changed, the others as they were.
LEMMA CallIs ==
  ASSUME PurgeTypes, NEW c \in PurgeCalls, NEW y, purgeCall' = [purgeCall EXCEPT ![c] = y]
  PROVE  /\ purgeCall'[c] = y
         /\ \A d \in PurgeCalls \ {c} :
              purgeCall'[d] = purgeCall[d] /\ (Holds(d)' <=> Holds(d)) /\ (Inserts(d)' <=> Inserts(d))
         /\ Holds(c)' <=> y \in Purging \cup Restores
         /\ Inserts(c)' <=> y \in Restores
<1>1. purgeCall'[c] = y /\ \A d \in PurgeCalls \ {c} : purgeCall'[d] = purgeCall[d]
  BY DEF PurgeTypes
<1> QED BY <1>1 DEF Holds, Inserts, Purging, Restores, Copies, Placed, Rows, Purge!Tables

\* A call that ends, or takes up an archive that is known.
LEMMA CallKeepsKnown ==
  ASSUME PurgeInv, NEW c \in PurgeCalls, NEW y, purgeCall' = [purgeCall EXCEPT ![c] = y],
         y \in Over \cup Purging \cup Restores,
         y \in Purging \cup Restores => y.a \in Copies /\ Known(y.a),
         y \in Purging => y.scope \subseteq y.a.scope,
         PurgeTypes', Grows, archiving' = archiving,
         \A a \in archives' : a \in Copies /\ Known(a)
  PROVE  ArchivesAreKnown'
<1>1. /\ purgeCall'[c] = y
      /\ \A d \in PurgeCalls \ {c} :
           purgeCall'[d] = purgeCall[d] /\ (Holds(d)' <=> Holds(d)) /\ (Inserts(d)' <=> Inserts(d))
      /\ Holds(c)' <=> y \in Purging \cup Restores
  BY CallIs DEF PurgeInv
<1>2. ASSUME NEW a \in Copies, Known(a) PROVE Known(a)'
  BY <1>2, KnownStays DEF PurgeInv
<1>3. \A a \in archives' : Known(a)'
  BY <1>2
<1>4. archiving' # Purge!NoBackup => PartRead(archiving)'
  BY ReadingStays
<1>5. ASSUME NEW d \in PurgeCalls, Holds(d)' PROVE Known(purgeCall[d].a)'
  <2>1. PICK a : a = purgeCall'[d].a
    OBVIOUS
  <2>2. a \in Copies /\ Known(a)
    <3>1. CASE d = c
      BY <2>1, <3>1, <1>1, <1>5
    <3>2. CASE d # c
      BY <2>1, <3>2, <1>1, <1>5, PurgeKinds DEF PurgeInv, ArchivesAreKnown, Holds
    <3> QED BY <3>1, <3>2
  <2> QED BY <2>1, <2>2, <1>2 DEF Known
<1>6. \A d \in PurgeCalls :
        purgeCall'[d] \in Purging => purgeCall'[d].scope \subseteq purgeCall'[d].a.scope
  BY <1>1 DEF PurgeInv, ArchivesAreKnown
<1> QED BY <1>3, <1>4, <1>5, <1>6 DEF ArchivesAreKnown, Holds, Purging, Restores, Copies, Placed, Rows, Purge!Tables

-----------------------------------------------------------------------------
(* Traffic and backups.                                                    *)

LEMMA InsertBeginsKeeps == ASSUME PurgeInv, Purge!InsertBegins PROVE PurgeInv'
<1> DEFINE r == [pk |-> pk + 1, of |-> pk + 1]
<1>1. /\ pk' = pk + 1 /\ flight' = flight \cup {r} /\ pk \in Nat
      /\ UNCHANGED <<log, ack, version, archiving, archives, purgeCall, lost, amiss>>
  BY DEF Purge!InsertBegins, PurgeInv, PurgeTypes
<1>2. r \in Rows /\ r.pk = pk + 1 /\ r.of = pk + 1
  BY <1>1 DEF Rows
<1> HIDE DEF r
<1>3. PurgeTypes'
  BY <1>1, <1>2 DEF PurgeInv, PurgeTypes
<1>4. Grows
  BY <1>1, <1>2 DEF Grows
<1>5. RowsAreNumbered'
  <2>1. \A q \in log \cup flight : q.pk \in Nat /\ q.of \in Nat /\ 0 < q.pk /\ q.pk <= pk /\ q.of <= pk
    BY DEF PurgeInv, PurgeTypes, RowsAreNumbered, Rows
  <2>2. \A q \in log' \cup flight' : 0 < q.pk /\ q.pk <= pk' /\ q.of <= pk'
    BY <1>1, <1>2, <2>1
  <2>3. \A q \in flight', s \in log' : q.of # s.of
    BY <1>1, <1>2, <2>1 DEF PurgeInv, RowsAreNumbered
  <2>4. \A q, s \in flight' : q.of = s.of => q = s
    BY <1>1, <1>2, <2>1 DEF PurgeInv, RowsAreNumbered
  <2> QED BY <2>2, <2>3, <2>4 DEF RowsAreNumbered
<1>6. ArchivesAreKnown'
  BY <1>1, <1>3, <1>4, ArchivesStayKnown
<1>7. ~amiss' => RowsAreOnce'
  BY <1>1 DEF PurgeInv, RowsAreOnce, Inserts, Restores, Copies, Placed, Rows, Purge!Tables
<1> QED BY <1>1, <1>3, <1>5, <1>6, <1>7 DEF PurgeInv, Purge!NothingLost

LEMMA InsertCommitsKeeps ==
  ASSUME PurgeInv, NEW r \in flight, Purge!InsertCommits(r)
  PROVE  PurgeInv'
<1>1. /\ flight' = flight \ {r} /\ log' = log \cup {r}
      /\ UNCHANGED <<pk, ack, version, archiving, archives, purgeCall, lost, amiss>>
  BY DEF Purge!InsertCommits
<1>2. PurgeTypes'
  BY <1>1, FS_AddElement DEF PurgeInv, PurgeTypes
<1>3. Grows
  BY <1>1 DEF Grows, PurgeInv, PurgeTypes
<1>4. RowsAreNumbered'
  BY <1>1 DEF PurgeInv, RowsAreNumbered
<1>5. ArchivesAreKnown'
  BY <1>1, <1>2, <1>3, ArchivesStayKnown
<1>6. ASSUME ~amiss' PROVE RowsAreOnce'
  <2>1. RowsAreOnce
    BY <1>1, <1>6 DEF PurgeInv
  <2>2. \A c \in PurgeCalls : Inserts(c)' <=> Inserts(c)
    BY <1>1 DEF Inserts, Restores, Copies, Placed, Rows, Purge!Tables
  <2>3. \A q, s \in log' : q.of = s.of => q = s
    BY <1>1, <2>1 DEF RowsAreOnce, PurgeInv, RowsAreNumbered
  <2>4. ASSUME NEW c \in PurgeCalls, Inserts(c), NEW q \in log', NEW s \in purgeCall[c].a.log
        PROVE  q.of # s.of
    <3>1. CASE q \in log
      BY <2>1, <2>4, <3>1 DEF RowsAreOnce
    <3>2. CASE q = r
      BY <2>4, <3>2 DEF PurgeInv, ArchivesAreKnown, Known, Sound, Holds, Inserts
    <3> QED BY <2>4, <3>1, <3>2, <1>1
  <2> QED BY <1>1, <2>1, <2>2, <2>3, <2>4 DEF RowsAreOnce
<1> QED BY <1>1, <1>2, <1>4, <1>5, <1>6 DEF PurgeInv, Purge!NothingLost

LEMMA AcknowledgeKeeps ==
  ASSUME PurgeInv, NEW k \in PurgeKeys, NEW present \in BOOLEAN, Purge!Acknowledge(k, present)
  PROVE  PurgeInv'
<1>1. /\ version' = version + 1 /\ ack' = [ack EXCEPT ![k] = IF present THEN version' ELSE 0]
      /\ UNCHANGED <<log, flight, pk, archiving, archives, purgeCall, lost, amiss>>
  BY DEF Purge!Acknowledge
<1>2. PurgeTypes'
  BY <1>1 DEF PurgeInv, PurgeTypes
<1>3. Grows
  BY <1>1 DEF Grows, PurgeInv, PurgeTypes
<1>4. ArchivesAreKnown'
  BY <1>1, <1>2, <1>3, ArchivesStayKnown
<1>5. RowsAreNumbered' /\ (~amiss' => RowsAreOnce')
  BY <1>1 DEF PurgeInv, RowsAreNumbered, RowsAreOnce, Inserts, Restores, Copies, Placed, Rows, Purge!Tables
<1> QED BY <1>1, <1>2, <1>4, <1>5 DEF PurgeInv, Purge!NothingLost

\* Archives and reads that come, when nothing else happens.
LEMMA ArchivesCome ==
  ASSUME PurgeInv, UNCHANGED <<log, flight, pk, ack, version, purgeCall, lost, amiss>>,
         archives' \subseteq Copies /\ IsFiniteSet(archives'),
         archiving' \in Reads \cup {Purge!NoBackup},
         \A a \in archives' : Known(a),
         archiving' # Purge!NoBackup => PartRead(archiving')
  PROVE  PurgeInv'
<1>1. PurgeTypes'
  BY DEF PurgeInv, PurgeTypes
<1>2. Grows
  BY DEF Grows, PurgeInv, PurgeTypes
<1>3. ASSUME NEW a \in Copies, Known(a) PROVE Known(a)'
  BY <1>1, <1>2, <1>3, KnownStays DEF PurgeInv
<1>4. archiving' # Purge!NoBackup => PartRead(archiving)'
  <2> SUFFICES ASSUME archiving' # Purge!NoBackup PROVE PartRead(archiving)'
    OBVIOUS
  <2>1. PICK b : b = archiving'
    OBVIOUS
  <2>2. b \in Reads /\ PartRead(b)
    BY <2>1
  <2>3. PartRead(b)'
    BY <1>1, <1>2, <2>2, PartStays DEF PurgeInv
  <2> QED BY <2>1, <2>3 DEF PartRead
<1>5. ASSUME NEW c \in PurgeCalls, Holds(c)' PROVE Known(purgeCall[c].a)'
  <2>1. Holds(c) /\ purgeCall' = purgeCall
    BY <1>5 DEF Holds, Purging, Restores, Copies, Placed, Rows, Purge!Tables
  <2>2. PICK a : a = purgeCall[c].a
    OBVIOUS
  <2>3. a \in Copies /\ Known(a)
    BY <2>1, <2>2, PurgeKinds DEF PurgeInv, ArchivesAreKnown, Holds
  <2> QED BY <1>3, <2>1, <2>2, <2>3 DEF Known
<1>6. ArchivesAreKnown'
  BY <1>3, <1>4, <1>5 DEF PurgeInv, ArchivesAreKnown, Purging, Copies, Placed, Rows, Purge!Tables
<1>7. RowsAreNumbered' /\ (~amiss' => RowsAreOnce')
  BY DEF PurgeInv, RowsAreNumbered, RowsAreOnce, Inserts, Restores, Copies, Placed, Rows, Purge!Tables
<1> QED BY <1>1, <1>6, <1>7 DEF PurgeInv, Purge!NothingLost

\* An archive of what was read is known.
LEMMA ArchiveIs ==
  ASSUME PurgeInv, NEW scope \in SUBSET Purge!Tables, NEW rows \in [Purge!Tables -> SUBSET Placed],
         NEW missing \in SUBSET Rows, NEW torn \in BOOLEAN,
         NEW a, a = Purge!Archive(scope, rows, missing, torn)
  PROVE  /\ a \in Copies /\ a.missing = missing /\ a.scope = scope /\ a.torn = torn
         /\ a.log = rows["log"]
<1>1. Purge!Cardinality(archives) + 1 \in Nat
  <2>1. Cardinality(archives) \in Nat
    BY FS_CardinalityType DEF PurgeInv, PurgeTypes
  <2> QED BY <2>1, RowsAreCounted
<1>2. rows["log"] \in SUBSET Placed /\ rows["ack"] \in SUBSET Placed
  BY DEF Purge!Tables
<1> QED BY <1>1, <1>2 DEF Purge!Archive, Copies

\* A new archive, and nothing else.
LEMMA ArchiveComes ==
  ASSUME PurgeInv, NEW a \in Copies, Known(a), archives' = archives \cup {a},
         archiving' \in {archiving, Purge!NoBackup},
         UNCHANGED <<log, flight, pk, ack, version, purgeCall, lost, amiss>>
  PROVE  PurgeInv'
<1>1. archives' \subseteq Copies /\ IsFiniteSet(archives')
  BY FS_AddElement DEF PurgeInv, PurgeTypes
<1>2. \A b \in archives' : Known(b)
  BY DEF PurgeInv, ArchivesAreKnown
<1>3. /\ archiving' \in Reads \cup {Purge!NoBackup}
      /\ archiving' # Purge!NoBackup => PartRead(archiving')
  BY DEF PurgeInv, PurgeTypes, ArchivesAreKnown
<1> QED BY <1>1, <1>2, <1>3, ArchivesCome

LEMMA SnapshotKeeps ==
  ASSUME PurgeInv, NEW scope \in SUBSET Purge!Tables \ {{}}, Purge!Backup(scope)
  PROVE  PurgeInv'
<1> DEFINE rows == [t \in Purge!Tables |-> IF t \in scope THEN Purge!Copied(t) ELSE {}]
           a == Purge!Archive(scope, rows, flight, FALSE)
<1>1. rows \in [Purge!Tables -> SUBSET Placed]
  BY CopiedLog, CopiedAck DEF Purge!Tables
<1>2. rows["log"] = (IF "log" \in scope THEN Purge!Copied("log") ELSE {})
  BY DEF Purge!Tables
<1> HIDE DEF rows
<1>3. /\ a \in Copies /\ a.missing = flight /\ a.scope = scope /\ a.torn = FALSE
      /\ a.log = rows["log"]
  <2>1. flight \in SUBSET Rows /\ scope \in SUBSET Purge!Tables
    BY DEF PurgeInv, PurgeTypes
  <2>2. PICK torn \in BOOLEAN : torn = FALSE
    OBVIOUS
  <2>3. a = Purge!Archive(scope, rows, flight, torn)
    BY <2>2
  <2> HIDE DEF a
  <2> QED BY <1>1, <2>1, <2>2, <2>3, ArchiveIs
<1>4. archives' = archives \cup {a} /\ archiving' = archiving
      /\ UNCHANGED <<log, flight, pk, ack, version, purgeCall, lost, amiss>>
  BY DEF Purge!Backup, rows
<1> HIDE DEF a
<1>5. Known(a)
  <2>1. CASE "log" \in scope
    BY <1>2, <1>3, <2>1, CopiedLog DEF Known
  <2>2. CASE "log" \notin scope
    BY <1>2, <1>3, <2>2, FS_EmptySet DEF Known, Sound, Whole
  <2> QED BY <2>1, <2>2
<1> QED BY <1>3, <1>4, <1>5, ArchiveComes

\* A read that begins, or goes on.
LEMMA ReadGoesOn ==
  ASSUME PurgeInv, NEW b \in Reads, PartRead(b), archiving' = b,
         UNCHANGED <<log, flight, pk, ack, version, archives, purgeCall, lost, amiss>>
  PROVE  PurgeInv'
<1>1. archives' \subseteq Copies /\ IsFiniteSet(archives') /\ \A a \in archives' : Known(a)
  BY DEF PurgeInv, PurgeTypes, ArchivesAreKnown
<1>2. archiving' \in Reads \cup {Purge!NoBackup} /\ PartRead(archiving')
  OBVIOUS
<1> QED BY <1>1, <1>2, ArchivesCome

LEMMA FallBackKeeps ==
  ASSUME PurgeInv, NEW scope \in SUBSET Purge!Tables \ {{}}, Purge!FallBack(scope)
  PROVE  PurgeInv'
<1> DEFINE b == [table |-> IF "log" \in scope THEN "log" ELSE "ack", skip |-> 0, scope |-> scope,
                 rows |-> [t \in Purge!Tables |-> {}], missing |-> {}, torn |-> FALSE]
<1>1. b \in Reads
  BY DEF Reads, Purge!Tables
<1>2. b.rows["log"] = {} /\ (b.table = "log" => "log" \in b.scope)
  BY DEF Purge!Tables
<1>3. archiving' = b /\ UNCHANGED <<log, flight, pk, ack, version, archives, purgeCall, lost, amiss>>
  BY DEF Purge!FallBack
<1> HIDE DEF b
<1>4. PartRead(b)
  BY <1>2, FS_EmptySet DEF PartRead, Sound, Whole
<1> QED BY <1>1, <1>3, <1>4, ReadGoesOn

\* What is read with the page at the offset.
LEMMA SoFarIs ==
  ASSUME PurgeInv, archiving # Purge!NoBackup
  PROVE  /\ archiving \in Reads /\ PartRead(archiving)
         /\ Purge!SoFar \in [Purge!Tables -> SUBSET Placed] /\ Sound(Purge!SoFar["log"])
         /\ archiving.table # "log" => Purge!SoFar["log"] = archiving.rows["log"]
<1> DEFINE b == archiving
<1>1. b \in Reads /\ PartRead(b) /\ b.table \in Purge!Tables /\ b.rows \in [Purge!Tables -> SUBSET Placed]
  BY DEF PurgeInv, PurgeTypes, ArchivesAreKnown, Reads
<1>2. Purge!Page \subseteq Purge!Copied(b.table)
  BY DEF Purge!Page
<1>3. Purge!Page \in SUBSET Placed
  BY <1>1, <1>2, CopiedLog, CopiedAck DEF Purge!Tables
<1> DEFINE now == [b.rows EXCEPT ![b.table] = @ \cup Purge!Page]
<1>4. now \in [Purge!Tables -> SUBSET Placed] /\ Purge!SoFar = now
  BY <1>1, <1>3 DEF Purge!SoFar
<1>5. "log" \in Purge!Tables
  BY DEF Purge!Tables
<1>6. now["log"] = (IF b.table = "log" THEN b.rows["log"] \cup Purge!Page ELSE b.rows["log"])
  BY <1>1, <1>5
<1> HIDE DEF now
<1>7. CASE b.table # "log"
  BY <1>1, <1>4, <1>6, <1>7 DEF PartRead
<1>8. CASE b.table = "log"
  <2> DEFINE L == b.rows["log"]
             P == Purge!Page
             C == Purge!Copied("log")
  <2>1. P \subseteq C /\ Sound(C) /\ Sound(L) /\ now["log"] = L \cup P
        /\ L \in SUBSET Placed /\ C \in SUBSET Placed
    BY <1>1, <1>2, <1>5, <1>6, <1>8, CopiedLog DEF PartRead
  <2> HIDE DEF L, P, C
  <2>2. IsFiniteSet(L \cup P)
    <3>1. IsFiniteSet(L) /\ IsFiniteSet(C)
      BY <2>1 DEF Sound
    <3>2. IsFiniteSet(P)
      BY <2>1, <3>1, FS_Subset
    <3> QED BY <3>1, <3>2, FS_Union
  <2>3. \E n \in Nat : \A s \in L \cup P : s.at <= n
    <3>1. PICK m \in Nat : \A s \in L : s.at <= m
      BY <2>1 DEF Sound
    <3>2. PICK k \in Nat : \A s \in C : s.at <= k
      BY <2>1 DEF Sound
    <3>3. \A s \in L \cup P : s.at \in Nat
      BY <2>1 DEF Placed
    <3>4. \A s \in L \cup P : s.at <= m + k
      BY <2>1, <3>1, <3>2, <3>3
    <3>5. m + k \in Nat
      OBVIOUS
    <3> QED BY <3>4, <3>5
  <2>4. Sound(L \cup P)
    BY <2>1, <2>2, <2>3 DEF Sound
  <2> QED BY <1>1, <1>4, <1>8, <2>1, <2>4
<1> QED BY <1>7, <1>8

LEMMA NextPageKeeps == ASSUME PurgeInv, Purge!NextPage PROVE PurgeInv'
<1>1. archiving # Purge!NoBackup
      /\ archiving' = [archiving EXCEPT !.skip = @ + PageSize, !.rows = Purge!SoFar]
      /\ UNCHANGED <<log, flight, pk, ack, version, archives, purgeCall, lost, amiss>>
  BY DEF Purge!NextPage
<1>2. /\ archiving \in Reads /\ PartRead(archiving)
      /\ Purge!SoFar \in [Purge!Tables -> SUBSET Placed] /\ Sound(Purge!SoFar["log"])
      /\ archiving.table # "log" => Purge!SoFar["log"] = archiving.rows["log"]
  BY <1>1, SoFarIs
<1> DEFINE b == [archiving EXCEPT !.skip = @ + PageSize, !.rows = Purge!SoFar]
<1>3. /\ b \in Reads /\ b.rows = Purge!SoFar /\ b.table = archiving.table /\ b.scope = archiving.scope
      /\ b.missing = archiving.missing /\ b.torn = archiving.torn
  <2>1. archiving.skip + PageSize \in Nat
    BY <1>2, PurgeAssumption DEF Reads
  <2> QED BY <1>2, <2>1 DEF Reads
<1>4. archiving' = b
  BY <1>1
<1> HIDE DEF b
<1>5. PartRead(b)
  BY <1>2, <1>3 DEF PartRead
<1> QED BY <1>1, <1>3, <1>4, <1>5, ReadGoesOn

LEMMA LastPageKeeps == ASSUME PurgeInv, Purge!LastPage PROVE PurgeInv'
<1> DEFINE isLog == archiving.table = "log"
           L == Purge!SoFar["log"]
           torn == IF isLog THEN L # Purge!Copied("log") ELSE archiving.torn
           missing == IF ~isLog THEN archiving.missing ELSE IF torn THEN log \cup flight ELSE flight
           a == Purge!Archive(archiving.scope, Purge!SoFar, missing, torn)
           b == [archiving EXCEPT !.table = "ack", !.skip = 0, !.rows = Purge!SoFar,
                                  !.missing = missing, !.torn = torn]
<1>1. /\ archiving # Purge!NoBackup
      /\ UNCHANGED <<log, flight, pk, ack, version, purgeCall, lost, amiss>>
      /\ \/ archiving' = b /\ UNCHANGED archives /\ isLog
         \/ archives' = archives \cup {a} /\ archiving' = Purge!NoBackup
  BY DEF Purge!LastPage
<1>2. /\ archiving \in Reads /\ PartRead(archiving)
      /\ Purge!SoFar \in [Purge!Tables -> SUBSET Placed] /\ Sound(L)
      /\ archiving.table # "log" => L = archiving.rows["log"]
  BY <1>1, SoFarIs
<1>3. missing \in SUBSET Rows /\ torn \in BOOLEAN /\ archiving.scope \in SUBSET Purge!Tables
      /\ archiving.table \in {"log", "ack"}
  BY <1>2 DEF PurgeInv, PurgeTypes, Reads, Purge!Tables
<1>4. Whole(L, missing, torn)
  <2>1. CASE ~isLog
    BY <1>2, <1>3, <2>1 DEF PartRead
  <2>2. CASE isLog /\ torn
    BY <2>2 DEF Whole
  <2>3. CASE isLog /\ ~torn
    <3>1. L = Purge!Copied("log") /\ missing = flight
      BY <2>3
    <3>2. Whole(L, flight, FALSE)
      BY <3>1, CopiedLog
    <3> QED BY <2>3, <3>1, <3>2 DEF Whole
  <2> QED BY <2>1, <2>2, <2>3
<1>5. L # {} => "log" \in archiving.scope
  BY <1>2 DEF PartRead
<1> HIDE DEF L, torn, missing
<1>6. CASE archiving' = b /\ UNCHANGED archives /\ isLog
  <2>1. /\ b \in Reads /\ b.rows = Purge!SoFar /\ b.table = "ack" /\ b.scope = archiving.scope
        /\ b.missing = missing /\ b.torn = torn
    BY <1>2, <1>3 DEF Reads, Purge!Tables
  <2>2. archiving' = b
    BY <1>6
  <2> HIDE DEF b
  <2>3. PartRead(b)
    BY <1>2, <1>4, <1>5, <2>1 DEF PartRead, L
  <2> QED BY <1>1, <1>6, <2>1, <2>2, <2>3, ReadGoesOn
<1>7. CASE archives' = archives \cup {a} /\ archiving' = Purge!NoBackup
  <2>1. /\ a \in Copies /\ a.missing = missing /\ a.scope = archiving.scope /\ a.torn = torn
        /\ a.log = L
    BY <1>2, <1>3, ArchiveIs DEF L
  <2> HIDE DEF a
  <2>2. Known(a)
    BY <1>2, <1>4, <1>5, <2>1 DEF Known
  <2> QED BY <1>1, <1>7, <2>1, <2>2, ArchiveComes
<1> QED BY <1>1, <1>6, <1>7

-----------------------------------------------------------------------------
(* Purges.                                                                 *)

\* An archive whose token is used up is still known.
LEMMA UsedUp ==
  ASSUME PurgeInv, NEW a \in archives,
         archives' = (archives \ {a}) \cup {[a EXCEPT !.used = TRUE]}
  PROVE  /\ archives' \subseteq Copies /\ IsFiniteSet(archives')
         /\ \A b \in archives' : Known(b)
<1> DEFINE u == [a EXCEPT !.used = TRUE]
<1>1. a \in Copies /\ Known(a)
  BY DEF PurgeInv, PurgeTypes, ArchivesAreKnown
<1>2. u \in Copies /\ u.log = a.log /\ u.missing = a.missing /\ u.torn = a.torn /\ u.scope = a.scope
  BY <1>1 DEF Copies
<1>3. Known(u)
  BY <1>1, <1>2, SameRows
<1>4. IsFiniteSet(archives \ {a})
  BY FS_RemoveElement DEF PurgeInv, PurgeTypes
<1> HIDE DEF u
<1>5. archives' = (archives \ {a}) \cup {u}
  BY DEF u
<1>6. IsFiniteSet(archives')
  <2>1. IsFiniteSet((archives \ {a}) \cup {u})
    BY <1>4, FS_AddElement
  <2> QED BY <2>1, <1>5
<1> QED BY <1>2, <1>3, <1>5, <1>6 DEF PurgeInv, PurgeTypes, ArchivesAreKnown

\* A call that only moves on, or ends.
LEMMA CallMoves ==
  ASSUME PurgeInv, NEW c \in PurgeCalls, NEW y \in Over \cup Purging,
         purgeCall' = [purgeCall EXCEPT ![c] = y],
         y \in Purging => Known(y.a) /\ y.scope \subseteq y.a.scope,
         archives' \subseteq Copies /\ IsFiniteSet(archives'), \A a \in archives' : Known(a),
         UNCHANGED <<log, flight, pk, ack, version, archiving, lost, amiss>>
  PROVE  PurgeInv'
<1>1. purgeCall' \in [PurgeCalls -> {Purge!Idle} \cup Over \cup Purging \cup Restores]
  BY DEF PurgeInv, PurgeTypes
<1>2. PurgeTypes'
  BY <1>1 DEF PurgeInv, PurgeTypes
<1>3. Grows
  BY DEF Grows, PurgeInv, PurgeTypes
<1>4. y \in Purging \cup Restores => y.a \in Copies /\ Known(y.a)
  BY PurgeKinds
<1>5. \A a \in archives' : a \in Copies /\ Known(a)
  OBVIOUS
<1>6. ArchivesAreKnown'
  BY <1>2, <1>3, <1>4, <1>5, CallKeepsKnown
<1>7. \A d \in PurgeCalls : Inserts(d)' => Inserts(d) /\ purgeCall'[d] = purgeCall[d]
  BY CallIs, PurgeKinds DEF PurgeInv
<1>8. ~amiss' => RowsAreOnce'
  BY <1>7 DEF PurgeInv, RowsAreOnce
<1> QED BY <1>2, <1>6, <1>8 DEF PurgeInv, RowsAreNumbered, Purge!NothingLost

LEMMA PurgeEnds ==
  ASSUME NEW c \in PurgeCalls, NEW how \in {"done", "refused"}, Purge!Ends(c, how)
  PROVE  \E y \in Over : purgeCall' = [purgeCall EXCEPT ![c] = y]
<1>1. [at |-> how] \in Over
  BY DEF Over
<1> QED BY <1>1 DEF Purge!Ends

LEMMA ConsumeKeeps ==
  ASSUME PurgeInv, NEW c \in PurgeCalls, NEW a \in archives, NEW scope \in SUBSET Purge!Tables,
         Purge!Consume(c, a, scope)
  PROVE  PurgeInv'
<1>1. archives' \subseteq Copies /\ IsFiniteSet(archives') /\ \A b \in archives' : Known(b)
  BY UsedUp DEF Purge!Consume
<1>2. UNCHANGED <<log, flight, pk, ack, version, archiving, lost, amiss>>
  BY DEF Purge!Consume
<1>3. CASE Purge!Ends(c, "refused")
  <2>1. PICK y \in Over : purgeCall' = [purgeCall EXCEPT ![c] = y]
    BY <1>3, PurgeEnds
  <2>2. y \notin Purging
    BY PurgeKinds
  <2> QED BY <1>1, <1>2, <2>1, <2>2, CallMoves
<1>4. CASE scope \subseteq a.scope
           /\ purgeCall' = [purgeCall EXCEPT ![c] = [at |-> "recount", a |-> a, scope |-> scope]]
  <2> DEFINE y == [at |-> "recount", a |-> a, scope |-> scope]
  <2>1. a \in Copies /\ Known(a)
    BY DEF PurgeInv, PurgeTypes, ArchivesAreKnown
  <2>2. y \in Purging /\ y.a = a /\ y.scope = scope
    BY <2>1 DEF Purging
  <2>3. purgeCall' = [purgeCall EXCEPT ![c] = y]
    BY <1>4
  <2> HIDE DEF y
  <2> QED BY <1>1, <1>2, <1>4, <2>1, <2>2, <2>3, CallMoves
<1> QED BY <1>3, <1>4 DEF Purge!Consume

\* A call at "recount" or "delete" is a purge, one at "insert" a restore.
LEMMA CallAt ==
  ASSUME PurgeTypes, NEW c \in PurgeCalls
  PROVE  /\ purgeCall[c].at \in {"recount", "delete"} => purgeCall[c] \in Purging
         /\ purgeCall[c].at = "insert" => purgeCall[c] \in Restores
<1>1. Purge!Idle.at = "idle"
  BY DEF Purge!Idle
<1>2. purgeCall[c] \in {Purge!Idle} \cup Over \cup Purging \cup Restores
  BY DEF PurgeTypes
<1>3. /\ \A x \in Over : x.at \in {"done", "refused"}
      /\ \A x \in Purging : x.at \in {"recount", "delete"}
      /\ \A x \in Restores : x.at = "insert"
  BY DEF Over, Purging, Restores
<1> QED BY <1>1, <1>2, <1>3

LEMMA RecountKeeps == ASSUME PurgeInv, NEW c \in PurgeCalls, Purge!Recount(c) PROVE PurgeInv'
<1> DEFINE x == purgeCall[c]
<1>1. /\ x \in Purging /\ Known(x.a) /\ x.scope \subseteq x.a.scope
  BY CallAt DEF Purge!Recount, PurgeInv, ArchivesAreKnown, Holds
<1>2. /\ UNCHANGED <<log, flight, pk, ack, version, archiving, lost, amiss>>
      /\ archives' \subseteq Copies /\ IsFiniteSet(archives') /\ \A b \in archives' : Known(b)
  BY DEF Purge!Recount, PurgeInv, PurgeTypes, ArchivesAreKnown
<1>3. CASE Purge!Ends(c, "refused")
  <2>1. PICK y \in Over : purgeCall' = [purgeCall EXCEPT ![c] = y]
    BY <1>3, PurgeEnds
  <2>2. y \notin Purging
    BY PurgeKinds
  <2> QED BY <1>2, <2>1, <2>2, CallMoves
<1>4. CASE Purge!Goes(c, "delete")
  <2> DEFINE y == [x EXCEPT !.at = "delete"]
  <2>1. y \in Purging /\ y.a = x.a /\ y.scope = x.scope
    BY <1>1 DEF Purging
  <2>2. purgeCall' = [purgeCall EXCEPT ![c] = y]
    BY <1>4 DEF Purge!Goes
  <2> HIDE DEF y
  <2> QED BY <1>1, <1>2, <2>1, <2>2, CallMoves
<1> QED BY <1>3, <1>4 DEF Purge!Recount

\* A set of numbers that has a bound has a highest one.
LEMMA TopIs ==
  ASSUME NEW S \in SUBSET Nat, NEW n \in Nat, \A x \in S : x <= n
  PROVE  /\ Purge!Top(S) \in Nat /\ \A x \in S : x <= Purge!Top(S)
         /\ S # {} => Purge!Top(S) \in S
         /\ S = {} => Purge!Top(S) = 0
<1>1. CASE S = {}
  BY <1>1 DEF Purge!Top
<1>2. CASE S # {}
  <2> DEFINE above == {m \in Nat : \A x \in S : x <= m}
  <2>1. above \subseteq Nat /\ above # {}
    OBVIOUS
  <2>2. PICK m \in above : \A k \in above : ~(<<k, m>> \in OpToRel(<, Nat))
    BY <2>1, NatLessThanWellFounded, WFMin
  <2>3. m \in Nat /\ \A x \in S : x <= m
    OBVIOUS
  <2>4. m \in S
    <3> SUFFICES ASSUME m \notin S PROVE FALSE
      OBVIOUS
    <3>1. \A x \in S : x # m
      OBVIOUS
    <3>2. \A x \in S : x <= m - 1 /\ m - 1 \in Nat
      BY <3>1, <2>3
    <3>3. m - 1 \in above /\ m - 1 \in Nat
      BY <3>2, <1>2
    <3>4. <<m - 1, m>> \in OpToRel(<, Nat)
      BY <3>3, <2>3 DEF OpToRel
    <3> QED BY <3>3, <3>4, <2>2
  <2>5. Purge!Top(S) \in S /\ \A x \in S : x <= Purge!Top(S)
    BY <1>2, <2>3, <2>4 DEF Purge!Top
  <2> QED BY <1>2, <2>5
<1> QED BY <1>1, <1>2

\* The high-water mark of an archive that has rows is the PK of one of them.
LEMMA HighWaterIs ==
  ASSUME NEW a, a.log \in SUBSET Placed, NEW n \in Nat, \A s \in a.log : s.pk <= n
  PROVE  IF a.log = {} THEN Purge!HighWater(a) = 0 ELSE \E s \in a.log : Purge!HighWater(a) = s.pk
<1> DEFINE S == {s.pk : s \in a.log}
<1>1. S \in SUBSET Nat /\ \A x \in S : x <= n
  BY DEF Placed
<1>2. Purge!HighWater(a) = Purge!Top(S)
  BY DEF Purge!HighWater
<1>3. /\ S # {} => Purge!Top(S) \in S
      /\ S = {} => Purge!Top(S) = 0
  BY <1>1, TopIs
<1>4. S = {} <=> a.log = {}
  OBVIOUS
<1>5. CASE a.log = {}
  BY <1>2, <1>3, <1>4, <1>5
<1>6. CASE a.log # {}
  <2>1. PICK x \in S : x = Purge!Top(S)
    BY <1>3, <1>4, <1>6
  <2>2. PICK s \in a.log : x = s.pk
    OBVIOUS
  <2> QED BY <1>2, <1>6, <2>1, <2>2
<1> QED BY <1>5, <1>6

\* What a purge deletes and its archive lacks was under way when the archive was
\* made, or there when torn pages were read, or is a row of a table that the token
\* allows to purge.
LEMMA DeletedIsKnown ==
  ASSUME PurgeInv, NEW c \in PurgeCalls, purgeCall[c] \in Purging
  PROVE  /\ \A r \in Purge!Deleted(c).log \ Purge!RowsOf(purgeCall[c].a.log) : r \in purgeCall[c].a.missing
         /\ Purge!Deleted(c).ack # {} => "ack" \in purgeCall[c].a.scope
<1> DEFINE x == purgeCall[c]
           a == x.a
<1>1. a \in Copies /\ Known(a) /\ x.scope \subseteq a.scope
  BY PurgeKinds DEF PurgeInv, ArchivesAreKnown, Holds
<1>2. /\ Purge!Deleted(c).log = (IF "log" \in x.scope THEN Purge!Bounded(a) ELSE {})
      /\ Purge!Deleted(c).ack = (IF "ack" \in x.scope THEN Purge!Present(ack) ELSE {})
  BY DEF Purge!Deleted
<1>3. /\ pk \in Nat /\ a.log \in SUBSET Placed /\ \A s \in a.log : s.pk <= pk
      /\ \A r \in log : 0 < r.pk /\ r.pk \in Nat
      /\ \A s \in a.log : s.pk \in Nat
  BY <1>1 DEF PurgeInv, PurgeTypes, RowsAreNumbered, Copies, Placed, Known, Sound, Rows
<1>4. ASSUME NEW r \in Purge!Bounded(a), r \notin Purge!RowsOf(a.log)
      PROVE  r \in a.missing
  <2>1. r \in log /\ r.pk <= Purge!HighWater(a)
    BY <1>4 DEF Purge!Bounded
  <2>2. CASE a.log = {}
    <3>1. Purge!HighWater(a) = 0
      BY <1>3, <2>2, HighWaterIs
    <3> QED BY <2>1, <3>1, <1>3
  <2>3. CASE a.log # {}
    <3>1. PICK s \in a.log : Purge!HighWater(a) = s.pk
      BY <1>3, <2>3, HighWaterIs
    <3>2. ~(s.pk < r.pk)
      BY <2>1, <3>1, <1>3
    <3>3. r \in Purge!RowsOf(a.log) \cup a.missing
      BY <1>1, <2>1, <3>2 DEF Known, Whole
    <3> QED BY <3>3, <1>4
  <2> QED BY <2>2, <2>3
<1> QED BY <1>1, <1>2, <1>4

LEMMA PurgeKeeps == ASSUME PurgeInv, NEW c \in PurgeCalls, Purge!Purge(c) PROVE PurgeInv'
<1> DEFINE x == purgeCall[c]
           d == Purge!Deleted(c)
<1>1. x \in Purging
  BY CallAt DEF Purge!Purge, PurgeInv
<1>2. UNCHANGED <<flight, pk, version, archiving, archives, amiss>>
  BY DEF Purge!Purge
<1>3. CASE Purge!Ends(c, "refused") /\ UNCHANGED <<log, ack, lost>>
  <2>1. PICK y \in Over : purgeCall' = [purgeCall EXCEPT ![c] = y]
    BY <1>3, PurgeEnds
  <2>2. y \notin Purging
    BY PurgeKinds
  <2>3. archives' \subseteq Copies /\ IsFiniteSet(archives') /\ \A b \in archives' : Known(b)
    BY <1>2 DEF PurgeInv, PurgeTypes, ArchivesAreKnown
  <2> QED BY <1>2, <1>3, <2>1, <2>2, <2>3, CallMoves
<1>4. CASE /\ log' = log \ d.log
           /\ ack' = [k \in PurgeKeys |-> IF k \in d.ack THEN 0 ELSE ack[k]]
           /\ lost' = lost \cup
                {[row |-> <<"log", r>>, excused |-> r \in x.a.missing] :
                   r \in d.log \ Purge!RowsOf(x.a.log)} \cup
                {[row |-> <<"ack", k, ack[k]>>, excused |-> "ack" \in x.a.scope] :
                   k \in {j \in d.ack : [pk |-> j, of |-> ack[j]] \notin Purge!RowsOf(x.a.ack)}}
           /\ Purge!Ends(c, "done")
  <2>1. PICK y \in Over : purgeCall' = [purgeCall EXCEPT ![c] = y]
    BY <1>4, PurgeEnds
  <2>2. y \notin Purging \cup Restores
    BY PurgeKinds
  <2>3. log' \subseteq log /\ IsFiniteSet(log')
    BY <1>4, FS_Subset DEF PurgeInv, PurgeTypes
  <2>4. PurgeTypes'
    <3>1. ack' \in [PurgeKeys -> Nat]
      BY <1>4 DEF PurgeInv, PurgeTypes
    <3>2. purgeCall' \in [PurgeCalls -> {Purge!Idle} \cup Over \cup Purging \cup Restores]
      BY <2>1 DEF PurgeInv, PurgeTypes
    <3> QED BY <1>2, <2>3, <3>1, <3>2 DEF PurgeInv, PurgeTypes
  <2>5. Grows
    BY <1>2, <2>3 DEF Grows, PurgeInv, PurgeTypes
  <2>6. \A b \in archives' : b \in Copies /\ Known(b)
    BY <1>2 DEF PurgeInv, PurgeTypes, ArchivesAreKnown
  <2>7. ArchivesAreKnown'
    BY <1>2, <2>1, <2>2, <2>4, <2>5, <2>6, CallKeepsKnown
  <2>8. \A e \in PurgeCalls : Inserts(e)' => Inserts(e) /\ purgeCall'[e] = purgeCall[e]
    BY <2>1, <2>2, CallIs DEF PurgeInv
  <2>9. RowsAreNumbered' /\ (~amiss' => RowsAreOnce')
    BY <1>2, <2>3, <2>8 DEF PurgeInv, RowsAreNumbered, RowsAreOnce
  <2>10. Purge!NothingLost'
    <3> SUFFICES ASSUME NEW l \in lost' PROVE l.excused
      BY DEF Purge!NothingLost
    <3>1. CASE l \in lost
      BY <3>1 DEF PurgeInv, Purge!NothingLost
    <3>2. CASE \E r \in d.log \ Purge!RowsOf(x.a.log) : l = [row |-> <<"log", r>>, excused |-> r \in x.a.missing]
      <4>1. PICK r \in d.log \ Purge!RowsOf(x.a.log) : l = [row |-> <<"log", r>>, excused |-> r \in x.a.missing]
        BY <3>2
      <4>2. r \in x.a.missing
        BY <1>1, DeletedIsKnown
      <4>3. l.excused = (r \in x.a.missing)
        BY <4>1
      <4> QED BY <4>2, <4>3
    <3>3. CASE \E k \in d.ack : l = [row |-> <<"ack", k, ack[k]>>, excused |-> "ack" \in x.a.scope]
      <4>1. "ack" \in x.a.scope
        BY <3>3, <1>1, DeletedIsKnown
      <4>2. l.excused = ("ack" \in x.a.scope)
        BY <3>3
      <4> QED BY <4>1, <4>2
    <3> QED BY <1>4, <3>1, <3>2, <3>3
  <2> QED BY <2>4, <2>7, <2>9, <2>10 DEF PurgeInv
<1> QED BY <1>3, <1>4 DEF Purge!Purge

-----------------------------------------------------------------------------
(* Restores.                                                               *)

LEMMA PreflightKeeps ==
  ASSUME PurgeInv, NEW c \in PurgeCalls, NEW a \in archives, Purge!Preflight(c, a)
  PROVE  PurgeInv'
<1>1. /\ UNCHANGED <<log, flight, pk, ack, version, archiving, archives, lost>>
      /\ purgeCall[c] = Purge!Idle
  BY DEF Purge!Preflight
<1>2. /\ a \in Copies /\ Known(a)
      /\ archives' \subseteq Copies /\ IsFiniteSet(archives') /\ \A b \in archives' : Known(b)
  BY <1>1 DEF PurgeInv, PurgeTypes, ArchivesAreKnown
<1>3. CASE Purge!Ends(c, "refused") /\ UNCHANGED amiss
  <2>1. PICK y \in Over : purgeCall' = [purgeCall EXCEPT ![c] = y]
    BY <1>3, PurgeEnds
  <2>2. y \notin Purging
    BY PurgeKinds
  <2> QED BY <1>1, <1>2, <1>3, <2>1, <2>2, CallMoves
<1>4. CASE /\ "log" \in a.scope => log = {}
           /\ purgeCall' = [purgeCall EXCEPT ![c] = [at |-> "insert", a |-> a]]
           /\ amiss' = (amiss \/ a.torn \/ \E d \in PurgeCalls : purgeCall[d].at = "insert")
  <2> DEFINE y == [at |-> "insert", a |-> a]
  <2>1. y \in Restores /\ y.a = a
    BY <1>2 DEF Restores
  <2>2. purgeCall' = [purgeCall EXCEPT ![c] = y]
    BY <1>4
  <2> HIDE DEF y
  <2>3. y \notin Purging
    BY <2>1, PurgeKinds
  <2>4. PurgeTypes'
    <3>1. purgeCall' \in [PurgeCalls -> {Purge!Idle} \cup Over \cup Purging \cup Restores]
      BY <2>1, <2>2 DEF PurgeInv, PurgeTypes
    <3>2. amiss' \in BOOLEAN
      BY <1>2, <1>4 DEF PurgeInv, PurgeTypes, Copies
    <3> QED BY <1>1, <3>1, <3>2 DEF PurgeInv, PurgeTypes
  <2>5. Grows
    BY <1>1, <1>4 DEF Grows, PurgeInv, PurgeTypes
  <2>6. ArchivesAreKnown'
    BY <1>1, <1>2, <2>1, <2>2, <2>3, <2>4, <2>5, CallKeepsKnown
  <2>7. \A d \in PurgeCalls : Inserts(d)' => d = c \/ (Inserts(d) /\ purgeCall'[d] = purgeCall[d])
    BY <2>2, CallIs DEF PurgeInv
  <2>8. ASSUME ~amiss' PROVE RowsAreOnce'
    <3>1. ~amiss /\ RowsAreOnce /\ ~a.torn
      BY <1>4, <2>8 DEF PurgeInv
    <3>2. \A d \in PurgeCalls : ~Inserts(d)
      BY <1>4, <2>8 DEF Inserts, Restores
    <3>3. \A d \in PurgeCalls : Inserts(d)' => d = c
      BY <2>7, <3>2
    <3>4. purgeCall'[c].a = a
      BY <2>1, <2>2, CallIs DEF PurgeInv
    <3>5. a.log # {} => log' = {}
      <4>1. a.log # {} => "log" \in a.scope
        BY <1>2 DEF Known
      <4> QED BY <4>1, <1>1, <1>4
    <3> QED BY <1>1, <3>1, <3>3, <3>4, <3>5 DEF RowsAreOnce
  <2> QED BY <1>1, <2>4, <2>6, <2>8 DEF PurgeInv, RowsAreNumbered, Purge!NothingLost
<1> QED BY <1>3, <1>4 DEF Purge!Preflight

\* The rows that a restore inserts: new PKs, the old contents.
Inserted(a) == {[pk |-> pk + d.at, of |-> d.of] : d \in a.log}
Places(a)   == {d.at : d \in a.log}

LEMMA InsertedAre ==
  ASSUME PurgeInv, NEW a \in Copies, Known(a)
  PROVE  /\ IsFiniteSet(Inserted(a)) /\ Inserted(a) \subseteq Rows
         /\ Purge!Top(Places(a)) \in Nat
         /\ \A q \in Inserted(a) :
              /\ pk < q.pk /\ q.pk <= pk + Purge!Top(Places(a)) /\ q.of <= pk
              /\ \E r \in a.log : q.of = r.of /\ q = [pk |-> pk + r.at, of |-> r.of]
<1> DEFINE New(r) == [pk |-> pk + r.at, of |-> r.of]
<1>1. /\ a.log \in SUBSET Placed /\ IsFiniteSet(a.log) /\ pk \in Nat
      /\ \A r \in a.log : r.of <= pk /\ 0 < r.at
  BY DEF PurgeInv, PurgeTypes, Copies, Known, Sound
<1>2. PICK n \in Nat : \A r \in a.log : r.at <= n
  BY DEF Known, Sound
<1>3. Places(a) \in SUBSET Nat /\ \A x \in Places(a) : x <= n
  BY <1>1, <1>2 DEF Places, Placed
<1>4. Purge!Top(Places(a)) \in Nat /\ \A r \in a.log : r.at <= Purge!Top(Places(a))
  <2>1. Purge!Top(Places(a)) \in Nat /\ \A x \in Places(a) : x <= Purge!Top(Places(a))
    BY <1>3, TopIs
  <2>2. \A r \in a.log : r.at \in Places(a)
    BY DEF Places
  <2> QED BY <2>1, <2>2
<1>5. ASSUME NEW r \in a.log
      PROVE  /\ New(r) \in Rows /\ pk < New(r).pk /\ New(r).of = r.of
             /\ New(r).pk <= pk + Purge!Top(Places(a))
  <2>1. r.at \in Nat /\ r.of \in Nat /\ 0 < r.at /\ r.at <= Purge!Top(Places(a))
    BY <1>1, <1>4 DEF Placed
  <2>2. New(r).pk = pk + r.at /\ New(r).of = r.of /\ New(r) \in Rows
    BY <1>1, <2>1 DEF Rows
  <2> HIDE DEF New
  <2> QED BY <2>1, <2>2, <1>1, <1>4
<1>6. Inserted(a) = {New(r) : r \in a.log}
  BY DEF Inserted
<1>7. IsFiniteSet(Inserted(a))
  <2> DEFINE f == [r \in a.log |-> New(r)]
  <2>1. f \in Surjection(a.log, Inserted(a))
    BY <1>6 DEF Surjection
  <2> QED BY <2>1, <1>1, FS_Surjection
<1>8. ASSUME NEW q \in Inserted(a)
      PROVE  /\ q \in Rows /\ pk < q.pk /\ q.pk <= pk + Purge!Top(Places(a)) /\ q.of <= pk
             /\ \E r \in a.log : q.of = r.of /\ q = [pk |-> pk + r.at, of |-> r.of]
  <2>1. PICK r \in a.log : q = New(r)
    BY <1>6
  <2>2. q \in Rows /\ pk < q.pk /\ q.of = r.of /\ q.pk <= pk + Purge!Top(Places(a))
    BY <1>5, <2>1
  <2> QED BY <2>1, <2>2, <1>1
<1> QED BY <1>4, <1>7, <1>8

LEMMA RestoreKeeps == ASSUME PurgeInv, NEW c \in PurgeCalls, Purge!Restore(c) PROVE PurgeInv'
<1> DEFINE x == purgeCall[c]
           a == x.a
           copy(k) == {d \in a.ack : d.pk = k}
<1>1. x \in Restores /\ Inserts(c) /\ a \in Copies /\ Known(a)
  BY CallAt, PurgeKinds DEF Purge!Restore, PurgeInv, ArchivesAreKnown, Holds, Inserts
<1>2. UNCHANGED <<flight, version, archiving, archives, lost, amiss>>
  BY DEF Purge!Restore
<1>3. archives' \subseteq Copies /\ IsFiniteSet(archives') /\ \A b \in archives' : Known(b)
  BY <1>2 DEF PurgeInv, PurgeTypes, ArchivesAreKnown
<1>4. CASE Purge!Ends(c, "refused") /\ UNCHANGED <<log, pk, ack>>
  <2>1. PICK y \in Over : purgeCall' = [purgeCall EXCEPT ![c] = y]
    BY <1>4, PurgeEnds
  <2>2. y \notin Purging
    BY PurgeKinds
  <2> QED BY <1>2, <1>3, <1>4, <2>1, <2>2, CallMoves
<1>5. CASE /\ log' = log \cup Inserted(a)
           /\ pk' = pk + Purge!Top(Places(a))
           /\ ack' = [k \in PurgeKeys |-> IF copy(k) # {} THEN (CHOOSE d \in copy(k) : TRUE).of ELSE ack[k]]
           /\ Purge!Ends(c, "done")
  <2>1. PICK y \in Over : purgeCall' = [purgeCall EXCEPT ![c] = y]
    BY <1>5, PurgeEnds
  <2>2. y \notin Purging \cup Restores
    BY PurgeKinds
  <2>3. /\ IsFiniteSet(Inserted(a)) /\ Inserted(a) \subseteq Rows
        /\ Purge!Top(Places(a)) \in Nat /\ pk \in Nat
        /\ \A q \in Inserted(a) : q.pk \in Nat /\ q.of \in Nat /\ pk < q.pk /\ q.pk <= pk' /\ q.of <= pk
    BY <1>1, <1>5, InsertedAre DEF PurgeInv, PurgeTypes, Rows
  <2>4. pk' \in Nat /\ pk <= pk'
    BY <1>5, <2>3
  <2>5. PurgeTypes'
    <3>1. log' \subseteq Rows /\ IsFiniteSet(log')
      BY <1>5, <2>3, FS_Union DEF PurgeInv, PurgeTypes
    <3>2. ack' \in [PurgeKeys -> Nat]
      <4>1. ASSUME NEW k \in PurgeKeys, copy(k) # {} PROVE (CHOOSE d \in copy(k) : TRUE).of \in Nat
        <5>1. PICK e : e = (CHOOSE d \in copy(k) : TRUE)
          OBVIOUS
        <5>2. e \in copy(k) /\ e \in Placed
          BY <1>1, <4>1, <5>1 DEF Copies
        <5> QED BY <5>1, <5>2 DEF Placed
      <4>2. ack \in [PurgeKeys -> Nat]
        BY DEF PurgeInv, PurgeTypes
      <4> HIDE DEF copy
      <4> QED BY <1>5, <4>1, <4>2
    <3>3. purgeCall' \in [PurgeCalls -> {Purge!Idle} \cup Over \cup Purging \cup Restores]
      BY <2>1 DEF PurgeInv, PurgeTypes
    <3> QED BY <1>2, <1>3, <2>4, <3>1, <3>2, <3>3 DEF PurgeInv, PurgeTypes
  <2>6. Grows
    BY <1>2, <1>5, <2>3, <2>4 DEF Grows, PurgeInv, PurgeTypes
  <2>7. ArchivesAreKnown'
    BY <1>2, <1>3, <2>1, <2>2, <2>5, <2>6, CallKeepsKnown
  <2>8. RowsAreNumbered'
    <3>1. \A r \in log \cup flight :
            r.pk \in Nat /\ r.of \in Nat /\ 0 < r.pk /\ r.pk <= pk /\ r.of <= pk
      BY DEF PurgeInv, PurgeTypes, RowsAreNumbered, Rows
    <3>2. \A r \in log' \cup flight' : 0 < r.pk /\ r.pk <= pk' /\ r.of <= pk'
      BY <1>2, <1>5, <2>3, <2>4, <3>1
    <3>3. ASSUME NEW r \in flight, NEW q \in Inserted(a) PROVE r.of # q.of
      <4>1. PICK s \in a.log : q.of = s.of
        BY <1>1, InsertedAre
      <4> QED BY <4>1, <1>1 DEF Known, Sound
    <3>4. \A r \in flight', s \in log' : r.of # s.of
      BY <1>2, <1>5, <3>3 DEF PurgeInv, RowsAreNumbered
    <3> QED BY <1>2, <3>2, <3>4 DEF PurgeInv, RowsAreNumbered
  <2>9. ASSUME ~amiss' PROVE RowsAreOnce'
    <3>1. ~amiss /\ RowsAreOnce
      BY <1>2, <2>9 DEF PurgeInv
    <3>2. \A d \in PurgeCalls : ~Inserts(d)'
      <4>1. \A d \in PurgeCalls : Inserts(d) => d = c
        BY <1>1, <3>1 DEF RowsAreOnce
      <4> QED BY <2>1, <2>2, <4>1, CallIs DEF PurgeInv
    <3>3. ASSUME NEW q \in Inserted(a), NEW r \in log PROVE r.of # q.of
      <4>1. PICK s \in a.log : q.of = s.of
        BY <1>1, InsertedAre
      <4> QED BY <4>1, <1>1, <3>1 DEF RowsAreOnce
    <3>4. ASSUME NEW q \in Inserted(a), NEW r \in Inserted(a), q.of = r.of PROVE q = r
      <4>1. PICK s \in a.log : q.of = s.of /\ q = [pk |-> pk + s.at, of |-> s.of]
        BY <1>1, InsertedAre
      <4>2. PICK t \in a.log : r.of = t.of /\ r = [pk |-> pk + t.at, of |-> t.of]
        BY <1>1, InsertedAre
      <4>3. s = t
        <5>1. ~a.torn
          BY <1>1, <3>1 DEF RowsAreOnce
        <5> QED BY <4>1, <4>2, <3>1, <3>4, <1>1, <5>1 DEF Known, Whole
      <4> QED BY <4>1, <4>2, <4>3
    <3>5. \A q, r \in log' : q.of = r.of => q = r
      BY <1>5, <3>1, <3>3, <3>4 DEF RowsAreOnce
    <3> QED BY <3>2, <3>5 DEF RowsAreOnce
  <2> QED BY <1>2, <2>5, <2>7, <2>8, <2>9 DEF PurgeInv, Purge!NothingLost
<1> QED BY <1>4, <1>5 DEF Purge!Restore, Inserted, Places

-----------------------------------------------------------------------------

LEMMA PurgeInvStep == ASSUME PurgeInv, [Purge!Next]_Purge!vars PROVE PurgeInv'
<1>1. CASE Purge!InsertBegins \/ Purge!NextPage \/ Purge!LastPage
  BY <1>1, InsertBeginsKeeps, NextPageKeeps, LastPageKeeps
<1>2. ASSUME NEW r \in flight, Purge!InsertCommits(r) PROVE PurgeInv'
  BY <1>2, InsertCommitsKeeps
<1>3. ASSUME NEW k \in PurgeKeys, NEW present \in BOOLEAN, Purge!Acknowledge(k, present)
      PROVE  PurgeInv'
  BY <1>3, AcknowledgeKeeps
<1>4. ASSUME NEW scope \in SUBSET Purge!Tables \ {{}}, Purge!Backup(scope) \/ Purge!FallBack(scope)
      PROVE  PurgeInv'
  BY <1>4, SnapshotKeeps, FallBackKeeps
<1>5. ASSUME NEW c \in PurgeCalls, NEW a \in archives, NEW scope \in SUBSET Purge!Tables,
             Purge!Consume(c, a, scope)
      PROVE  PurgeInv'
  BY <1>5, ConsumeKeeps
<1>6. ASSUME NEW c \in PurgeCalls, NEW a \in archives, Purge!Preflight(c, a) PROVE PurgeInv'
  BY <1>6, PreflightKeeps
<1>7. ASSUME NEW c \in PurgeCalls, Purge!Recount(c) \/ Purge!Purge(c) \/ Purge!Restore(c)
      PROVE  PurgeInv'
  BY <1>7, RecountKeeps, PurgeKeeps, RestoreKeeps
<1>8. CASE UNCHANGED Purge!vars
  <2>1. /\ archives' \subseteq Copies /\ IsFiniteSet(archives') /\ \A a \in archives' : Known(a)
        /\ archiving' \in Reads \cup {Purge!NoBackup}
        /\ archiving' # Purge!NoBackup => PartRead(archiving')
    BY <1>8 DEF Purge!vars, PurgeInv, PurgeTypes, ArchivesAreKnown
  <2> QED BY <1>8, <2>1, ArchivesCome DEF Purge!vars
<1> QED BY <1>1, <1>2, <1>3, <1>4, <1>5, <1>6, <1>7, <1>8 DEF Purge!Next

LEMMA PurgeInvSuffices == PurgeInv => Purge!PurgeIsCovered
BY DEF PurgeInv, RowsAreOnce, Purge!PurgeIsCovered, Purge!NothingTwice

\* The purge by itself: any keys, calls, size of a page and bounds.
THEOREM PurgesAreCovered == Purge!Spec => []Purge!PurgeIsCovered
<1>1. Purge!Init => PurgeInv
  BY PurgeInvInit
<1>2. PurgeInv /\ [Purge!Next]_Purge!vars => PurgeInv'
  BY PurgeInvStep
<1> QED BY <1>1, <1>2, PurgeInvSuffices, PTL DEF Purge!Spec

\* A step of the composition is one of the purge, or leaves it alone.
LEMMA PurgeSteps == [Next]_vars => [Purge!Next]_Purge!vars
<1> SUFFICES ASSUME [Next]_vars, ~Purge!Next PROVE UNCHANGED Purge!vars
  OBVIOUS
<1>1. UNCHANGED purge
  BY DEF Next, vars
<1> QED BY <1>1 DEF purge, Purge!vars

\* A purge deletes nothing that its archive lacks, unless a count cannot tell it or the
\* archive's pages do not add up, and a restore adds nothing that is there, unless two
\* looked at the tables at once or pages overlap.
THEOREM PurgeIsCoveredTheorem == Spec => []PurgeIsCovered
<1>1. Init => PurgeInv
  BY PurgeInvInit DEF Init
<1>2. PurgeInv /\ [Next]_vars => PurgeInv'
  BY PurgeInvStep, PurgeSteps
<1>3. PurgeInv => PurgeIsCovered
  BY PurgeInvSuffices DEF PurgeIsCovered
<1> QED BY <1>1, <1>2, <1>3, PTL DEF Spec

-----------------------------------------------------------------------------
(* BackupChain                                                             *)

Names     == [trigger : {"SCHEDULED", "PURGE"}, n : Nat]
Contents  == [BackupTables -> [sha : Nat, source : Names \cup {Chain!NoId}]]
Archives  == [id : Names, built : Nat, gen : Nat, base : Names, tables : Contents]
RunPhases == {"new", "queued", "chaining", "building", "publishing", "done"}
BackupRuns ==
  [phase : RunPhases, at : Stores \cup {0}, id : Names \cup {Chain!NoId},
   index : SUBSET Archives, plan : SUBSET Archives, made : SUBSET Archives]

ChainTypes ==
  /\ data \in [BackupTables -> Nat] /\ sec \in Nat
  /\ run \in [Chain!Runs -> BackupRuns] /\ disk \in SUBSET Archives

\* A name of a scheduled run that is over will not be given again.
RunsOver   == {n \in Chain!Runs : run[n].phase = "done"}
Spent(i)   == i.trigger = "SCHEDULED" => i.n \in RunsOver
Settles(x) == \A i \in Chain!Sources(x) : i.trigger = "SCHEDULED" /\ i.n \in RunsOver

\* What a set of archives keeps when some of them go.
Coherent(D) ==
  /\ \A a, b \in D : a.id = b.id => a = b
  /\ \A a, b \in D : a.built = b.built => a = b

\* Archives of one chain that runs built on the newest one they found have their
\* places in the order they were built in.
InChain(a, b) == a.id.trigger # "PURGE" /\ b.id.trigger # "PURGE" /\ a.base = b.base
                 /\ a.id \notin blind /\ b.id \notin blind
Ordered == \A a, b \in disk : InChain(a, b) /\ a.built < b.built => a.gen < b.gen

\* An archive that x points to has the data itself.
Supports(D, x) ==
  \A b \in D, t \in BackupTables :
    x.tables[t].source = b.id => b.tables[t] = [sha |-> x.tables[t].sha, source |-> Chain!NoId]

Present(S) == S \subseteq Chain!Ids(disk) \ broken

DiskInv ==
  /\ Coherent(disk) /\ Ordered
  /\ \A a \in disk : /\ Spent(a.id) /\ Spent(a.base) /\ Settles(a) /\ Supports(disk, a)
                     /\ a.built <= Cardinality(RunsOver)
                     /\ a.id \in hurt \/ Present(Chain!Sources(a))

\* The head that a run continues: no archive of its chain has a later place, unless
\* the run is known to be blind, and what it builds on is there unless the run is
\* known to be hurt.
PlanInv(n) ==
  \A h \in run[n].plan :
    /\ run[n].id.trigger # "PURGE" /\ h.id.trigger # "PURGE" /\ run[n].plan = {h}
    /\ Spent(h.id) /\ Spent(h.base) /\ Settles(h) /\ Supports(disk, h)
    /\ run[n].id \in blind \/ h.id \notin blind
    /\ \A b \in disk : /\ b.id = h.id => b = h
                       /\ run[n].id \notin blind /\ InChain(b, h) => b.gen <= h.gen
    /\ run[n].id \in hurt \/ Present(Chain!Members(h))

\* The archive about to be renamed.
MadeInv(n) ==
  \A a \in run[n].made :
    /\ a.id = run[n].id /\ run[n].made = {a}
    /\ \A b \in disk : b.built < a.built /\ (InChain(b, a) => b.gen < a.gen)
    /\ a.built <= Cardinality(RunsOver) + 1
    /\ Settles(a) /\ Supports(disk, a)
    /\ IF run[n].plan = {} THEN a.base = a.id /\ Chain!Sources(a) = {}
       ELSE \A h \in run[n].plan : a.base = h.base /\ Chain!Sources(a) \subseteq Chain!Members(h)

Working(n) == run[n].phase \in {"chaining", "building", "publishing"}

RunInv(n) ==
  /\ run[n].phase \in {"new", "done"} \/ run[n].id \in Names
  /\ run[n].id.trigger = "SCHEDULED" => run[n].id.n = n
  /\ Working(n) => lease = n
  /\ run[n].phase = "chaining" =>
       /\ Coherent(disk \cup run[n].index)
       /\ run[n].id \in blind \/ \A h \in Chain!ChainHead(run[n].index), b \in disk :
                                    b.id.trigger # "PURGE" => b.built <= h.built
  /\ run[n].phase \in {"building", "publishing"} => PlanInv(n)
  /\ run[n].phase = "publishing" => MadeInv(n) /\ run[n].made # {}

ChainInv == ChainTypes /\ DiskInv /\ \A n \in Chain!Runs : RunInv(n)

-----------------------------------------------------------------------------
(* What stays true of archives and runs when archives go and runs end.     *)

LEMMA OverGrows ==
  ASSUME \A n \in Chain!Runs : run[n].phase = "done" => run'[n].phase = "done"
  PROVE  /\ RunsOver \subseteq RunsOver' /\ Cardinality(RunsOver) \in Nat /\ Cardinality(RunsOver') \in Nat
         /\ Cardinality(RunsOver) <= Cardinality(RunsOver')
<1>1. MaxRuns \in Nat /\ IsFiniteSet(Chain!Runs)
  BY KindsAssumption, FS_Interval DEF Chain!Runs
<1>2. RunsOver \subseteq RunsOver' /\ RunsOver' \subseteq Chain!Runs
  BY DEF RunsOver, Chain!Runs
<1>3. IsFiniteSet(RunsOver') /\ IsFiniteSet(RunsOver)
  BY <1>1, <1>2, FS_Subset
<1>4. Cardinality(RunsOver) <= Cardinality(RunsOver')
  BY <1>2, <1>3, FS_Subset
<1> QED BY <1>2, <1>3, <1>4, FS_CardinalityType

LEMMA CoherentPart == \A D : \A E \in SUBSET D : Coherent(D) => Coherent(E)
BY DEF Coherent

\* Archives only went; the ones that lost a source are known to be hurt.
LEMMA DiskKeeps ==
  ASSUME ChainTypes, DiskInv, disk' \subseteq disk, hurt \subseteq hurt', blind \subseteq blind',
         \A n \in Chain!Runs : run[n].phase = "done" => run'[n].phase = "done",
         \A a \in disk' : a.id \in hurt' \/ Present(Chain!Sources(a))'
  PROVE  DiskInv'
<1>1. /\ RunsOver \subseteq RunsOver' /\ Cardinality(RunsOver) \in Nat /\ Cardinality(RunsOver') \in Nat
      /\ Cardinality(RunsOver) <= Cardinality(RunsOver')
  BY OverGrows
<1>2. Coherent(disk)' /\ Ordered'
  BY CoherentPart DEF DiskInv, Coherent, Ordered, InChain
<1>3. ASSUME NEW a \in disk' PROVE Spent(a.id)' /\ Spent(a.base)' /\ Settles(a)'
  BY <1>1, <1>3 DEF DiskInv, Spent, Settles, Chain!Sources
<1>4. ASSUME NEW a \in disk' PROVE Supports(disk, a)'
  BY <1>4 DEF DiskInv, Supports
<1>5. ASSUME NEW a \in disk' PROVE a.built <= Cardinality(RunsOver')
  <2>1. a.built \in Nat /\ a.built <= Cardinality(RunsOver)
    BY <1>5 DEF DiskInv, ChainTypes, Archives
  <2> QED BY <1>1, <2>1
<1> QED BY <1>2, <1>3, <1>4, <1>5 DEF DiskInv

LEMMA RunKeeps ==
  ASSUME ChainTypes, NEW n \in Chain!Runs, RunInv(n), run'[n] = run[n], disk' \subseteq disk,
         hurt \subseteq hurt', blind \subseteq blind', Working(n) => lease' = n,
         \A m \in Chain!Runs : run[m].phase = "done" => run'[m].phase = "done",
         run[n].phase \in {"building", "publishing"} =>
           \A h \in run[n].plan : run[n].id \in hurt' \/ Present(Chain!Members(h))',
         \A h \in run[n].plan : h.id \in blind' => h.id \in blind \/ run[n].id \in blind'
  PROVE  RunInv(n)'
<1>1. /\ RunsOver \subseteq RunsOver' /\ Cardinality(RunsOver) \in Nat /\ Cardinality(RunsOver') \in Nat
      /\ Cardinality(RunsOver) <= Cardinality(RunsOver')
  BY OverGrows
<1>2. ASSUME PlanInv(n), run[n].phase \in {"building", "publishing"} PROVE PlanInv(n)'
  <2> SUFFICES ASSUME NEW h \in run[n].plan
               PROVE  /\ run[n].id.trigger # "PURGE" /\ h.id.trigger # "PURGE" /\ run[n].plan = {h}
                      /\ Spent(h.id)' /\ Spent(h.base)' /\ Settles(h)' /\ Supports(disk, h)'
                      /\ run[n].id \in blind' \/ h.id \notin blind'
                      /\ \A b \in disk' : /\ b.id = h.id => b = h
                                          /\ run[n].id \notin blind' /\ InChain(b, h)' => b.gen <= h.gen
                      /\ run[n].id \in hurt' \/ Present(Chain!Members(h))'
    BY DEF PlanInv
  <2>1. Spent(h.id)' /\ Spent(h.base)' /\ Settles(h)'
    BY <1>1, <1>2 DEF PlanInv, Spent, Settles, Chain!Sources
  <2>2. Supports(disk, h)'
    BY <1>2 DEF PlanInv, Supports
  <2>3. ASSUME NEW b \in disk', run[n].id \notin blind', InChain(b, h)' PROVE b.gen <= h.gen
    BY <1>2, <2>3 DEF PlanInv, InChain
  <2> QED BY <1>2, <2>1, <2>2, <2>3 DEF PlanInv
<1>3. ASSUME MadeInv(n) PROVE MadeInv(n)'
  <2> DEFINE Rest(a) == IF run[n].plan = {} THEN a.base = a.id /\ Chain!Sources(a) = {}
                        ELSE \A h \in run[n].plan : a.base = h.base
                                                    /\ Chain!Sources(a) \subseteq Chain!Members(h)
  <2>1. ASSUME NEW a \in run[n].made PROVE a.built <= Cardinality(RunsOver') + 1
    <3>1. a.built \in Nat /\ a.built <= Cardinality(RunsOver) + 1
      BY <1>3, <2>1 DEF MadeInv, ChainTypes, BackupRuns, Archives
    <3> QED BY <1>1, <3>1
  <2>2. ASSUME NEW a \in run[n].made PROVE Settles(a)' /\ Supports(disk, a)'
    BY <1>1, <1>3, <2>2 DEF MadeInv, Settles, Supports, Chain!Sources
  <2>3. ASSUME NEW a \in run[n].made PROVE Rest(a)'
    <3>1. Rest(a)
      BY <1>3, <2>3 DEF MadeInv
    <3> QED BY <3>1 DEF Chain!Sources, Chain!Members
  <2>4. ASSUME NEW a \in run[n].made PROVE /\ a.id = run'[n].id /\ run'[n].made = {a}
                                            /\ \A b \in disk' : /\ b.built < a.built
                                                                /\ InChain(b, a)' => b.gen < a.gen
    BY <1>3, <2>4 DEF MadeInv, InChain
  <2> HIDE DEF Rest
  <2> QED BY <2>1, <2>2, <2>3, <2>4 DEF MadeInv, Rest
<1>4. Working(n)' = Working(n) /\ Chain!NoId' = Chain!NoId
  BY DEF Working, Chain!NoId
<1>5. run[n].phase = "chaining" =>
        /\ Coherent(disk \cup run[n].index)'
        /\ run[n].id \in blind' \/ \A h \in Chain!ChainHead(run[n].index), b \in disk' :
                                     b.id.trigger # "PURGE" => b.built <= h.built
  BY DEF RunInv, Coherent
<1>6. Chain!ChainHead(run[n].index)' = Chain!ChainHead(run[n].index)
  BY DEF Chain!ChainHead
<1> QED BY <1>2, <1>3, <1>4, <1>5, <1>6 DEF RunInv

\* The same of a run that does not work while another becomes blind.
LEMMA RunKeepsBlind ==
  ASSUME ChainTypes, NEW n \in Chain!Runs, RunInv(n), run'[n] = run[n], disk' \subseteq disk,
         hurt \subseteq hurt', blind \subseteq blind', Working(n) => lease' = n /\ blind' = blind,
         \A m \in Chain!Runs : run[m].phase = "done" => run'[m].phase = "done",
         run[n].phase \in {"building", "publishing"} =>
           \A h \in run[n].plan : run[n].id \in hurt' \/ Present(Chain!Members(h))'
  PROVE  RunInv(n)'
<1>1. CASE Working(n)
  BY <1>1, RunKeeps
<1>2. CASE ~Working(n)
  BY <1>2 DEF RunInv, Working
<1> QED BY <1>1, <1>2

\* A run that is over, or has not begun.
LEMMA RunIdle ==
  ASSUME NEW n \in Chain!Runs, run'[n] = [Chain!NewRun EXCEPT !.phase = "done"] \/ run'[n] = Chain!NewRun
  PROVE  RunInv(n)' /\ run'[n] \in BackupRuns
<1>1. /\ run'[n].phase \in {"new", "done"} /\ run'[n].id.trigger = "-"
      /\ run'[n] \in BackupRuns
  BY DEF Chain!NewRun, Chain!NoId, BackupRuns, RunPhases
<1> QED BY <1>1 DEF RunInv, Working

-----------------------------------------------------------------------------
(* The steps that take archives away, and those that touch none.           *)

\* The runs and the disk as they were.
LEMMA Still ==
  ASSUME ChainInv, data' \in [BackupTables -> Nat], sec' \in Nat,
         UNCHANGED <<run, disk, broken, hurt, blind, lease>>
  PROVE  ChainInv'
<1>1. DiskInv'
  <2>1. \A a \in disk' : a.id \in hurt' \/ Present(Chain!Sources(a))'
    BY DEF ChainInv, DiskInv, Present, Chain!Sources, Chain!Ids
  <2> QED BY <2>1, DiskKeeps DEF ChainInv
<1>2. ASSUME NEW n \in Chain!Runs PROVE RunInv(n)'
  <2>1. RunInv(n) /\ Working(n) => lease' = n
    BY <1>2 DEF ChainInv, RunInv
  <2>2. run[n].phase \in {"building", "publishing"} =>
          \A h \in run[n].plan : run[n].id \in hurt' \/ Present(Chain!Members(h))'
    BY <1>2 DEF ChainInv, RunInv, PlanInv, Present, Chain!Members, Chain!Sources, Chain!Ids
  <2> QED BY <1>2, <2>1, <2>2, RunKeeps DEF ChainInv, RunInv
<1> QED BY <1>1, <1>2 DEF ChainInv, ChainTypes

\* A file goes or is damaged: what built on it is known to be hurt.
LEMMA Takes ==
  ASSUME ChainInv, NEW id, UNCHANGED <<data, sec, run, lease, blind>>,
         disk' \in SUBSET disk, \A a \in disk : a.id # id => a \in disk',
         broken' \ {id} = broken \ {id}, hurt' = hurt \cup Chain!Bereft(id)
  PROVE  ChainInv'
<1>1. ASSUME NEW S, Present(S), id \notin S PROVE Present(S)'
  BY <1>1 DEF Present, Chain!Ids
<1>2. DiskInv'
  <2>1. ASSUME NEW a \in disk' PROVE a.id \in hurt' \/ Present(Chain!Sources(a))'
    <3>1. Chain!Sources(a)' = Chain!Sources(a)
      BY DEF Chain!Sources, Chain!NoId
    <3>2. CASE a.id \in hurt
      BY <3>2
    <3>3. CASE id \in Chain!Sources(a) /\ a.id # id
      <4>1. a \in Chain!Dependents(disk, id)
        BY <2>1, <3>3 DEF Chain!Dependents, Chain!Sources
      <4> QED BY <4>1 DEF Chain!Bereft
    <3>4. CASE id \notin Chain!Sources(a) /\ a.id \notin hurt
      BY <1>1, <2>1, <3>1, <3>4 DEF ChainInv, DiskInv
    <3>5. CASE id \in Chain!Sources(a) /\ a.id = id
      <4>1. PICK t \in BackupTables : a.tables[t].source = a.id
        BY <3>5 DEF Chain!Sources
      <4>2. a.tables[t] = [sha |-> a.tables[t].sha, source |-> Chain!NoId]
        BY <2>1, <4>1 DEF ChainInv, DiskInv, Supports
      <4>3. a.id # Chain!NoId
        BY <3>5 DEF Chain!Sources
      <4> QED BY <4>1, <4>2, <4>3
    <3> QED BY <3>2, <3>3, <3>4, <3>5
  <2> QED BY <2>1, DiskKeeps DEF ChainInv
<1>3. ASSUME NEW n \in Chain!Runs PROVE RunInv(n)'
  <2>1. RunInv(n) /\ Working(n) => lease' = n
    BY <1>3 DEF ChainInv, RunInv
  <2>2. ASSUME run[n].phase \in {"building", "publishing"}, NEW h \in run[n].plan
        PROVE  run[n].id \in hurt' \/ Present(Chain!Members(h))'
    <3>1. Chain!Members(h)' = Chain!Members(h)
      BY DEF Chain!Members, Chain!Sources, Chain!NoId
    <3>2. CASE id \in Chain!Members(h)
      BY <1>3, <2>2, <3>2 DEF Chain!Bereft
    <3>3. CASE id \notin Chain!Members(h)
      BY <1>1, <1>3, <2>2, <3>1, <3>3 DEF ChainInv, RunInv, PlanInv
    <3> QED BY <3>2, <3>3
  <2> QED BY <1>3, <2>1, <2>2, RunKeeps DEF ChainInv, RunInv
<1> QED BY <1>2, <1>3 DEF ChainInv, ChainTypes

\* Runs end, by a fault or a crash, and leave the disk alone.
LEMMA Ends ==
  ASSUME ChainInv, NEW S \in SUBSET Chain!Runs, UNCHANGED <<data, sec, disk, broken, hurt, blind>>,
         run' = [n \in Chain!Runs |-> IF n \in S THEN [Chain!NewRun EXCEPT !.phase = "done"] ELSE run[n]],
         \A n \in Chain!Runs \ S : lease = n => lease' = n
  PROVE  ChainInv'
<1>1. \A n \in S : run'[n] = [Chain!NewRun EXCEPT !.phase = "done"]
  BY DEF Chain!Runs
<1>2. \A n \in Chain!Runs \ S : run'[n] = run[n]
  OBVIOUS
<1>3. \A n \in Chain!Runs : run[n].phase = "done" => run'[n].phase = "done"
  BY <1>1, <1>2 DEF Chain!NewRun
<1>4. DiskInv'
  <2>1. \A a \in disk' : a.id \in hurt' \/ Present(Chain!Sources(a))'
    BY DEF ChainInv, DiskInv, Present, Chain!Sources, Chain!Ids
  <2> QED BY <1>3, <2>1, DiskKeeps DEF ChainInv
<1>5. ASSUME NEW n \in S PROVE RunInv(n)' /\ run'[n] \in BackupRuns
  BY <1>1, <1>5, RunIdle
<1>6. ASSUME NEW n \in Chain!Runs \ S PROVE RunInv(n)' /\ run'[n] \in BackupRuns
  <2>1. RunInv(n) /\ run'[n] = run[n] /\ (Working(n) => lease' = n)
    BY <1>2, <1>6 DEF ChainInv, RunInv
  <2>2. run[n].phase \in {"building", "publishing"} =>
          \A h \in run[n].plan : run[n].id \in hurt' \/ Present(Chain!Members(h))'
    BY <1>6 DEF ChainInv, RunInv, PlanInv, Present, Chain!Members, Chain!Sources, Chain!Ids
  <2> QED BY <1>3, <1>6, <2>1, <2>2, RunKeeps DEF ChainInv, RunInv, ChainTypes
<1>7. ChainTypes'
  BY <1>5, <1>6 DEF ChainInv, ChainTypes, Chain!Runs
<1> QED BY <1>4, <1>5, <1>6, <1>7 DEF ChainInv

-----------------------------------------------------------------------------
(* The steps of a run                                                      *)

\* One run moves on and no other works, or all keep what they have.
LEMMA Moves ==
  ASSUME ChainInv, NEW n \in Chain!Runs, NEW r \in BackupRuns,
         run' = [run EXCEPT ![n] = r], run[n].phase # "done",
         UNCHANGED <<data, sec, disk, broken, hurt>>,
         blind' = blind \/ (blind' = blind \cup {run[n].id} /\ lease' = n),
         lease' = lease \/ lease = 0,
         RunInv(n)'
  PROVE  ChainInv'
<1>1. run'[n] = r /\ \A m \in Chain!Runs \ {n} : run'[m] = run[m]
  BY DEF ChainInv, ChainTypes
<1>2. \A m \in Chain!Runs : run[m].phase = "done" => run'[m].phase = "done"
  BY <1>1
<1>3. DiskInv'
  <2>1. \A a \in disk' : a.id \in hurt' \/ Present(Chain!Sources(a))'
    BY DEF ChainInv, DiskInv, Present, Chain!Sources, Chain!Ids
  <2> QED BY <1>2, <2>1, DiskKeeps DEF ChainInv
<1>4. ASSUME NEW m \in Chain!Runs \ {n} PROVE RunInv(m)'
  <2>1. RunInv(m) /\ run'[m] = run[m]
    BY <1>1, <1>4 DEF ChainInv
  <2>2. Working(m) => lease' = m
    BY <2>1, <1>4 DEF RunInv, Chain!Runs
  <2>3. ASSUME run[m].phase \in {"building", "publishing"}, NEW h \in run[m].plan
        PROVE  run[m].id \in hurt' \/ Present(Chain!Members(h))'
    <3>1. run[m].id \in hurt \/ Present(Chain!Members(h))
      BY <2>1, <2>3 DEF RunInv, PlanInv
    <3>2. Present(Chain!Members(h))' = Present(Chain!Members(h))
      BY DEF Present, Chain!Members, Chain!Sources, Chain!Ids, Chain!NoId
    <3> QED BY <3>1, <3>2
  <2>4. Working(m) => blind' = blind
    BY <2>1, <1>4 DEF RunInv, Chain!Runs
  <2> QED BY <1>2, <1>4, <2>1, <2>2, <2>3, <2>4, RunKeepsBlind DEF ChainInv
<1>5. ChainTypes'
  BY DEF ChainInv, ChainTypes, Chain!Runs
<1> QED BY <1>3, <1>4, <1>5 DEF ChainInv

LEMMA RequestKeeps ==
  ASSUME ChainInv, NEW n \in Chain!Runs, NEW p \in Stores, NEW g \in Kinds, Chain!Request(n, p, g)
  PROVE  ChainInv'
<1> DEFINE i == [trigger |-> g, n |-> IF g = "SCHEDULED" THEN n ELSE sec]
           r == [[Chain!NewRun EXCEPT !.phase = "queued"] EXCEPT !.at = p, !.id = i]
<1>1. i \in Names /\ (i.trigger = "SCHEDULED" => i.n = n)
  BY KindsAssumption DEF Names, ChainInv, ChainTypes, Chain!Runs
<1>2. run' = [run EXCEPT ![n] = r]
  BY DEF Chain!Request, Chain!NewRun
<1> HIDE DEF i
<1>3. r \in BackupRuns /\ r.phase = "queued" /\ r.id = i
  BY <1>1 DEF BackupRuns, RunPhases, Chain!NewRun
<1> HIDE DEF r
<1>4. run'[n] = r
  BY <1>2 DEF ChainInv, ChainTypes
<1>5. RunInv(n)'
  BY <1>1, <1>3, <1>4 DEF RunInv, Working
<1> QED BY <1>2, <1>3, <1>5, Moves DEF Chain!Request

LEMMA EnterKeeps ==
  ASSUME ChainInv, NEW n \in Chain!Runs, Chain!Enter(n)
  PROVE  ChainInv'
<1>1. PICK D \in SUBSET disk :
        /\ run' = [run EXCEPT ![n].phase = "chaining", ![n].index = D]
        /\ blind' = IF Chain!ChainHead(D) = Chain!ChainHead(disk) THEN blind ELSE blind \cup {run[n].id}
  BY DEF Chain!Enter, Chain!Forced, Chain!Reads
<1> DEFINE r == [run[n] EXCEPT !.phase = "chaining", !.index = D]
<1>2. run' = [run EXCEPT ![n] = r] /\ run[n].phase = "queued" /\ lease = 0 /\ lease' = n
      /\ UNCHANGED <<data, sec, disk, broken, hurt>> /\ run[n] \in BackupRuns
  BY <1>1 DEF Chain!Enter, ChainInv, ChainTypes
<1>3. r \in BackupRuns /\ r.phase = "chaining" /\ r.index = D /\ r.id = run[n].id
  BY <1>2 DEF BackupRuns, RunPhases, ChainInv, ChainTypes
<1> HIDE DEF r
<1>4. run'[n] = r
  BY <1>2 DEF ChainInv, ChainTypes
<1>5. RunInv(n) /\ Coherent(disk)
  BY DEF ChainInv, DiskInv
<1>6. Coherent(disk \cup run[n].index)'
  <2>1. run'[n].index = D /\ disk \cup D = disk /\ disk' = disk
    BY <1>2, <1>3, <1>4
  <2> QED BY <1>5, <2>1 DEF Coherent
<1>7. run[n].id \in blind' \/ \A h \in Chain!ChainHead(D), b \in disk :
                                b.id.trigger # "PURGE" => b.built <= h.built
  BY <1>1 DEF Chain!ChainHead
<1>8. Chain!ChainHead(run[n].index)' = Chain!ChainHead(D)
  BY <1>3, <1>4 DEF Chain!ChainHead
<1>9. RunInv(n)'
  BY <1>2, <1>3, <1>4, <1>5, <1>6, <1>7, <1>8 DEF RunInv, Working
<1> QED BY <1>1, <1>2, <1>3, <1>9, Moves

LEMMA DecideKeeps ==
  ASSUME ChainInv, NEW n \in Chain!Runs, Chain!Decide(n)
  PROVE  ChainInv'
<1> DEFINE index == run[n].index
           H == {h \in Chain!ChainHead(index) :
                   /\ run[n].id.trigger # "PURGE" /\ h.gen + 1 < FullEvery
                   /\ Chain!Members(h) \subseteq Chain!Ids(index)
                   /\ Chain!Members(h) \subseteq Chain!Ids(disk) \ broken}
<1>1. PICK P \in {H, {}} :
        /\ run' = [run EXCEPT ![n].phase = "building", ![n].index = {}, ![n].plan = P]
        /\ blind' = IF Chain!Ids(P) \cap blind = {} THEN blind ELSE blind \cup {run[n].id}
  BY DEF Chain!Decide
<1> DEFINE r == [run[n] EXCEPT !.phase = "building", !.index = {}, !.plan = P]
<1>2. run' = [run EXCEPT ![n] = r] /\ run[n].phase = "chaining"
      /\ UNCHANGED <<data, sec, disk, broken, hurt, lease>> /\ run[n] \in BackupRuns
  BY <1>1 DEF Chain!Decide, ChainInv, ChainTypes
<1>3. RunInv(n) /\ Coherent(disk \cup index) /\ DiskInv /\ lease = n
      /\ disk \subseteq Archives /\ index \subseteq Archives
  BY <1>2 DEF ChainInv, RunInv, Working, BackupRuns, ChainTypes
<1>4. ASSUME NEW h \in H
      PROVE  /\ run[n].id.trigger # "PURGE" /\ h.id.trigger # "PURGE" /\ h \in disk /\ H = {h}
             /\ \A b \in disk : b.id = h.id => b = h
             /\ \A b \in disk : run[n].id \notin blind /\ InChain(b, h) => b.gen <= h.gen
             /\ Present(Chain!Members(h))
  <2>1. /\ h \in index /\ run[n].id.trigger # "PURGE" /\ h.id.trigger # "PURGE"
        /\ h \in Chain!ChainHead(index)
    BY <1>4 DEF Chain!ChainHead
  <2>2. h.id \in Chain!Ids(disk)
    BY <1>4 DEF Chain!Members
  <2>3. h \in disk
    BY <1>3, <2>1, <2>2 DEF Coherent, Chain!Ids
  <2>4. ASSUME NEW b \in disk, run[n].id \notin blind, InChain(b, h)
        PROVE  b.gen <= h.gen
    <3>1. b.built <= h.built /\ b.built \in Nat /\ h.built \in Nat /\ b.gen \in Nat /\ h.gen \in Nat
      BY <1>2, <1>3, <2>1, <2>3, <2>4 DEF Archives, InChain, RunInv
    <3>2. CASE b.built = h.built
      BY <1>3, <2>3, <3>1, <3>2 DEF Coherent
    <3>3. CASE b.built < h.built
      <4>1. b.gen < h.gen
        BY <1>3, <2>3, <2>4, <3>3 DEF DiskInv, Ordered
      <4> QED BY <3>1, <4>1
    <3> QED BY <3>1, <3>2, <3>3
  <2>5. ASSUME NEW x \in H PROVE x = h
    <3>1. x \in index /\ x.built <= h.built /\ h.built <= x.built /\ x.built \in Nat /\ h.built \in Nat
      BY <1>3, <1>4, <2>1, <2>5 DEF Chain!ChainHead, Archives
    <3> QED BY <1>3, <2>1, <3>1 DEF Coherent
  <2>6. Present(Chain!Members(h))
    BY <1>4 DEF Present
  <2> QED BY <1>3, <1>4, <2>1, <2>3, <2>4, <2>5, <2>6 DEF Coherent
<1>5. P \subseteq H /\ H \subseteq disk /\ \A h \in P : h \in H /\ P = {h}
  BY <1>4
<1> HIDE DEF H
<1>6. r \in BackupRuns /\ r.phase = "building" /\ r.plan = P /\ r.id = run[n].id
  BY <1>2, <1>3, <1>5 DEF BackupRuns, RunPhases
<1> HIDE DEF r
<1>7. run'[n] = r
  BY <1>2 DEF ChainInv, ChainTypes
<1>8. PlanInv(n)'
  <2> SUFFICES ASSUME NEW h \in P
               PROVE  /\ r.id.trigger # "PURGE" /\ h.id.trigger # "PURGE" /\ P = {h}
                      /\ Spent(h.id)' /\ Spent(h.base)' /\ Settles(h)' /\ Supports(disk, h)'
                      /\ r.id \in blind' \/ h.id \notin blind'
                      /\ \A b \in disk' : /\ b.id = h.id => b = h
                                          /\ r.id \notin blind' /\ InChain(b, h)' => b.gen <= h.gen
                      /\ Present(Chain!Members(h))'
    BY <1>6, <1>7 DEF PlanInv
  <2>1. RunsOver' = RunsOver
    BY <1>2, <1>6, <1>7 DEF RunsOver, ChainInv, ChainTypes
  <2>2. Spent(h.id)' /\ Spent(h.base)' /\ Settles(h)' /\ Supports(disk, h)'
    <3>1. h \in disk
      BY <1>5
    <3>2. Spent(h.id) /\ Spent(h.base) /\ Settles(h) /\ Supports(disk, h)
      BY <1>3, <3>1 DEF DiskInv
    <3> QED BY <1>2, <2>1, <3>2 DEF Spent, Settles, Supports, Chain!Sources, Chain!NoId
  <2>3. Present(Chain!Members(h))'
    BY <1>2, <1>4, <1>5 DEF Present, Chain!Members, Chain!Sources, Chain!NoId, Chain!Ids
  <2>4. r.id \in blind' \/ h.id \notin blind'
    BY <1>1, <1>5, <1>6 DEF Chain!Ids
  <2>5. ASSUME NEW b \in disk', r.id \notin blind', InChain(b, h)' PROVE b.gen <= h.gen
    <3>1. b \in disk /\ run[n].id \notin blind /\ InChain(b, h)
      BY <1>1, <1>2, <1>6, <2>5 DEF InChain
    <3> QED BY <1>4, <1>5, <3>1
  <2> QED BY <1>2, <1>4, <1>5, <1>6, <2>2, <2>3, <2>4, <2>5
<1>9. RunInv(n)'
  <2>1. ~(r.phase = "publishing" \/ r.phase = "chaining" \/ r.phase = "new")
    BY <1>6
  <2>2. run[n].id \in Names /\ (run[n].id.trigger = "SCHEDULED" => run[n].id.n = n) /\ lease' = n
    BY <1>2, <1>3 DEF RunInv, Working
  <2> QED BY <1>6, <1>7, <1>8, <2>1, <2>2 DEF RunInv
<1> QED BY <1>1, <1>2, <1>3, <1>6, <1>9, Moves

LEMMA RunsAreCounted == \A S : Chain!Cardinality(S) = Cardinality(S)
BY DEF Chain!Cardinality, Cardinality

LEMMA BuildKeeps ==
  ASSUME ChainInv, NEW n \in Chain!Runs, Chain!Build(n)
  PROVE  ChainInv'
<1> DEFINE P == run[n].plan
           head == CHOOSE h \in P : TRUE
           prev == Chain!PreviousTableState(head)
           unchanged(t) == P # {} /\ prev[t].sha = data[t]
           made == [id |-> run[n].id, built |-> Chain!NextBuilt,
                    gen |-> IF P = {} THEN 0 ELSE head.gen + 1,
                    base |-> IF P = {} THEN run[n].id ELSE head.base,
                    tables |-> [t \in BackupTables |->
                      [sha |-> data[t], source |-> IF unchanged(t) THEN prev[t].source ELSE Chain!NoId]]]
           r == [run[n] EXCEPT !.phase = "publishing", !.made = {made}]
<1>1. run' = [run EXCEPT ![n] = r] /\ run[n].phase = "building"
      /\ UNCHANGED <<data, sec, disk, broken, hurt, lease>> /\ run[n] \in BackupRuns
  BY DEF Chain!Build, ChainInv, ChainTypes
<1>2. RunInv(n) /\ PlanInv(n) /\ DiskInv /\ lease = n /\ run[n].id \in Names /\ blind' = blind
  BY <1>1 DEF ChainInv, RunInv, Working, Chain!Build
<1>3. Chain!NextBuilt = Cardinality(RunsOver) + 1 /\ Cardinality(RunsOver) \in Nat
  <2>1. Cardinality(RunsOver) \in Nat
    <3>1. IsFiniteSet(Chain!Runs)
      BY KindsAssumption, FS_Interval DEF Chain!Runs
    <3> QED BY <3>1, FS_Subset, FS_CardinalityType DEF RunsOver
  <2>2. Chain!NextBuilt = Chain!Cardinality(RunsOver) + 1
    BY DEF Chain!NextBuilt, RunsOver
  <2> QED BY <2>1, <2>2, RunsAreCounted
<1>4. P # {} => head \in P /\ head \in Archives
  <2>1. P \subseteq Archives
    BY <1>1 DEF BackupRuns
  <2> QED BY <2>1
<1>5. ASSUME P # {}, NEW t \in BackupTables
      PROVE  /\ prev[t].sha = head.tables[t].sha
             /\ prev[t].source = (IF head.tables[t].source = Chain!NoId THEN head.id ELSE head.tables[t].source)
             /\ prev[t].source \in Names /\ prev[t].source \in Chain!Members(head)
             /\ head.tables[t] = [sha |-> head.tables[t].sha, source |-> head.tables[t].source]
  <2>1. head.tables[t] \in [sha : Nat, source : Names \cup {Chain!NoId}] /\ head.id \in Names
    BY <1>4, <1>5 DEF Archives, Contents
  <2>2. /\ prev[t].sha = head.tables[t].sha
        /\ prev[t].source = (IF head.tables[t].source = Chain!NoId THEN head.id ELSE head.tables[t].source)
    BY <1>5 DEF Chain!PreviousTableState
  <2> QED BY <1>5, <2>1, <2>2 DEF Chain!Members, Chain!Sources
<1> HIDE DEF head, prev, P
<1>6. /\ made.id = run[n].id /\ made.built = Cardinality(RunsOver) + 1
      /\ made.gen = (IF P = {} THEN 0 ELSE head.gen + 1)
      /\ made.base = (IF P = {} THEN run[n].id ELSE head.base)
      /\ made \in Archives
  <2>1. \A t \in BackupTables : data[t] \in Nat
    BY DEF ChainInv, ChainTypes
  <2>2. made.tables \in Contents
    BY <1>5, <2>1 DEF Contents
  <2>3. made.gen \in Nat /\ made.base \in Names
    BY <1>2, <1>4 DEF Archives
  <2> QED BY <1>2, <1>3, <2>2, <2>3 DEF Archives
<1>7. ASSUME NEW t \in BackupTables
      PROVE  \/ made.tables[t].source = Chain!NoId
             \/ /\ P # {} /\ made.tables[t].source = prev[t].source
                /\ made.tables[t].sha = head.tables[t].sha
  BY <1>5, <1>7
<1> HIDE DEF made
<1>8. Chain!Sources(made) \subseteq Names /\ IF P = {} THEN Chain!Sources(made) = {}
      ELSE Chain!Sources(made) \subseteq Chain!Members(head)
  <2>1. ASSUME NEW t \in BackupTables, made.tables[t].source # Chain!NoId
        PROVE  P # {} /\ made.tables[t].source \in Names /\ made.tables[t].source \in Chain!Members(head)
    BY <1>5, <1>7, <2>1
  <2> QED BY <2>1 DEF Chain!Sources
<1>9. P # {} => /\ P = {head} /\ run[n].id.trigger # "PURGE" /\ head.id.trigger # "PURGE"
                /\ Spent(head.id) /\ Spent(head.base) /\ Settles(head) /\ Supports(disk, head)
                /\ run[n].id \in blind \/ head.id \notin blind
                /\ \A b \in disk : /\ b.id = head.id => b = head
                                   /\ run[n].id \notin blind /\ InChain(b, head) => b.gen <= head.gen
  BY <1>2, <1>4 DEF PlanInv, P
<1>10. Settles(made)
  <2>1. P # {} => head.id.trigger = "SCHEDULED" /\ head.id.n \in RunsOver
    BY <1>4, <1>9 DEF Spent, Archives, Names
  <2> QED BY <1>8, <1>9, <2>1 DEF Settles, Chain!Members
<1>11. Supports(disk, made)
  <2> SUFFICES ASSUME NEW b \in disk, NEW t \in BackupTables, made.tables[t].source = b.id
               PROVE  b.tables[t] = [sha |-> made.tables[t].sha, source |-> Chain!NoId]
    BY DEF Supports
  <2>1. b.id \in Names /\ b.id # Chain!NoId
    BY DEF ChainInv, ChainTypes, Archives, Names, Chain!NoId
  <2>2. P # {} /\ b.id = prev[t].source /\ made.tables[t].sha = head.tables[t].sha
    BY <1>7, <2>1
  <2>3. CASE head.tables[t].source = Chain!NoId
    <3>1. b = head
      BY <1>5, <1>9, <2>2, <2>3
    <3> QED BY <1>5, <2>2, <2>3, <3>1
  <2>4. CASE head.tables[t].source # Chain!NoId
    BY <1>5, <1>9, <2>2, <2>4 DEF Supports
  <2> QED BY <2>3, <2>4
<1>12. \A b \in disk : b.built < made.built
  BY <1>2, <1>3, <1>6 DEF DiskInv, ChainInv, ChainTypes, Archives
<1>13. ASSUME NEW b \in disk, InChain(b, made)
       PROVE  b.gen < made.gen
  <2>1. CASE P = {}
    <3>1. run[n].id.trigger = "SCHEDULED" /\ run[n].id.n = n /\ b.base = run[n].id
      BY <1>2, <1>6, <1>13, <2>1 DEF Names, RunInv, InChain
    <3>2. n \in RunsOver
      BY <1>2, <3>1 DEF DiskInv, Spent
    <3> QED BY <1>1, <3>2 DEF RunsOver
  <2>2. CASE P # {}
    <3>1. b.gen <= head.gen /\ b.gen \in Nat /\ head.gen \in Nat
      BY <1>4, <1>6, <1>9, <1>13, <2>2 DEF ChainInv, ChainTypes, Archives, InChain
    <3> QED BY <1>6, <2>2, <3>1
  <2> QED BY <2>1, <2>2
<1>14. /\ r \in BackupRuns /\ r.phase = "publishing" /\ r.plan = P /\ r.id = run[n].id
       /\ r.made = {made}
  BY <1>1, <1>6 DEF BackupRuns, RunPhases, P
<1>15. run'[n] = r
  BY <1>1 DEF ChainInv, ChainTypes
<1> HIDE DEF r
<1>16. RunsOver' = RunsOver
  BY <1>1, <1>14, <1>15 DEF RunsOver, ChainInv, ChainTypes
<1>17. PlanInv(n)'
  <2> SUFFICES ASSUME NEW h \in P
               PROVE  /\ r.id.trigger # "PURGE" /\ h.id.trigger # "PURGE" /\ P = {h}
                      /\ Spent(h.id)' /\ Spent(h.base)' /\ Settles(h)' /\ Supports(disk, h)'
                      /\ r.id \in blind' \/ h.id \notin blind'
                      /\ \A b \in disk' : /\ b.id = h.id => b = h
                                          /\ r.id \notin blind' /\ InChain(b, h)' => b.gen <= h.gen
                      /\ r.id \in hurt \/ Present(Chain!Members(h))'
    BY <1>1, <1>14, <1>15 DEF PlanInv
  <2>1. Spent(h.id)' /\ Spent(h.base)' /\ Settles(h)' /\ Supports(disk, h)'
    BY <1>1, <1>2, <1>16 DEF PlanInv, P, Spent, Settles, Supports, Chain!Sources, Chain!NoId
  <2>2. r.id \in hurt \/ Present(Chain!Members(h))'
    BY <1>1, <1>2, <1>14 DEF PlanInv, P, Present, Chain!Members, Chain!Sources, Chain!NoId, Chain!Ids
  <2>3. ASSUME NEW b \in disk', r.id \notin blind', InChain(b, h)' PROVE b.gen <= h.gen
    BY <1>1, <1>2, <1>14, <2>3 DEF PlanInv, P, InChain
  <2> QED BY <1>1, <1>2, <1>14, <2>1, <2>2, <2>3 DEF PlanInv, P
<1>18. MadeInv(n)'
  <2> SUFFICES ASSUME NEW a, a = made
               PROVE  /\ a.id = r.id
                      /\ \A b \in disk : b.built < a.built /\ (InChain(b, a)' => b.gen < a.gen)
                      /\ a.built <= Cardinality(RunsOver') + 1
                      /\ Settles(a)' /\ Supports(disk, a)'
                      /\ IF P = {} THEN a.base = a.id /\ Chain!Sources(a)' = {}
                         ELSE \A h \in P : a.base = h.base /\ Chain!Sources(a)' \subseteq Chain!Members(h)'
    BY <1>1, <1>14, <1>15 DEF MadeInv
  <2>1. Chain!Sources(a)' = Chain!Sources(a) /\ \A h : Chain!Members(h)' = Chain!Members(h)
    BY DEF Chain!Members, Chain!Sources, Chain!NoId
  <2>2. Settles(a)' /\ Supports(disk, a)'
    BY <1>1, <1>10, <1>11, <1>16, <2>1 DEF Settles, Supports, Chain!NoId
  <2>3. a.id = r.id /\ a.built <= Cardinality(RunsOver') + 1
    BY <1>3, <1>6, <1>14, <1>16
  <2>4. IF P = {} THEN a.base = a.id /\ Chain!Sources(a)' = {}
        ELSE \A h \in P : a.base = h.base /\ Chain!Sources(a)' \subseteq Chain!Members(h)'
    BY <1>6, <1>8, <1>9, <2>1
  <2>5. ASSUME NEW b \in disk, InChain(b, a)' PROVE b.gen < a.gen
    BY <1>2, <1>13, <2>5 DEF InChain
  <2> QED BY <1>12, <2>2, <2>3, <2>4, <2>5
<1>19. RunInv(n)'
  <2>1. ~(r.phase = "chaining" \/ r.phase = "new") /\ r.made # {}
    BY <1>14
  <2>2. run[n].id \in Names /\ (run[n].id.trigger = "SCHEDULED" => run[n].id.n = n) /\ lease' = n
    BY <1>1, <1>2 DEF RunInv, Working
  <2> QED BY <1>14, <1>15, <1>17, <1>18, <2>1, <2>2 DEF RunInv
<1> QED BY <1>1, <1>2, <1>14, <1>19, Moves

\* What is renamed into place extends the chain, and takes the place of no
\* archive that another one points to.
LEMMA PublishKeeps ==
  ASSUME ChainInv, NEW n \in Chain!Runs, Chain!Publish(n)
  PROVE  ChainInv'
<1> DEFINE made == CHOOSE b \in run[n].made : TRUE
           done == [Chain!NewRun EXCEPT !.phase = "done"]
<1>1. /\ run' = [run EXCEPT ![n] = done] /\ run[n].phase = "publishing" /\ lease' = 0
      /\ disk' = {b \in disk : b.id # made.id} \cup run[n].made /\ broken' = broken \ {made.id}
      /\ hurt' = (IF made.id \in Chain!Ids(disk) THEN hurt \cup Chain!Bereft(made.id) \cup {made.id} ELSE hurt)
      /\ UNCHANGED <<data, sec, blind>> /\ run[n] \in BackupRuns
  BY DEF Chain!Publish, Chain!Rename, Chain!Ended, ChainInv, ChainTypes
<1>2. /\ RunInv(n) /\ PlanInv(n) /\ MadeInv(n) /\ made \in run[n].made
      /\ DiskInv /\ lease = n /\ run[n].id \in Names
  BY <1>1 DEF ChainInv, RunInv, Working
<1> HIDE DEF made
<1>3. PICK a : a = made
  OBVIOUS
<1>4. /\ disk' = {b \in disk : b.id # a.id} \cup {a} /\ a \in Archives /\ a.id = run[n].id
      /\ hurt \subseteq hurt' /\ (a.id \in Chain!Ids(disk) => a.id \in hurt') /\ broken' = broken \ {a.id}
      /\ disk \subseteq Archives
  BY <1>1, <1>2, <1>3 DEF MadeInv, BackupRuns, ChainInv, ChainTypes
<1>5. /\ \A b \in disk : b.built < a.built /\ (InChain(b, a) => b.gen < a.gen)
      /\ a.built <= Cardinality(RunsOver) + 1 /\ Settles(a) /\ Supports(disk, a)
      /\ IF run[n].plan = {} THEN a.base = a.id /\ Chain!Sources(a) = {}
         ELSE \A h \in run[n].plan : a.base = h.base /\ Chain!Sources(a) \subseteq Chain!Members(h)
  BY <1>2, <1>3 DEF MadeInv
<1>6. /\ run'[n] = done /\ done.phase = "done"
      /\ \A m \in Chain!Runs \ {n} : run'[m] = run[m]
  BY <1>1 DEF ChainInv, ChainTypes, Chain!NewRun
<1>7. n \notin RunsOver /\ RunsOver' = RunsOver \cup {n}
  <2>1. n \notin RunsOver /\ n \in RunsOver'
    BY <1>1, <1>6 DEF RunsOver, Chain!Runs
  <2>2. ASSUME NEW m PROVE m \in RunsOver' <=> m \in RunsOver \cup {n}
    <3>1. CASE m = n
      BY <2>1, <3>1
    <3>2. CASE m \in Chain!Runs \ {n}
      <4>1. run'[m].phase = run[m].phase
        BY <1>6, <3>2
      <4> QED BY <3>2, <4>1 DEF RunsOver, Chain!Runs
    <3>3. CASE m \notin Chain!Runs /\ m # n
      BY <3>3 DEF RunsOver, Chain!Runs
    <3> QED BY <3>1, <3>2, <3>3
  <2> QED BY <2>1, <2>2
<1>8. Cardinality(RunsOver) \in Nat /\ Cardinality(RunsOver') = Cardinality(RunsOver) + 1
  <2>1. IsFiniteSet(RunsOver)
    <3>1. IsFiniteSet(Chain!Runs)
      BY KindsAssumption, FS_Interval DEF Chain!Runs
    <3> QED BY <3>1, FS_Subset DEF RunsOver
  <2> QED BY <1>7, <2>1, FS_AddElement, FS_CardinalityType
<1>9. \A b : Chain!Sources(b)' = Chain!Sources(b) /\ Chain!Members(b)' = Chain!Members(b)
  BY DEF Chain!Members, Chain!Sources, Chain!NoId
\* Nothing points to the place it takes.
<1>10. ASSUME NEW b, Settles(b) PROVE a.id \notin Chain!Sources(b)
  BY <1>2, <1>4, <1>7, <1>10 DEF Settles, RunInv
<1>11. \A i : Spent(i) => Spent(i)'
  BY <1>7 DEF Spent
<1>12. ASSUME NEW b, Settles(b) PROVE Settles(b)'
  BY <1>7, <1>9, <1>12 DEF Settles
<1>13. ASSUME NEW b, Settles(b), Supports(disk, b) PROVE Supports(disk, b)'
  <2> SUFFICES ASSUME NEW d \in disk', NEW t \in BackupTables, b.tables[t].source = d.id
               PROVE  d.tables[t] = [sha |-> b.tables[t].sha, source |-> Chain!NoId]
    BY DEF Supports, Chain!NoId
  <2>1. d.id \in Names /\ d.id # Chain!NoId
    BY <1>4 DEF Archives, Names, Chain!NoId
  <2>2. d.id \in Chain!Sources(b)
    BY <2>1 DEF Chain!Sources
  <2>3. d \in disk
    BY <1>4, <1>10, <1>13, <2>2
  <2> QED BY <1>13, <2>3 DEF Supports
<1>14. ASSUME NEW S, Present(S) PROVE Present(S)'
  BY <1>4, <1>14 DEF Present, Chain!Ids
<1>15. Coherent(disk)' /\ Ordered'
  <2>1. ASSUME NEW b \in disk', NEW c \in disk', b.id = c.id PROVE b = c
    BY <1>2, <1>4, <2>1 DEF DiskInv, Coherent
  <2>2. ASSUME NEW b \in disk', NEW c \in disk'
        PROVE  /\ b.built = c.built => b = c
               /\ InChain(b, c) /\ b.built < c.built => b.gen < c.gen
    <3>1. b.built \in Nat /\ c.built \in Nat
      BY <1>4 DEF Archives
    <3>2. CASE b \in disk /\ c \in disk
      BY <1>2, <3>2 DEF DiskInv, Coherent, Ordered
    <3>3. CASE b \in disk /\ c = a
      <4>1. b.built < c.built
        BY <1>5, <3>3
      <4> QED BY <1>5, <3>1, <3>3, <4>1
    <3>4. CASE b = a /\ c \in disk
      <4>1. c.built < b.built
        BY <1>5, <3>4
      <4> QED BY <3>1, <3>4, <4>1
    <3>5. CASE b = a /\ c = a
      BY <3>1, <3>5
    <3> QED BY <1>4, <3>2, <3>3, <3>4, <3>5
  <2>3. \A b, c : InChain(b, c)' = InChain(b, c)
    BY <1>1 DEF InChain
  <2> QED BY <2>1, <2>2, <2>3 DEF Coherent, Ordered
<1>16. /\ Spent(a.id)' /\ Spent(a.base)' /\ Settles(a)' /\ Supports(disk, a)'
       /\ a.built <= Cardinality(RunsOver') /\ (a.id \in hurt' \/ Present(Chain!Sources(a))')
  <2>1. Spent(a.id)'
    BY <1>2, <1>4, <1>7 DEF RunInv, Spent
  <2>2. Settles(a)' /\ Supports(disk, a)'
    BY <1>5, <1>12, <1>13
  <2>3. CASE run[n].plan = {}
    <3>1. a.base = a.id /\ Chain!Sources(a)' = {}
      BY <1>5, <1>9, <2>3
    <3> QED BY <1>5, <1>8, <2>1, <2>2, <3>1 DEF Present
  <2>4. ASSUME NEW h \in run[n].plan PROVE Spent(a.base)' /\ (a.id \in hurt' \/ Present(Chain!Sources(a))')
    <3>1. a.base = h.base /\ Chain!Sources(a) \subseteq Chain!Members(h)
      BY <1>5, <2>4
    <3>2. Spent(h.base) /\ (a.id \in hurt \/ Present(Chain!Members(h)))
      BY <1>2, <1>4, <2>4 DEF PlanInv
    <3>3. a.id \in hurt \/ Present(Chain!Sources(a))
      BY <3>1, <3>2 DEF Present
    <3> QED BY <1>4, <1>9, <1>11, <1>14, <3>1, <3>2, <3>3
  <2> QED BY <1>5, <1>8, <2>1, <2>2, <2>3, <2>4
<1>17. ASSUME NEW b \in disk
       PROVE  /\ Spent(b.id)' /\ Spent(b.base)' /\ Settles(b)' /\ Supports(disk, b)'
              /\ b.built <= Cardinality(RunsOver') /\ (b.id \in hurt' \/ Present(Chain!Sources(b))')
  <2>1. /\ Spent(b.id) /\ Spent(b.base) /\ Settles(b) /\ Supports(disk, b)
        /\ b.built <= Cardinality(RunsOver) /\ (b.id \in hurt \/ Present(Chain!Sources(b)))
    BY <1>2 DEF DiskInv
  <2>2. b.built \in Nat
    BY <1>4 DEF Archives
  <2>3. b.id \in hurt' \/ Present(Chain!Sources(b))'
    BY <1>4, <1>9, <1>14, <2>1
  <2> QED BY <1>8, <1>11, <1>12, <1>13, <2>1, <2>2, <2>3
<1>18. DiskInv'
  <2>1. \A b \in disk' : b \in disk \/ b = a
    BY <1>4
  <2> QED BY <1>15, <1>16, <1>17, <2>1 DEF DiskInv
<1>19. RunInv(n)' /\ run'[n] \in BackupRuns
  BY <1>6, RunIdle
<1>20. ASSUME NEW m \in Chain!Runs \ {n} PROVE RunInv(m)' /\ run'[m] \in BackupRuns
  <2>1. RunInv(m) /\ ~Working(m) /\ run'[m] = run[m]
    BY <1>2, <1>6, <1>20 DEF ChainInv, RunInv
  <2> QED BY <1>20, <2>1 DEF RunInv, Working, ChainInv, ChainTypes
<1>21. ChainTypes'
  <2>1. disk' \in SUBSET Archives
    BY <1>4
  <2>2. run' \in [Chain!Runs -> BackupRuns]
    BY <1>1, <1>19, <1>20 DEF Chain!Runs, ChainInv, ChainTypes
  <2> QED BY <1>1, <2>1, <2>2 DEF ChainInv, ChainTypes
<1> QED BY <1>18, <1>19, <1>20, <1>21 DEF ChainInv

-----------------------------------------------------------------------------

LEMMA ChainInvInit == ASSUME Chain!Init PROVE ChainInv
<1>1. /\ data \in [BackupTables -> Nat] /\ sec \in Nat /\ disk = {}
      /\ run = [n \in Chain!Runs |-> Chain!NewRun]
  BY DEF Chain!Init
<1>2. Chain!NewRun \in BackupRuns /\ Chain!NewRun.phase = "new" /\ Chain!NewRun.id.trigger = "-"
  BY DEF Chain!NewRun, Chain!NoId, BackupRuns, RunPhases
<1>3. ChainTypes
  BY <1>1, <1>2 DEF ChainTypes
<1>4. DiskInv
  BY <1>1 DEF DiskInv, Coherent, Ordered
<1>5. \A n \in Chain!Runs : RunInv(n)
  BY <1>1, <1>2 DEF RunInv, Working, Chain!Runs
<1> QED BY <1>3, <1>4, <1>5 DEF ChainInv

LEMMA ChainInvStep == ASSUME ChainInv, [Chain!Next]_Chain!vars PROVE ChainInv'
<1>1. CASE UNCHANGED Chain!vars
  BY <1>1, Still DEF Chain!vars, ChainInv, ChainTypes
<1>2. CASE Chain!Second
  BY <1>2, Still DEF Chain!Second, ChainInv, ChainTypes
<1>3. ASSUME NEW t \in BackupTables, Chain!Change(t) PROVE ChainInv'
  BY <1>3, Still DEF Chain!Change, ChainInv, ChainTypes
<1>4. ASSUME NEW n \in Chain!Runs, Chain!Cut(n) PROVE ChainInv'
  <2>1. /\ \A m \in Chain!Runs \ {n} : lease = m => lease' = m
        /\ UNCHANGED <<data, sec, disk, broken, hurt, blind>>
    BY <1>4 DEF Chain!Cut, ChainInv, RunInv, Working
  <2>2. run' = [m \in Chain!Runs |-> IF m \in {n} THEN [Chain!NewRun EXCEPT !.phase = "done"] ELSE run[m]]
    BY <1>4 DEF Chain!Cut, Chain!Ended, ChainInv, ChainTypes
  <2>3. {n} \in SUBSET Chain!Runs
    BY <1>4
  <2>4. PICK S : S = {n}
    OBVIOUS
  <2> QED BY <2>1, <2>2, <2>3, <2>4, Ends
<1>5. ASSUME NEW p \in Stores, Chain!Crash(p) PROVE ChainInv'
  <2> DEFINE S == {n \in Chain!Runs : run[n].at = p}
  <2>1. run' = [m \in Chain!Runs |-> IF m \in S THEN [Chain!NewRun EXCEPT !.phase = "done"] ELSE run[m]]
    BY <1>5 DEF Chain!Crash
  <2>2. /\ \A m \in Chain!Runs \ S : lease = m => lease' = m
        /\ UNCHANGED <<data, sec, disk, broken, hurt, blind>>
    BY <1>5 DEF Chain!Crash
  <2> QED BY <2>1, <2>2, Ends
<1>6. ASSUME NEW p \in Stores, Chain!ReadIndex(p) \/ Chain!FillCache(p) \/ Chain!CacheExpires(p)
      PROVE  ChainInv'
  BY <1>6, Still DEF Chain!ReadIndex, Chain!FillCache, Chain!CacheExpires, ChainInv, ChainTypes
<1>7. ASSUME NEW p \in Stores, NEW id, Chain!Delete(p, id) PROVE ChainInv'
  BY <1>7, Still DEF Chain!Delete, ChainInv, ChainTypes
<1>8. ASSUME NEW p \in Stores, NEW id, Chain!Unlink(p, id) PROVE ChainInv'
  <2>1. CASE id \in Chain!Ids(disk)
    <3>1. /\ UNCHANGED <<data, sec, run, lease, blind>> /\ disk' = {a \in disk : a.id # id}
          /\ broken' = broken \ {id} /\ hurt' = hurt \cup Chain!Bereft(id)
      BY <1>8, <2>1 DEF Chain!Unlink
    <3> QED BY <3>1, Takes
  <2>2. CASE id \notin Chain!Ids(disk)
    <3>1. UNCHANGED <<data, sec, run, lease, disk, broken, hurt, blind>>
      BY <1>8, <2>2 DEF Chain!Unlink
    <3> QED BY <3>1, Still DEF ChainInv, ChainTypes
  <2> QED BY <2>1, <2>2
<1>9. ASSUME NEW id, Chain!Damage(id) PROVE ChainInv'
  <2>1. /\ UNCHANGED <<data, sec, run, lease, disk, blind>> /\ broken' = broken \cup {id}
        /\ hurt' = hurt \cup Chain!Bereft(id)
    BY <1>9 DEF Chain!Damage
  <2> QED BY <2>1, Takes
<1> QED BY <1>1, <1>2, <1>3, <1>4, <1>5, <1>6, <1>7, <1>8, <1>9, RequestKeeps, EnterKeeps,
           DecideKeeps, BuildKeeps, PublishKeeps DEF Chain!Next

LEMMA ChainInvSuffices == ChainInv => Chain!ChainIsWhole
<1> SUFFICES ASSUME ChainInv PROVE Chain!ChainIsWhole
  OBVIOUS
<1>1. ASSUME NEW a \in disk, a.id \notin hurt, NEW t \in BackupTables PROVE Chain!Resolves(a, t)
  <2> SUFFICES ASSUME a.tables[t].source # Chain!NoId PROVE Chain!Resolves(a, t)
    BY DEF Chain!Resolves
  <2>1. Present(Chain!Sources(a)) /\ a.tables[t].source \in Chain!Sources(a) /\ Supports(disk, a)
    BY <1>1 DEF ChainInv, DiskInv, Chain!Sources
  <2>2. PICK b \in disk : b.id = a.tables[t].source /\ b.id \notin broken
    BY <2>1 DEF Present, Chain!Ids
  <2> QED BY <2>1, <2>2 DEF Supports, Chain!Resolves
<1>2. ASSUME NEW a \in disk, NEW b \in disk, a.base = b.base, a.gen = b.gen,
             a.id.trigger # "PURGE", b.id.trigger # "PURGE", {a.id, b.id} \cap blind = {}
      PROVE  a = b
  <2>1. a.built \in Nat /\ b.built \in Nat /\ a.gen \in Nat
    BY DEF ChainInv, ChainTypes, Archives
  <2>2. ~(a.built < b.built) /\ ~(b.built < a.built)
    BY <1>2, <2>1 DEF ChainInv, DiskInv, Ordered, InChain
  <2> QED BY <2>1, <2>2 DEF ChainInv, DiskInv, Coherent
<1> QED BY <1>1, <1>2 DEF Chain!ChainIsWhole

\* Every archive that can be restored when it is written can be restored as
\* long as no file it builds on is removed or damaged, and no two archives
\* claim one place in a chain unless a run, or one it continues from, could
\* not read the newest archive: for any tables, any number of workers, runs,
\* deletions, unreadable files, cuts and crashes, in any order.
THEOREM ChainsAreWhole == Chain!Spec => []Chain!ChainIsWhole
<1>1. Chain!Init => ChainInv
  BY ChainInvInit
<1>2. ChainInv /\ [Chain!Next]_Chain!vars => ChainInv'
  BY ChainInvStep
<1> QED BY <1>1, <1>2, ChainInvSuffices, PTL DEF Chain!Spec

\* A step of the composition is one of the archives, or leaves them alone.
LEMMA ChainSteps == [Next]_vars => [Chain!Next]_Chain!vars
<1> SUFFICES ASSUME [Next]_vars, ~Chain!Next PROVE UNCHANGED Chain!vars
  OBVIOUS
<1>1. UNCHANGED chain
  BY DEF Next, vars
<1> QED BY <1>1 DEF chain, Chain!vars

\* The same in the composition, while the backups are what is looked at.
THEOREM ChainIsWholeTheorem == Spec => []ChainIsWhole
<1>1. Init => ChainInv
  BY ChainInvInit DEF Init
<1>2. ChainInv /\ [Next]_vars => ChainInv'
  BY ChainInvStep, ChainSteps
<1>3. ChainInv => ChainIsWhole
  BY ChainInvSuffices DEF ChainIsWhole
<1> QED BY <1>1, <1>2, <1>3, PTL DEF Spec

-----------------------------------------------------------------------------
(* BackupWatchdog                                                          *)

Ages       == 0..Watchdog!Long
Holding    == {"guarded", "settling", "expired"}
AtWork     == {"leasing"} \cup Holding
CallPhases == {"new", "queued", "ended"} \cup AtWork
Works      == {"none", "idle", "db", "failed", "write", "rename", "done"}

ReqScopes  == [on : BOOLEAN, limit : Limits, idle : Ages, cut : BOOLEAN, follows : BOOLEAN]
Guards     == [idle : Ages, cut : {"no", "parent", "stall"}]

CutTypes ==
  /\ reqScope \in [Backups -> ReqScopes] /\ guardScope \in [Backups -> Guards]
  /\ callPhase \in [Backups -> CallPhases]
  /\ work \in [Backups -> [at : Works, age : Ages]]
  /\ said \in [Backups -> {"ok", "failed", "cut", "nothing", "none"}]
  /\ quiet \in [Backups -> Ages] /\ fresh \in BOOLEAN
  /\ cutLease \in [by : Backups \cup {"none", "other"}, age : Ages]

\* Who has a place in the line, and that only its head is served.
LineInv ==
  /\ queue \in Seq(Backups)
  /\ \A i, j \in 1..Len(queue) : queue[i] = queue[j] => i = j
  /\ \A i \in 1..Len(queue) : callPhase[queue[i]] \in AtWork \cup {"queued"}
  /\ \A i \in 1..Len(queue) : i > 1 => callPhase[queue[i]] = "queued"
  /\ \A c \in Backups : callPhase[c] \in AtWork \cup {"queued"} =>
       \E i \in 1..Len(queue) : queue[i] = c

\* The lease is with the call at work, and younger than what others take.
LeaseInv(c) ==
  /\ cutLease.by = c <=> callPhase[c] \in Holding
  /\ callPhase[c] \in Holding /\ guardScope[c].cut = "no" =>
       /\ guardScope[c].idle <= GuardLimit /\ cutLease.age <= GuardLimit + StallFactor + 1
       /\ fresh \/ cutLease.age <= guardScope[c].idle
  /\ callPhase[c] \in {"guarded", "settling"} /\ guardScope[c].cut # "no" =>
       cutLease.age <= GuardLimit + 1
  /\ callPhase[c] = "expired" => cutLease.age <= GuardLimit + StallFactor + 2

\* What the work of a call may still do when the call has been cut or is over.
WorkInv(c) ==
  /\ callPhase[c] \in {"new", "queued", "leasing"} => work[c].at = "none" /\ guardScope[c].cut = "no"
  /\ callPhase[c] \in {"settling", "expired"} => guardScope[c].cut = "stall"
  /\ callPhase[c] = "ended" => /\ work[c].at \in {"none", "done", "failed"} \/ guardScope[c].cut # "no"
                               /\ work[c].at = "rename" => guardScope[c].cut = "parent" \/ c \in late
  /\ work[c].at = "done" \/ said[c] = "ok" => c \in published
  /\ said[c] = "nothing" => /\ callPhase[c] = "ended" /\ guardScope[c].cut = "stall"
                            /\ c \in late \/ c \notin published

\* A scope never looks quieter than the work it stands for has been.
IdleInv(c) ==
  /\ reqScope[c].cut \/ callPhase[c] = "ended" => ~reqScope[c].on
  /\ reqScope[c].on /\ callPhase[c] # "new" => reqScope[c].idle <= quiet[c]
  /\ callPhase[c] \in {"guarded", "settling"} => guardScope[c].idle <= quiet[c]
  /\ callPhase[c] = "queued" /\ reqScope[c].on /\ queue[1] # c => reqScope[c].follows
  /\ callPhase[c] \in AtWork => ~reqScope[c].follows

\* Whose scope the others follow.
HolderInv(c) ==
  /\ callPhase[c] = "leasing" => \/ holder = [who |-> c, scope |-> "req"]
                                 \/ holder = Watchdog!NoOne /\ ~reqScope[c].on
  /\ callPhase[c] \in Holding => holder = [who |-> c, scope |-> "guard"]

\* A call that waits is no quieter than the one before it, unless it can follow it.
BehindInv ==
  \A i, j \in 1..Len(queue) : i < j /\ reqScope[queue[j]].on =>
    \/ callPhase[queue[i]] \in Holding
    \/ reqScope[queue[j]].idle <= quiet[queue[i]]
    \/ /\ callPhase[queue[i]] = "leasing" /\ holder = [who |-> queue[i], scope |-> "req"]
       /\ reqScope[queue[i]].idle <= quiet[queue[i]]

CutInv ==
  /\ CutTypes /\ LineInv /\ BehindInv /\ wrong = {}
  /\ \A c \in Backups : LeaseInv(c) /\ WorkInv(c) /\ IdleInv(c) /\ HolderInv(c)

LEMMA AgesAre == Watchdog!Long \in Nat /\ 0 \in Ages /\ \A a \in Ages : a \in Nat /\ a <= Watchdog!Long
BY WatchdogAssumption DEF Ages, Watchdog!Long

\* Only the head of the line is at work.
LEMMA OneAtWork ==
  ASSUME CutInv, NEW c \in Backups, callPhase[c] \in AtWork
  PROVE  /\ Len(queue) \in Nat /\ Len(queue) > 0 /\ queue[1] = c /\ queue # <<>>
         /\ \A d \in Backups \ {c} : callPhase[d] \notin AtWork
<1>1. \A d \in Backups : callPhase[d] \in AtWork => Len(queue) > 0 /\ queue[1] = d
  <2> SUFFICES ASSUME NEW d \in Backups, callPhase[d] \in AtWork PROVE Len(queue) > 0 /\ queue[1] = d
    OBVIOUS
  <2>1. PICK i \in 1..Len(queue) : queue[i] = d
    BY DEF CutInv, LineInv
  <2>2. ~(i > 1)
    BY <2>1 DEF CutInv, LineInv, AtWork, Holding
  <2> QED BY <2>1, <2>2 DEF CutInv, LineInv
<1> QED BY <1>1 DEF CutInv, LineInv

\* A call that a step leaves alone.
LEMMA OtherKeeps ==
  ASSUME CutInv, NEW d \in Backups,
         reqScope'[d] = reqScope[d], guardScope'[d] = guardScope[d], callPhase'[d] = callPhase[d],
         work'[d] = work[d], said'[d] = said[d], quiet'[d] = quiet[d],
         late \subseteq late', d \in published <=> d \in published',
         queue'[1] # d => queue[1] # d \/ callPhase[d] # "queued",
         \/ callPhase[d] \notin AtWork /\ cutLease'.by # d
         \/ UNCHANGED <<cutLease, fresh, holder>>
  PROVE  (LeaseInv(d) /\ WorkInv(d) /\ IdleInv(d) /\ HolderInv(d))'
<1>1. LeaseInv(d) /\ WorkInv(d) /\ IdleInv(d) /\ HolderInv(d)
  BY DEF CutInv
<1>2. LeaseInv(d)'
  BY <1>1 DEF LeaseInv, AtWork, Holding
<1>3. WorkInv(d)'
  BY <1>1 DEF WorkInv
<1>4. IdleInv(d)'
  BY <1>1 DEF IdleInv, AtWork, Holding
<1>5. HolderInv(d)'
  BY <1>1 DEF HolderInv, AtWork, Holding, Watchdog!NoOne
<1> QED BY <1>2, <1>3, <1>4, <1>5

LEMMA ArriveKeeps ==
  ASSUME CutInv, NEW c \in Backups, Watchdog!Arrive(c) PROVE CutInv'
<1>0. /\ CutTypes /\ LineInv /\ BehindInv /\ wrong = {}
      /\ \A d \in Backups : LeaseInv(d) /\ WorkInv(d) /\ IdleInv(d) /\ HolderInv(d)
  BY DEF CutInv
<1>1. /\ callPhase[c] = "new" /\ callPhase' = [callPhase EXCEPT ![c] = "queued"]
      /\ queue' = Append(queue, c)
      /\ reqScope' = [reqScope EXCEPT ![c].idle = 0, ![c].follows = Watchdog!Follows(c)]
      /\ quiet' = [quiet EXCEPT ![c] = 0]
      /\ UNCHANGED <<guardScope, said, work, holder, cutLease, fresh, published, late, wrong>>
  BY DEF Watchdog!Arrive
<1>2. /\ callPhase'[c] = "queued" /\ quiet'[c] = 0
      /\ reqScope'[c] = [reqScope[c] EXCEPT !.idle = 0, !.follows = (reqScope[c].on /\ queue # <<>>)]
      /\ \A d \in Backups \ {c} : /\ callPhase'[d] = callPhase[d] /\ quiet'[d] = quiet[d]
                                  /\ reqScope'[d] = reqScope[d]
  BY <1>0, <1>1 DEF Watchdog!Follows, CutTypes
<1>3. /\ Len(queue) \in Nat /\ Len(queue') = Len(queue) + 1 /\ queue'[Len(queue) + 1] = c
      /\ queue' \in Seq(Backups) /\ \A i \in 1..Len(queue) : queue'[i] = queue[i] /\ queue[i] # c
  <2>1. queue \in Seq(Backups) /\ \A i \in 1..Len(queue) : queue[i] # c
    BY <1>0, <1>1 DEF LineInv, AtWork, Holding
  <2> QED BY <1>1, <2>1
<1>4. CutTypes'
  <2>1. 0 \in Ages
    BY AgesAre
  <2>2. reqScope'[c] \in ReqScopes
    <3>1. (reqScope[c].on /\ queue # <<>>) \in BOOLEAN
      OBVIOUS
    <3>2. \A b \in BOOLEAN : [reqScope[c] EXCEPT !.idle = 0, !.follows = b] \in ReqScopes
      <4>1. PICK x \in ReqScopes : x = reqScope[c]
        BY <1>0 DEF CutTypes
      <4>2. \A b \in BOOLEAN : [x EXCEPT !.idle = 0, !.follows = b] \in ReqScopes
        BY <2>1 DEF ReqScopes
      <4> QED BY <4>1, <4>2
    <3> QED BY <1>2, <3>1, <3>2
  <2>3. reqScope' \in [Backups -> ReqScopes]
    BY <1>0, <1>1, <1>2, <2>2 DEF CutTypes
  <2>4. callPhase' \in [Backups -> CallPhases]
    BY <1>0, <1>1 DEF CallPhases, CutTypes
  <2>5. quiet' \in [Backups -> Ages]
    BY <1>0, <1>1, <2>1 DEF CutTypes
  <2> QED BY <1>0, <1>1, <2>3, <2>4, <2>5 DEF CutTypes
<1>5. LineInv'
  <2> DEFINE L == Len(queue)
  <2>1. LineInv /\ Len(queue') = L + 1 /\ L \in Nat
    BY <1>0, <1>3
  <2>2. ASSUME NEW i \in 1..(L + 1) PROVE i = L + 1 \/ (i \in 1..L /\ i # L + 1)
    BY <2>1
  <2>3. ASSUME NEW i \in 1..L PROVE queue'[i] = queue[i] /\ queue[i] \in Backups \ {c}
                                    /\ callPhase'[queue[i]] = callPhase[queue[i]]
    BY <1>0, <1>2, <1>3 DEF LineInv
  <2>4. \A i, j \in 1..(L + 1) : queue'[i] = queue'[j] => i = j
    <3> SUFFICES ASSUME NEW i \in 1..(L + 1), NEW j \in 1..(L + 1), queue'[i] = queue'[j] PROVE i = j
      OBVIOUS
    <3>1. CASE i = L + 1
      BY <1>3, <2>2, <2>3, <3>1
    <3>2. CASE j = L + 1
      BY <1>3, <2>2, <2>3, <3>2
    <3>3. CASE i \in 1..L /\ j \in 1..L
      BY <2>1, <2>3, <3>3 DEF LineInv
    <3> QED BY <2>2, <3>1, <3>2, <3>3
  <2>5. \A i \in 1..(L + 1) : callPhase'[queue'[i]] \in AtWork \cup {"queued"}
    BY <1>2, <1>3, <2>1, <2>2, <2>3 DEF LineInv
  <2>6. \A i \in 1..(L + 1) : i > 1 => callPhase'[queue'[i]] = "queued"
    BY <1>2, <1>3, <2>1, <2>2, <2>3 DEF LineInv
  <2>7. ASSUME NEW d \in Backups, callPhase'[d] \in AtWork \cup {"queued"}
        PROVE  \E i \in 1..(L + 1) : queue'[i] = d
    <3>1. CASE d = c
      BY <1>3, <2>1, <3>1
    <3>2. CASE d # c
      <4>1. PICK i \in 1..L : queue[i] = d
        BY <1>2, <2>1, <2>7, <3>2 DEF LineInv
      <4>2. i \in 1..(L + 1) /\ queue'[i] = d
        BY <2>1, <2>3, <4>1
      <4> QED BY <4>2
    <3> QED BY <3>1, <3>2
  <2> HIDE DEF L
  <2> QED BY <1>3, <2>1, <2>4, <2>5, <2>6, <2>7 DEF LineInv, L
<1>6. BehindInv'
  <2> SUFFICES ASSUME NEW i \in 1..Len(queue'), NEW j \in 1..Len(queue'), i < j,
                      reqScope'[queue'[j]].on
               PROVE  \/ callPhase'[queue'[i]] \in Holding
                      \/ reqScope'[queue'[j]].idle <= quiet'[queue'[i]]
                      \/ /\ callPhase'[queue'[i]] = "leasing"
                         /\ holder' = [who |-> queue'[i], scope |-> "req"]
                         /\ reqScope'[queue'[i]].idle <= quiet'[queue'[i]]
    BY DEF BehindInv
  <2>1. i \in 1..Len(queue) /\ queue'[i] = queue[i] /\ queue[i] \in Backups \ {c}
    BY <1>0, <1>3 DEF LineInv
  <2>2. CASE j = Len(queue) + 1
    <3>1. reqScope'[queue'[j]].idle = 0
      <4>1. queue'[j] = c
        BY <1>3, <2>2
      <4>2. reqScope'[c].idle = 0
        BY <1>0, <1>2 DEF CutTypes, ReqScopes
      <4> QED BY <4>1, <4>2
    <3>2. quiet'[queue'[i]] \in Ages
      BY <1>4, <2>1 DEF CutTypes
    <3> QED BY <3>1, <3>2, AgesAre
  <2>3. CASE j \in 1..Len(queue)
    <3>1. queue'[j] = queue[j] /\ queue[j] \in Backups \ {c}
      BY <1>0, <1>3, <2>3 DEF LineInv
    <3>2. \/ callPhase[queue[i]] \in Holding
          \/ reqScope[queue[j]].idle <= quiet[queue[i]]
          \/ /\ callPhase[queue[i]] = "leasing" /\ holder = [who |-> queue[i], scope |-> "req"]
             /\ reqScope[queue[i]].idle <= quiet[queue[i]]
      BY <1>0, <1>2, <2>1, <2>3, <3>1 DEF BehindInv
    <3>3. /\ reqScope'[queue'[j]] = reqScope[queue[j]] /\ reqScope'[queue'[i]] = reqScope[queue[i]]
          /\ callPhase'[queue'[i]] = callPhase[queue[i]] /\ quiet'[queue'[i]] = quiet[queue[i]]
      BY <1>2, <2>1, <3>1
    <3> QED BY <1>1, <2>1, <3>2, <3>3
  <2>4. j \in 1..(Len(queue) + 1) /\ Len(queue) \in Nat
    BY <1>3
  <2> QED BY <2>2, <2>3, <2>4
<1>7. ASSUME NEW d \in Backups \ {c} PROVE (LeaseInv(d) /\ WorkInv(d) /\ IdleInv(d) /\ HolderInv(d))'
  <2>1. callPhase[d] = "queued" => 1 \in 1..Len(queue)
    BY <1>0 DEF LineInv
  <2>2. queue'[1] # d => queue[1] # d \/ callPhase[d] # "queued"
    BY <1>3, <2>1
  <2> QED BY <1>1, <1>2, <2>2, OtherKeeps
<1>8. (LeaseInv(c) /\ WorkInv(c) /\ IdleInv(c) /\ HolderInv(c))'
  <2>1. LeaseInv(c) /\ WorkInv(c) /\ IdleInv(c) /\ HolderInv(c) /\ reqScope[c] \in ReqScopes
    BY <1>0 DEF CutTypes
  <2>2. LeaseInv(c)' /\ WorkInv(c)' /\ HolderInv(c)'
    BY <1>1, <1>2, <2>1 DEF LeaseInv, WorkInv, HolderInv, AtWork, Holding
  <2>3. queue = <<>> => queue'[1] = c
    BY <1>3
  <2>4. IdleInv(c)'
    <3>1. reqScope'[c].idle = 0 /\ reqScope'[c].on = reqScope[c].on /\ reqScope'[c].cut = reqScope[c].cut
          /\ (reqScope'[c].follows <=> reqScope[c].on /\ queue # <<>>)
      BY <1>2, <2>1 DEF ReqScopes
    <3> QED BY <1>1, <1>2, <2>1, <2>3, <3>1 DEF IdleInv, AtWork, Holding
  <2> QED BY <2>2, <2>4
<1> QED BY <1>0, <1>1, <1>4, <1>5, <1>6, <1>7, <1>8 DEF CutInv

\* The line when only its head moves on, and when its head goes.
LEMMA HeadMoves ==
  ASSUME CutInv, NEW c \in Backups, queue' = queue, Len(queue) > 0, queue[1] = c, callPhase'[c] \in AtWork,
         \A d \in Backups \ {c} : /\ reqScope'[d] = reqScope[d] /\ quiet'[d] = quiet[d]
                                 /\ callPhase'[d] = callPhase[d],
         \/ callPhase'[c] \in Holding
         \/ /\ callPhase'[c] = "leasing" /\ holder' = [who |-> c, scope |-> "req"]
            /\ reqScope'[c].idle <= quiet'[c]
         \/ callPhase[c] = "queued" /\ quiet'[c] = quiet[c]
  PROVE  LineInv' /\ BehindInv'
<1>0. LineInv /\ BehindInv /\ Len(queue) \in Nat
  BY DEF CutInv, LineInv
<1>1. ASSUME NEW i \in 1..Len(queue), i > 1
      PROVE  /\ queue[i] \in Backups \ {c} /\ callPhase[queue[i]] = "queued"
             /\ callPhase'[queue[i]] = "queued"
             /\ reqScope'[queue[i]] = reqScope[queue[i]] /\ quiet'[queue[i]] = quiet[queue[i]]
  <2>1. queue[i] \in Backups \ {c} /\ callPhase[queue[i]] = "queued"
    BY <1>0, <1>1 DEF LineInv
  <2> QED BY <2>1
<1>2. LineInv'
  <2>1. ASSUME NEW i \in 1..Len(queue)
        PROVE  /\ callPhase'[queue[i]] \in AtWork \cup {"queued"}
               /\ i > 1 => callPhase'[queue[i]] = "queued"
    <3>1. i = 1 \/ i > 1
      BY <1>0, <2>1
    <3> QED BY <1>1, <2>1, <3>1
  <2>2. ASSUME NEW d \in Backups, callPhase'[d] \in AtWork \cup {"queued"}
        PROVE  \E i \in 1..Len(queue) : queue[i] = d
    <3>1. CASE d = c
      BY <1>0, <3>1
    <3>2. CASE d # c
      BY <1>0, <2>2, <3>2 DEF LineInv
    <3> QED BY <3>1, <3>2
  <2> QED BY <1>0, <2>1, <2>2 DEF LineInv
<1>3. BehindInv'
  <2> SUFFICES ASSUME NEW i \in 1..Len(queue), NEW j \in 1..Len(queue), i < j,
                      reqScope'[queue[j]].on
               PROVE  \/ callPhase'[queue[i]] \in Holding
                      \/ reqScope'[queue[j]].idle <= quiet'[queue[i]]
                      \/ /\ callPhase'[queue[i]] = "leasing"
                         /\ holder' = [who |-> queue[i], scope |-> "req"]
                         /\ reqScope'[queue[i]].idle <= quiet'[queue[i]]
    BY DEF BehindInv
  <2>1. j > 1 /\ reqScope[queue[j]].on
    BY <1>0, <1>1
  <2>2. \/ callPhase[queue[i]] \in Holding
        \/ reqScope[queue[j]].idle <= quiet[queue[i]]
        \/ callPhase[queue[i]] = "leasing"
    BY <1>0, <2>1 DEF BehindInv
  <2>3. CASE i > 1
    <3>1. reqScope[queue[j]].idle <= quiet[queue[i]]
      BY <1>1, <2>2, <2>3 DEF Holding
    <3>2. reqScope'[queue[j]] = reqScope[queue[j]] /\ quiet'[queue[i]] = quiet[queue[i]]
      BY <1>1, <2>1, <2>3
    <3> QED BY <3>1, <3>2
  <2>4. CASE i = 1
    <3>1. reqScope'[queue[j]] = reqScope[queue[j]] /\ queue[i] = c
      BY <1>1, <2>1, <2>4
    <3> QED BY <2>2, <3>1 DEF Holding
  <2> QED BY <1>0, <2>3, <2>4
<1> QED BY <1>2, <1>3

LEMMA HeadGoes ==
  ASSUME CutInv, NEW c \in Backups, callPhase[c] \in AtWork, queue' = Tail(queue),
         callPhase'[c] = "ended",
         \A d \in Backups \ {c} : /\ reqScope'[d] = reqScope[d] /\ quiet'[d] = quiet[d]
                                 /\ callPhase'[d] = callPhase[d]
  PROVE  LineInv' /\ BehindInv'
<1>0. LineInv /\ BehindInv /\ Len(queue) \in Nat /\ Len(queue) > 0 /\ queue[1] = c /\ queue # <<>>
      /\ queue \in Seq(Backups)
  BY OneAtWork DEF CutInv, LineInv
<1>1. /\ queue' \in Seq(Backups) /\ Len(queue') = Len(queue) - 1
      /\ \A i \in 1..Len(queue') : queue'[i] = queue[i + 1]
  BY <1>0
<1> DEFINE L == Len(queue')
<1>2. L \in Nat /\ Len(queue) = L + 1
  BY <1>0, <1>1
<1>3. ASSUME NEW i \in 1..L
      PROVE  /\ i + 1 \in 1..Len(queue) /\ queue'[i] = queue[i + 1] /\ i + 1 > 1
             /\ queue'[i] \in Backups \ {c}
             /\ callPhase[queue'[i]] = "queued" /\ callPhase'[queue'[i]] = "queued"
             /\ reqScope'[queue'[i]] = reqScope[queue'[i]] /\ quiet'[queue'[i]] = quiet[queue'[i]]
  <2>1. i + 1 \in 1..Len(queue) /\ queue'[i] = queue[i + 1] /\ i + 1 > 1 /\ 1 \in 1..Len(queue)
    BY <1>1, <1>2, <1>3
  <2>2. queue[i + 1] \in Backups /\ queue[i + 1] # c
    BY <1>0, <2>1 DEF LineInv
  <2>3. callPhase[queue[i + 1]] = "queued"
    BY <1>0, <2>1 DEF LineInv
  <2> QED BY <2>1, <2>2, <2>3
<1> HIDE DEF L
<1>4. LineInv'
  <2>1. ASSUME NEW i \in 1..L, NEW j \in 1..L, queue'[i] = queue'[j] PROVE i = j
    <3>1. i + 1 = j + 1
      BY <1>0, <1>3, <2>1 DEF LineInv
    <3> QED BY <1>2, <3>1
  <2>2. ASSUME NEW d \in Backups, callPhase'[d] \in AtWork \cup {"queued"}
        PROVE  \E i \in 1..L : queue'[i] = d
    <3>1. d # c
      BY <2>2 DEF AtWork, Holding
    <3>2. PICK i \in 1..Len(queue) : queue[i] = d
      BY <1>0, <2>2, <3>1 DEF LineInv
    <3>3. i - 1 \in 1..L /\ (i - 1) + 1 = i
      BY <1>0, <1>2, <3>1, <3>2
    <3> QED BY <1>3, <3>2, <3>3
  <2> QED BY <1>1, <1>3, <2>1, <2>2 DEF LineInv, L
<1>5. BehindInv'
  <2> SUFFICES ASSUME NEW i \in 1..L, NEW j \in 1..L, i < j, reqScope'[queue'[j]].on
               PROVE  reqScope'[queue'[j]].idle <= quiet'[queue'[i]]
    BY DEF BehindInv, L
  <2>1. reqScope[queue'[j]].idle <= quiet[queue'[i]]
    <3>1. /\ i + 1 \in 1..Len(queue) /\ j + 1 \in 1..Len(queue) /\ i + 1 < j + 1
          /\ queue'[i] = queue[i + 1] /\ queue'[j] = queue[j + 1]
          /\ reqScope'[queue'[j]] = reqScope[queue'[j]] /\ callPhase[queue'[i]] = "queued"
      BY <1>2, <1>3
    <3>2. reqScope[queue[j + 1]].on /\ callPhase[queue[i + 1]] = "queued"
      BY <3>1
    <3>3. reqScope[queue[j + 1]].idle <= quiet[queue[i + 1]]
      BY <1>0, <3>1, <3>2 DEF BehindInv, Holding
    <3> QED BY <3>1, <3>3
  <2> QED BY <1>3, <2>1
<1> QED BY <1>4, <1>5

LEMMA TurnKeeps ==
  ASSUME CutInv, NEW c \in Backups, Watchdog!Turn(c) PROVE CutInv'
<1>0. /\ CutTypes /\ LineInv /\ wrong = {}
      /\ \A d \in Backups : LeaseInv(d) /\ WorkInv(d) /\ IdleInv(d) /\ HolderInv(d)
  BY DEF CutInv
<1>1. /\ callPhase[c] = "queued" /\ callPhase' = [callPhase EXCEPT ![c] = "leasing"]
      /\ reqScope' = [reqScope EXCEPT ![c].follows = FALSE]
      /\ holder' = (IF reqScope[c].on \/ reqScope[c].cut THEN [who |-> c, scope |-> "req"] ELSE Watchdog!NoOne)
      /\ UNCHANGED <<guardScope, said, work, queue, cutLease, fresh, published, quiet, late, wrong>>
  BY DEF Watchdog!Turn
<1>2. Len(queue) \in Nat /\ Len(queue) > 0 /\ queue[1] = c
  <2>1. Len(queue) \in Nat /\ Len(queue) > 0 /\ queue \in Seq(Backups)
    BY <1>0, <1>1 DEF LineInv
  <2> QED BY <2>1 DEF Watchdog!Turn
<1>3. /\ callPhase'[c] = "leasing" /\ reqScope'[c] = [reqScope[c] EXCEPT !.follows = FALSE]
      /\ reqScope[c] \in ReqScopes
      /\ \A d \in Backups \ {c} : callPhase'[d] = callPhase[d] /\ reqScope'[d] = reqScope[d]
  BY <1>0, <1>1 DEF CutTypes
<1>4. CutTypes'
  <2>1. reqScope'[c] \in ReqScopes
    BY <1>3 DEF ReqScopes
  <2>2. reqScope' \in [Backups -> ReqScopes]
    BY <1>0, <1>1, <1>3, <2>1 DEF CutTypes
  <2>3. callPhase' \in [Backups -> CallPhases]
    BY <1>0, <1>1 DEF CallPhases, AtWork, CutTypes
  <2> QED BY <1>0, <1>1, <2>2, <2>3 DEF CutTypes
<1>5. LineInv' /\ BehindInv'
  BY <1>1, <1>2, <1>3, HeadMoves DEF AtWork
<1>6. ASSUME NEW d \in Backups \ {c} PROVE (LeaseInv(d) /\ WorkInv(d) /\ IdleInv(d) /\ HolderInv(d))'
  <2>1. callPhase[d] \notin AtWork
    BY <1>2, OneAtWork
  <2>2. cutLease.by # d
    BY <1>0, <2>1 DEF LeaseInv, AtWork
  <2> QED BY <1>1, <1>3, <2>1, <2>2, OtherKeeps
<1>7. (LeaseInv(c) /\ WorkInv(c) /\ IdleInv(c) /\ HolderInv(c))'
  <2>1. LeaseInv(c) /\ WorkInv(c) /\ IdleInv(c) /\ HolderInv(c)
    BY <1>0
  <2>2. /\ reqScope'[c].on = reqScope[c].on /\ reqScope'[c].cut = reqScope[c].cut
        /\ reqScope'[c].idle = reqScope[c].idle /\ ~reqScope'[c].follows
    BY <1>3 DEF ReqScopes
  <2>3. LeaseInv(c)' /\ WorkInv(c)'
    BY <1>1, <1>3, <2>1 DEF LeaseInv, WorkInv, AtWork, Holding
  <2>4. IdleInv(c)' /\ HolderInv(c)'
    BY <1>1, <1>3, <2>1, <2>2 DEF IdleInv, HolderInv, AtWork, Holding, Watchdog!NoOne
  <2> QED BY <2>3, <2>4
<1> QED BY <1>0, <1>1, <1>4, <1>5, <1>6, <1>7 DEF CutInv

\* A call ends, its work may go on.
LEMMA EndKeepsCut ==
  ASSUME CutInv, NEW c \in Backups, NEW says \in {"ok", "failed", "cut", "nothing"},
         callPhase[c] \in AtWork, Watchdog!Ends(c, says), late \subseteq late', UNCHANGED wrong,
         work[c].at \in {"none", "done", "failed"} \/ guardScope[c].cut # "no",
         work[c].at = "rename" => guardScope[c].cut = "parent" \/ c \in late',
         says = "ok" => c \in published,
         says = "nothing" => guardScope[c].cut = "stall" /\ (c \in late' \/ c \notin published)
  PROVE  CutInv'
<1>0. /\ CutTypes /\ LineInv /\ wrong = {}
      /\ \A d \in Backups : LeaseInv(d) /\ WorkInv(d) /\ IdleInv(d) /\ HolderInv(d)
  BY DEF CutInv
<1>1. /\ callPhase' = [callPhase EXCEPT ![c] = "ended"] /\ said' = [said EXCEPT ![c] = says]
      /\ cutLease' = (IF cutLease.by = c THEN [by |-> "none", age |-> 0] ELSE cutLease)
      /\ queue' = Tail(queue) /\ reqScope' = [reqScope EXCEPT ![c].on = FALSE]
      /\ UNCHANGED <<guardScope, work, fresh, published, quiet>>
  BY DEF Watchdog!Ends
<1>2. Len(queue) > 0 /\ queue[1] = c /\ \A d \in Backups \ {c} : callPhase[d] \notin AtWork
  BY OneAtWork
<1>3. /\ callPhase'[c] = "ended" /\ said'[c] = says /\ reqScope'[c] = [reqScope[c] EXCEPT !.on = FALSE]
      /\ reqScope[c] \in ReqScopes
      /\ \A d \in Backups \ {c} : /\ callPhase'[d] = callPhase[d] /\ reqScope'[d] = reqScope[d]
                                  /\ said'[d] = said[d]
  BY <1>0, <1>1 DEF CutTypes
<1>4. LineInv' /\ BehindInv'
  BY <1>1, <1>3, HeadGoes
<1>5. CutTypes'
  <2>1. reqScope'[c] \in ReqScopes
    BY <1>3 DEF ReqScopes
  <2>2. reqScope' \in [Backups -> ReqScopes]
    BY <1>0, <1>1, <1>3, <2>1 DEF CutTypes
  <2>3. callPhase' \in [Backups -> CallPhases] /\ said' \in [Backups -> {"ok", "failed", "cut", "nothing", "none"}]
    BY <1>0, <1>1 DEF CallPhases, AtWork, CutTypes
  <2>4. cutLease' \in [by : Backups \cup {"none", "other"}, age : Ages]
    BY <1>0, <1>1, AgesAre DEF CutTypes
  <2> QED BY <1>0, <1>1, <2>2, <2>3, <2>4 DEF CutTypes
<1>6. ASSUME NEW d \in Backups \ {c} PROVE (LeaseInv(d) /\ WorkInv(d) /\ IdleInv(d) /\ HolderInv(d))'
  <2>1. callPhase[d] \notin AtWork
    BY <1>2
  <2>2. cutLease.by # d /\ d # "none"
    BY <1>0, <2>1, WatchdogAssumption DEF LeaseInv, AtWork
  <2>3. cutLease'.by # d
    BY <1>1, <2>2
  <2> QED BY <1>1, <1>2, <1>3, <2>1, <2>3, OtherKeeps
<1>7. (LeaseInv(c) /\ WorkInv(c) /\ IdleInv(c) /\ HolderInv(c))'
  <2>1. LeaseInv(c) /\ WorkInv(c) /\ IdleInv(c) /\ HolderInv(c)
    BY <1>0
  <2>2. ~reqScope'[c].on
    BY <1>3 DEF ReqScopes
  <2>3. cutLease'.by # c
    BY <1>1, WatchdogAssumption
  <2>4. LeaseInv(c)' /\ HolderInv(c)'
    BY <1>3, <2>3 DEF LeaseInv, HolderInv, AtWork, Holding
  <2>5. WorkInv(c)'
    BY <1>1, <1>3, <2>1 DEF WorkInv, AtWork, Holding
  <2>6. IdleInv(c)'
    BY <1>3, <2>2 DEF IdleInv, AtWork, Holding
  <2> QED BY <2>4, <2>5, <2>6
<1> QED BY <1>0, <1>4, <1>5, <1>6, <1>7 DEF CutInv

LEMMA PollKeeps ==
  ASSUME CutInv, NEW c \in Backups, Watchdog!Poll(c) PROVE CutInv'
<1>0. /\ CutTypes /\ LineInv /\ wrong = {}
      /\ \A d \in Backups : LeaseInv(d) /\ WorkInv(d) /\ IdleInv(d) /\ HolderInv(d)
  BY DEF CutInv
<1>a. callPhase[c] = "leasing" /\ callPhase[c] \in AtWork
  BY DEF Watchdog!Poll, AtWork
<1>b. work[c].at = "none" /\ guardScope[c].cut = "no"
  BY <1>0, <1>a DEF WorkInv
<1>c. CASE reqScope[c].cut
  <2>1. Watchdog!Ends(c, "cut") /\ UNCHANGED <<late, wrong>>
    BY <1>c DEF Watchdog!Poll
  <2> QED BY <1>a, <1>b, <2>1, EndKeepsCut
<1>d. CASE ~reqScope[c].cut
  <2>1. /\ cutLease' = [by |-> c, age |-> 0] /\ fresh' = TRUE
        /\ callPhase' = [callPhase EXCEPT ![c] = "guarded"]
        /\ work' = [work EXCEPT ![c].at = "idle"] /\ guardScope' = [guardScope EXCEPT ![c].idle = 0]
        /\ holder' = [who |-> c, scope |-> "guard"]
        /\ UNCHANGED <<reqScope, said, queue, published, quiet, late, wrong>>
    BY <1>d DEF Watchdog!Poll
  <2>2. Len(queue) > 0 /\ queue[1] = c /\ \A d \in Backups \ {c} : callPhase[d] \notin AtWork
    BY <1>a, OneAtWork
  <2>3. /\ callPhase'[c] = "guarded" /\ work'[c] = [work[c] EXCEPT !.at = "idle"]
        /\ guardScope'[c] = [guardScope[c] EXCEPT !.idle = 0]
        /\ guardScope[c] \in Guards /\ work[c] \in [at : Works, age : Ages] /\ quiet[c] \in Ages
        /\ \A d \in Backups \ {c} : /\ callPhase'[d] = callPhase[d] /\ work'[d] = work[d]
                                    /\ guardScope'[d] = guardScope[d]
    BY <1>0, <2>1 DEF CutTypes
  <2>4. /\ work'[c].at = "idle" /\ work'[c] \in [at : Works, age : Ages]
        /\ guardScope'[c].idle = 0 /\ guardScope'[c].cut = "no" /\ guardScope'[c] \in Guards
    BY <1>b, <2>3, AgesAre DEF Works, Guards
  <2>5. CutTypes'
    <3>1. callPhase' \in [Backups -> CallPhases]
      BY <1>0, <2>1 DEF CallPhases, AtWork, Holding, CutTypes
    <3>2. work' \in [Backups -> [at : Works, age : Ages]] /\ guardScope' \in [Backups -> Guards]
      BY <1>0, <2>1, <2>3, <2>4 DEF CutTypes
    <3>3. cutLease' \in [by : Backups \cup {"none", "other"}, age : Ages]
      BY <2>1, AgesAre
    <3> QED BY <1>0, <2>1, <3>1, <3>2, <3>3 DEF CutTypes
  <2>6. LineInv' /\ BehindInv'
    BY <2>1, <2>2, <2>3, HeadMoves DEF AtWork, Holding
  <2>7. ASSUME NEW d \in Backups \ {c} PROVE (LeaseInv(d) /\ WorkInv(d) /\ IdleInv(d) /\ HolderInv(d))'
    <3>1. callPhase[d] \notin AtWork /\ cutLease'.by # d
      BY <2>1, <2>2
    <3> QED BY <2>1, <2>2, <2>3, <3>1, OtherKeeps
  <2>8. (LeaseInv(c) /\ WorkInv(c) /\ IdleInv(c) /\ HolderInv(c))'
    <3>1. LeaseInv(c) /\ WorkInv(c) /\ IdleInv(c) /\ HolderInv(c)
      BY <1>0
    <3>2. LeaseInv(c)'
      BY <2>1, <2>3, <2>4, WatchdogAssumption DEF LeaseInv, Holding
    <3>3. WorkInv(c)'
      BY <1>a, <2>1, <2>3, <2>4, <3>1 DEF WorkInv
    <3>4. IdleInv(c)'
      BY <1>a, <1>d, <2>1, <2>3, <2>4, <3>1, AgesAre DEF IdleInv, AtWork, Holding
    <3>5. HolderInv(c)'
      BY <2>1, <2>3 DEF HolderInv, Holding
    <3> QED BY <3>2, <3>3, <3>4, <3>5
  <2> QED BY <1>0, <2>1, <2>5, <2>6, <2>7, <2>8 DEF CutInv
<1> QED BY <1>c, <1>d

LEMMA WaitsKeeps ==
  ASSUME CutInv, NEW c \in Backups, Watchdog!Waits(c) PROVE CutInv'
<1>0. /\ CutTypes /\ LineInv /\ wrong = {}
      /\ \A d \in Backups : LeaseInv(d) /\ WorkInv(d) /\ IdleInv(d) /\ HolderInv(d)
  BY DEF CutInv
<1>1. /\ callPhase[c] = "leasing" /\ callPhase[c] \in AtWork /\ reqScope[c].on
      /\ reqScope' = [reqScope EXCEPT ![c].idle = 0] /\ quiet' = [quiet EXCEPT ![c] = 0]
      /\ UNCHANGED <<guardScope, callPhase, said, work, queue, holder, cutLease, fresh, published, late, wrong>>
  BY DEF Watchdog!Waits, AtWork
<1>2. Len(queue) > 0 /\ queue[1] = c /\ \A d \in Backups \ {c} : callPhase[d] \notin AtWork
  BY <1>1, OneAtWork
<1>3. /\ reqScope'[c] = [reqScope[c] EXCEPT !.idle = 0] /\ quiet'[c] = 0 /\ reqScope[c] \in ReqScopes
      /\ \A d \in Backups \ {c} : reqScope'[d] = reqScope[d] /\ quiet'[d] = quiet[d]
  BY <1>0, <1>1 DEF CutTypes
<1>4. /\ reqScope'[c] \in ReqScopes /\ reqScope'[c].idle = 0 /\ reqScope'[c].on = reqScope[c].on
      /\ reqScope'[c].cut = reqScope[c].cut /\ reqScope'[c].follows = reqScope[c].follows
  BY <1>3, AgesAre DEF ReqScopes
<1>5. CutTypes'
  <2>1. reqScope' \in [Backups -> ReqScopes] /\ quiet' \in [Backups -> Ages]
    BY <1>0, <1>1, <1>3, <1>4, AgesAre DEF CutTypes
  <2> QED BY <1>0, <1>1, <2>1 DEF CutTypes
<1>6. holder' = [who |-> c, scope |-> "req"]
  BY <1>0, <1>1 DEF HolderInv
<1>7. LineInv' /\ BehindInv'
  <2>1. reqScope'[c].idle <= quiet'[c]
    BY <1>3, <1>4
  <2> QED BY <1>1, <1>2, <1>3, <1>6, <2>1, HeadMoves
<1>8. ASSUME NEW d \in Backups \ {c} PROVE (LeaseInv(d) /\ WorkInv(d) /\ IdleInv(d) /\ HolderInv(d))'
  BY <1>1, <1>3, OtherKeeps
<1>9. (LeaseInv(c) /\ WorkInv(c) /\ IdleInv(c) /\ HolderInv(c))'
  <2>1. LeaseInv(c) /\ WorkInv(c) /\ IdleInv(c) /\ HolderInv(c)
    BY <1>0
  <2>2. LeaseInv(c)' /\ WorkInv(c)'
    BY <1>1, <2>1 DEF LeaseInv, WorkInv
  <2>3. IdleInv(c)' /\ HolderInv(c)'
    BY <1>1, <1>3, <1>4, <2>1 DEF IdleInv, HolderInv, AtWork, Holding, Watchdog!NoOne
  <2> QED BY <2>2, <2>3
<1> QED BY <1>0, <1>1, <1>5, <1>7, <1>8, <1>9 DEF CutInv

LEMMA GuardKeepsCut ==
  ASSUME CutInv, NEW c \in Backups, Watchdog!GuardEnds(c) \/ Watchdog!GuardCut(c) \/ Watchdog!Resolve(c)
  PROVE  CutInv'
<1>0. /\ CutTypes /\ LineInv /\ wrong = {}
      /\ \A d \in Backups : LeaseInv(d) /\ WorkInv(d) /\ IdleInv(d) /\ HolderInv(d)
  BY DEF CutInv
<1>1. CASE Watchdog!GuardEnds(c)
  <2>1. /\ callPhase[c] \in AtWork /\ work[c].at \in {"done", "failed"} /\ UNCHANGED <<late, wrong>>
        /\ Watchdog!Ends(c, IF work[c].at = "done" THEN "ok" ELSE "failed")
    BY <1>1 DEF Watchdog!GuardEnds, AtWork, Holding
  <2>2. work[c].at = "done" => c \in published
    BY <1>0 DEF WorkInv
  <2> QED BY <2>1, <2>2, EndKeepsCut
<1>2. CASE Watchdog!GuardCut(c) /\ guardScope[c].cut # "stall"
  <2>1. /\ callPhase[c] \in AtWork /\ guardScope[c].cut = "parent" /\ UNCHANGED <<late, wrong>>
        /\ Watchdog!Ends(c, "cut")
    BY <1>0, <1>2 DEF Watchdog!GuardCut, AtWork, Holding, CutTypes, Guards
  <2> QED BY <2>1, EndKeepsCut
<1>3. CASE Watchdog!GuardCut(c) /\ guardScope[c].cut = "stall"
  <2>1. /\ callPhase[c] = "guarded" /\ callPhase[c] \in AtWork
        /\ callPhase' = [callPhase EXCEPT ![c] = "settling"]
        /\ UNCHANGED <<reqScope, guardScope, said, work, queue, holder, cutLease, fresh, published, quiet, late, wrong>>
    BY <1>3 DEF Watchdog!GuardCut, AtWork, Holding
  <2>2. Len(queue) > 0 /\ queue[1] = c /\ \A d \in Backups \ {c} : callPhase[d] \notin AtWork
    BY <2>1, OneAtWork
  <2>3. callPhase'[c] = "settling" /\ \A d \in Backups \ {c} : callPhase'[d] = callPhase[d]
    BY <1>0, <2>1 DEF CutTypes
  <2>4. CutTypes'
    BY <1>0, <2>1 DEF CutTypes, CallPhases, AtWork, Holding
  <2>5. LineInv' /\ BehindInv'
    BY <2>1, <2>2, <2>3, HeadMoves DEF AtWork, Holding
  <2>6. ASSUME NEW d \in Backups \ {c} PROVE (LeaseInv(d) /\ WorkInv(d) /\ IdleInv(d) /\ HolderInv(d))'
    BY <2>1, <2>3, OtherKeeps
  <2>7. (LeaseInv(c) /\ WorkInv(c) /\ IdleInv(c) /\ HolderInv(c))'
    BY <1>0, <1>3, <2>1, <2>3 DEF LeaseInv, WorkInv, IdleInv, HolderInv, AtWork, Holding
  <2> QED BY <1>0, <2>1, <2>4, <2>5, <2>6, <2>7 DEF CutInv
<1>4. CASE Watchdog!Resolve(c)
  <2>1. /\ callPhase[c] \in AtWork /\ UNCHANGED wrong
        /\ Watchdog!Ends(c, IF c \in published THEN "ok" ELSE "nothing")
        /\ late \subseteq late' /\ (Watchdog!Settled(c) \/ c \in late')
    BY <1>4 DEF Watchdog!Resolve, AtWork, Holding
  <2>2. guardScope[c].cut = "stall"
    BY <1>0, <1>4 DEF WorkInv, Watchdog!Resolve
  <2>3. work[c].at = "rename" => c \in late'
    BY <2>1 DEF Watchdog!Settled, Watchdog!Publishing
  <2> QED BY <2>1, <2>2, <2>3, EndKeepsCut
<1> QED BY <1>1, <1>2, <1>3, <1>4

\* The work of a call goes on, in the call or after it.
LEMMA WorkKeepsCut ==
  ASSUME CutInv, NEW c \in Backups, NEW w \in [at : Works, age : Ages],
         callPhase[c] \in Holding \cup {"ended"}, work' = [work EXCEPT ![c] = w],
         UNCHANGED <<callPhase, said, queue, holder, cutLease, late, wrong>>,
         Watchdog!Touches(c) \/ UNCHANGED <<reqScope, guardScope, quiet, fresh>>,
         published' = published \/ (published' = published \cup {c} /\ (said[c] # "nothing" \/ c \in late)),
         callPhase[c] = "ended" =>
           /\ w.at \in {"done", "failed"} \/ guardScope[c].cut # "no"
           /\ Watchdog!Touches(c) => guardScope[c].cut # "no"
           /\ w.at = "rename" => guardScope[c].cut = "parent" \/ c \in late,
         w.at = "done" => c \in published'
  PROVE  CutInv'
<1>0. /\ CutTypes /\ LineInv /\ BehindInv /\ wrong = {}
      /\ \A d \in Backups : LeaseInv(d) /\ WorkInv(d) /\ IdleInv(d) /\ HolderInv(d)
  BY DEF CutInv
<1>1. /\ reqScope[c] \in ReqScopes /\ guardScope[c] \in Guards /\ quiet[c] \in Ages
      /\ work'[c] = w /\ \A d \in Backups \ {c} : work'[d] = work[d]
  BY <1>0 DEF CutTypes
\* A touch counts for a scope that is not cut, and for no other.
<1>2. /\ \A d \in Backups \ {c} : reqScope'[d] = reqScope[d] /\ guardScope'[d] = guardScope[d] /\ quiet'[d] = quiet[d]
      /\ reqScope' \in [Backups -> ReqScopes] /\ guardScope' \in [Backups -> Guards] /\ quiet' \in [Backups -> Ages]
      /\ reqScope'[c].on = reqScope[c].on /\ reqScope'[c].cut = reqScope[c].cut
      /\ reqScope'[c].follows = reqScope[c].follows /\ guardScope'[c].cut = guardScope[c].cut
      /\ fresh' \in BOOLEAN
      /\ \/ reqScope'[c].idle = reqScope[c].idle /\ guardScope'[c].idle = guardScope[c].idle
            /\ quiet'[c] = quiet[c] /\ fresh' = fresh
         \/ /\ guardScope[c].cut = "no" /\ guardScope'[c].idle = 0 /\ quiet'[c] = 0
            /\ reqScope[c].cut \/ reqScope'[c].idle = 0
            /\ fresh' = (fresh \/ cutLease.by = c)
  <2>1. CASE UNCHANGED <<reqScope, guardScope, quiet, fresh>>
    BY <1>0, <2>1 DEF CutTypes
  <2>2. CASE Watchdog!Touches(c)
    <3>1. /\ guardScope' = [guardScope EXCEPT ![c].idle = IF guardScope[c].cut = "no" THEN 0 ELSE @]
          /\ reqScope' = [reqScope EXCEPT ![c].idle = IF guardScope[c].cut = "no" /\ ~reqScope[c].cut THEN 0 ELSE @]
          /\ quiet' = [quiet EXCEPT ![c] = IF guardScope[c].cut = "no" THEN 0 ELSE @]
          /\ fresh' = (fresh \/ (cutLease.by = c /\ guardScope[c].cut = "no"))
      BY <2>2 DEF Watchdog!Touches
    <3>2. /\ guardScope'[c] = [guardScope[c] EXCEPT !.idle = IF guardScope[c].cut = "no" THEN 0 ELSE @]
          /\ reqScope'[c] = [reqScope[c] EXCEPT !.idle = IF guardScope[c].cut = "no" /\ ~reqScope[c].cut THEN 0 ELSE @]
          /\ quiet'[c] = (IF guardScope[c].cut = "no" THEN 0 ELSE quiet[c])
      BY <1>0, <3>1 DEF CutTypes
    <3>3. reqScope'[c] \in ReqScopes /\ guardScope'[c] \in Guards /\ quiet'[c] \in Ages
      BY <1>1, <3>2, AgesAre DEF ReqScopes, Guards
    <3>4. /\ \A d \in Backups \ {c} : reqScope'[d] = reqScope[d] /\ guardScope'[d] = guardScope[d] /\ quiet'[d] = quiet[d]
          /\ reqScope' \in [Backups -> ReqScopes] /\ guardScope' \in [Backups -> Guards] /\ quiet' \in [Backups -> Ages]
      BY <1>0, <3>1, <3>3 DEF CutTypes
    <3>5. /\ reqScope'[c].on = reqScope[c].on /\ reqScope'[c].cut = reqScope[c].cut
          /\ reqScope'[c].follows = reqScope[c].follows /\ guardScope'[c].cut = guardScope[c].cut
          /\ reqScope'[c].idle = (IF guardScope[c].cut = "no" /\ ~reqScope[c].cut THEN 0 ELSE reqScope[c].idle)
          /\ guardScope'[c].idle = (IF guardScope[c].cut = "no" THEN 0 ELSE guardScope[c].idle)
      BY <1>1, <3>2 DEF ReqScopes, Guards
    <3>6. fresh' \in BOOLEAN
      BY <1>0, <3>1 DEF CutTypes
    <3>7. CASE guardScope[c].cut = "no"
      BY <3>1, <3>2, <3>4, <3>5, <3>6, <3>7
    <3>8. CASE guardScope[c].cut # "no"
      <4>1. fresh' = fresh
        BY <1>0, <3>1, <3>8 DEF CutTypes
      <4> QED BY <3>2, <3>4, <3>5, <3>6, <3>8, <4>1
    <3> QED BY <3>7, <3>8
  <2> QED BY <2>1, <2>2
<1>3. CutTypes'
  <2>1. work' \in [Backups -> [at : Works, age : Ages]]
    BY <1>0 DEF CutTypes
  <2> QED BY <1>0, <1>2, <2>1 DEF CutTypes
<1>4. LineInv' /\ BehindInv'
  <2>1. LineInv'
    BY <1>0 DEF LineInv
  <2>2. BehindInv'
    <3> SUFFICES ASSUME NEW i \in 1..Len(queue), NEW j \in 1..Len(queue), i < j,
                        reqScope'[queue[j]].on, callPhase[queue[i]] \notin Holding
                 PROVE  \/ reqScope'[queue[j]].idle <= quiet'[queue[i]]
                        \/ /\ callPhase[queue[i]] = "leasing"
                           /\ holder = [who |-> queue[i], scope |-> "req"]
                           /\ reqScope'[queue[i]].idle <= quiet'[queue[i]]
      BY DEF BehindInv
    <3>1. /\ queue[i] \in Backups /\ queue[j] \in Backups /\ callPhase[queue[j]] = "queued"
          /\ callPhase[queue[i]] \in AtWork \cup {"queued"}
      BY <1>0 DEF LineInv
    <3>2. queue[i] # c /\ queue[j] # c
      BY <3>1 DEF AtWork, Holding
    <3>3. /\ reqScope'[queue[i]] = reqScope[queue[i]] /\ reqScope'[queue[j]] = reqScope[queue[j]]
          /\ quiet'[queue[i]] = quiet[queue[i]]
      BY <1>2, <3>1, <3>2
    <3> QED BY <1>0, <3>3 DEF BehindInv
  <2> QED BY <2>1, <2>2
<1>5. ASSUME NEW d \in Backups \ {c} PROVE (LeaseInv(d) /\ WorkInv(d) /\ IdleInv(d) /\ HolderInv(d))'
  <2>1. CASE fresh' = fresh
    BY <1>1, <1>2, <2>1, OtherKeeps
  <2>2. CASE cutLease.by = c
    <3>1. callPhase[d] \notin AtWork /\ cutLease'.by # d
      BY <1>0, <2>2, OneAtWork DEF LeaseInv, AtWork
    <3> QED BY <1>1, <1>2, <3>1, OtherKeeps
  <2>3. fresh' = fresh \/ cutLease.by = c
    BY <1>0, <1>2 DEF CutTypes
  <2> QED BY <2>1, <2>2, <2>3
<1>6. (LeaseInv(c) /\ WorkInv(c) /\ IdleInv(c) /\ HolderInv(c))'
  <2>1. LeaseInv(c) /\ WorkInv(c) /\ IdleInv(c) /\ HolderInv(c)
    BY <1>0
  <2>2. LeaseInv(c)'
    <3>1. GuardLimit \in Nat
      BY WatchdogAssumption
    <3>2. cutLease.by = c => fresh' = fresh \/ fresh'
      BY <1>0, <1>2 DEF CutTypes
    <3> QED BY <1>2, <2>1, <3>1, <3>2 DEF LeaseInv
  <2>3. WorkInv(c)'
    BY <1>1, <1>2, <2>1 DEF WorkInv, Holding
  <2>4. IdleInv(c)' /\ HolderInv(c)'
    BY <1>2, <2>1 DEF IdleInv, HolderInv, Watchdog!NoOne
  <2> QED BY <2>2, <2>3, <2>4
<1> QED BY <1>0, <1>3, <1>4, <1>5, <1>6 DEF CutInv

\* What the steps of the work do to it.
LEMMA WorksKeep ==
  ASSUME CutInv, NEW c \in Backups,
         \/ Watchdog!DbBegins(c) \/ Watchdog!DbEnds(c) \/ Watchdog!Writes(c)
         \/ Watchdog!Written(c) \/ Watchdog!Renamed(c)
  PROVE  CutInv'
<1>0. CutTypes /\ LeaseInv(c) /\ WorkInv(c) /\ work[c] \in [at : Works, age : Ages]
      /\ guardScope[c].cut \in {"no", "parent", "stall"} /\ wrong = {}
  BY DEF CutInv, CutTypes, Guards
<1>1. /\ work[c].at \in {"idle", "db", "write", "rename"}
      /\ UNCHANGED <<callPhase, said, queue, holder, cutLease, late>>
  BY DEF Watchdog!DbBegins, Watchdog!DbEnds, Watchdog!Writes, Watchdog!Written, Watchdog!Renamed
<1>2. callPhase[c] \in Holding \cup {"ended"} /\ (callPhase[c] = "ended" => guardScope[c].cut # "no")
  BY <1>0, <1>1 DEF WorkInv, CutTypes, CallPhases, AtWork, Holding
<1>3. CASE Watchdog!DbBegins(c)
  <2> DEFINE w == [at |-> IF guardScope[c].cut = "no" THEN "db" ELSE "failed", age |-> 0]
  <2>1. /\ work' = [work EXCEPT ![c] = w] /\ UNCHANGED <<reqScope, guardScope, quiet, fresh, published, wrong>>
    BY <1>3 DEF Watchdog!DbBegins
  <2>2. w \in [at : Works, age : Ages] /\ w.at \in {"db", "failed"} /\ (guardScope[c].cut # "no" => w.at = "failed")
    BY AgesAre DEF Works
  <2> HIDE DEF w
  <2> QED BY <1>1, <1>2, <2>1, <2>2, WorkKeepsCut
<1>4. CASE Watchdog!DbEnds(c)
  <2>1. PICK to \in {"idle", "failed"} : work' = [work EXCEPT ![c] = [at |-> to, age |-> 0]]
    BY <1>4 DEF Watchdog!DbEnds
  <2>2. Watchdog!Touches(c) /\ UNCHANGED <<published, wrong>>
    BY <1>4 DEF Watchdog!DbEnds
  <2> DEFINE w == [at |-> to, age |-> 0]
  <2>3. w \in [at : Works, age : Ages] /\ w.at \in {"idle", "failed"}
    BY AgesAre DEF Works
  <2>4. work' = [work EXCEPT ![c] = w]
    BY <2>1
  <2> HIDE DEF w
  <2> QED BY <1>1, <1>2, <2>2, <2>3, <2>4, WorkKeepsCut
<1>5. CASE Watchdog!Writes(c)
  <2> DEFINE w == [work[c] EXCEPT !.at = "write"]
  <2>1. /\ work' = [work EXCEPT ![c] = w] /\ Watchdog!Touches(c) /\ UNCHANGED <<published, wrong>>
    BY <1>0, <1>5 DEF Watchdog!Writes, CutTypes
  <2>2. w \in [at : Works, age : Ages] /\ w.at = "write"
    BY <1>0 DEF Works
  <2> HIDE DEF w
  <2> QED BY <1>1, <1>2, <2>1, <2>2, WorkKeepsCut
<1>6. CASE Watchdog!Written(c)
  <2> DEFINE w == [work[c] EXCEPT !.at = IF guardScope[c].cut = "no" THEN "rename" ELSE "failed"]
  <2>1. /\ work' = [work EXCEPT ![c] = w] /\ UNCHANGED <<reqScope, guardScope, quiet, fresh, published, wrong>>
    BY <1>0, <1>6 DEF Watchdog!Written, CutTypes
  <2>2. w \in [at : Works, age : Ages] /\ w.at = (IF guardScope[c].cut = "no" THEN "rename" ELSE "failed")
    BY <1>0 DEF Works
  <2> HIDE DEF w
  <2> QED BY <1>1, <1>2, <2>1, <2>2, WorkKeepsCut
<1>7. CASE Watchdog!Renamed(c)
  <2>1. PICK to \in {"done", "failed"} :
          /\ work' = [work EXCEPT ![c].at = to]
          /\ to = "done" => published' = published \cup {c}
          /\ to = "failed" => published' = published
    BY <1>7 DEF Watchdog!Renamed
  <2>2. work[c].at = "rename" /\ UNCHANGED <<reqScope, guardScope, quiet, fresh>>
    BY <1>7 DEF Watchdog!Renamed
  <2>3. cutLease.by = c \/ c \in late \/ guardScope[c].cut = "parent"
    BY <1>0, <1>2, <2>2 DEF LeaseInv, WorkInv
  <2>4. UNCHANGED wrong
    BY <1>7, <2>3 DEF Watchdog!Renamed
  <2>5. said[c] # "nothing" \/ c \in late
    BY <1>0, <2>2 DEF WorkInv
  <2> DEFINE w == [work[c] EXCEPT !.at = to]
  <2>6. work' = [work EXCEPT ![c] = w]
    BY <1>0, <2>1 DEF CutTypes
  <2>7. w \in [at : Works, age : Ages] /\ w.at = to
    BY <1>0 DEF Works
  <2> HIDE DEF w
  <2> QED BY <1>1, <1>2, <2>1, <2>2, <2>4, <2>5, <2>6, <2>7, WorkKeepsCut
<1> QED BY <1>3, <1>4, <1>5, <1>6, <1>7

\* No other process takes the lease of a run: it is too young for that.
LEMMA OthersKeep == ASSUME CutInv, Watchdog!Others PROVE CutInv'
<1>0. /\ CutTypes /\ LineInv /\ BehindInv /\ wrong = {}
      /\ \A d \in Backups : LeaseInv(d) /\ WorkInv(d) /\ IdleInv(d) /\ HolderInv(d)
  BY DEF CutInv
<1>1. ASSUME NEW c \in Backups, cutLease.by = c PROVE cutLease.age <= StaleAfter
  <2>1. LeaseInv(c) /\ cutLease.age \in Nat /\ callPhase[c] \in Holding
    BY <1>0, <1>1, AgesAre DEF LeaseInv, CutTypes
  <2>2. GuardLimit \in Nat /\ StallFactor \in Nat /\ StaleAfter \in Nat
        /\ StaleAfter >= GuardLimit + StallFactor + 2
    BY WatchdogAssumption
  <2>3. \/ cutLease.age <= GuardLimit + StallFactor + 1 \/ cutLease.age <= GuardLimit + 1
        \/ cutLease.age <= GuardLimit + StallFactor + 2
    BY <2>1 DEF LeaseInv, Holding
  <2> QED BY <2>1, <2>2, <2>3
<1>2. /\ cutLease.by \in {"none", "other"} /\ cutLease'.by \in {"none", "other"}
      /\ cutLease' \in [by : Backups \cup {"none", "other"}, age : Ages] /\ UNCHANGED wrong
  <2>1. cutLease.age \in Nat /\ StaleAfter \in Nat /\ cutLease \in [by : Backups \cup {"none", "other"}, age : Ages]
    BY <1>0, AgesAre, WatchdogAssumption DEF CutTypes
  <2>2. ~(cutLease.by \in Backups /\ cutLease.age > StaleAfter)
    BY <1>1, <2>1
  <2>3. \/ cutLease.by = "none" /\ cutLease' = [by |-> "other", age |-> 0] /\ UNCHANGED wrong
        \/ cutLease.by = "other" /\ cutLease' = [cutLease EXCEPT !.age = 0] /\ UNCHANGED wrong
        \/ cutLease.by = "other" /\ cutLease' = [by |-> "none", age |-> 0] /\ UNCHANGED wrong
    BY <2>2 DEF Watchdog!Others, Watchdog!Other
  <2> QED BY <2>1, <2>3, AgesAre
<1>3. UNCHANGED <<reqScope, guardScope, callPhase, said, work, queue, holder, fresh, published, quiet, late>>
  BY DEF Watchdog!Others
<1>4. CutTypes' /\ LineInv' /\ BehindInv'
  BY <1>0, <1>2, <1>3 DEF CutTypes, LineInv, BehindInv
<1>5. ASSUME NEW d \in Backups PROVE (LeaseInv(d) /\ WorkInv(d) /\ IdleInv(d) /\ HolderInv(d))'
  <2>1. LeaseInv(d) /\ WorkInv(d) /\ IdleInv(d) /\ HolderInv(d)
    BY <1>0
  <2>2. cutLease.by # d /\ cutLease'.by # d
    BY <1>2, WatchdogAssumption
  <2>3. LeaseInv(d)'
    BY <1>3, <2>1, <2>2 DEF LeaseInv, Holding
  <2>4. WorkInv(d)' /\ IdleInv(d)' /\ HolderInv(d)'
    BY <1>3, <2>1 DEF WorkInv, IdleInv, HolderInv, Watchdog!NoOne
  <2> QED BY <2>3, <2>4
<1> QED BY <1>0, <1>2, <1>4, <1>5 DEF CutInv

\* Ages grow together, up to one that is beyond every limit.
LEMMA LaterIs ==
  ASSUME NEW k \in Nat
  PROVE  /\ \A a \in Ages : /\ Watchdog!Later(a, k) \in Ages /\ a <= Watchdog!Later(a, k)
                            /\ Watchdog!Later(a, k) <= a + k
         /\ \A a, b \in Ages : a <= b => Watchdog!Later(a, k) <= Watchdog!Later(b, k)
BY AgesAre DEF Watchdog!Later, Ages

LEMMA AliveIs ==
  ASSUME CutInv, NEW k \in Nat, NEW c \in Backups
  PROVE  /\ Watchdog!Quiet(c, k) \in Ages
         /\ \A a \in Ages : /\ Watchdog!Alive(c, k, a) \in Ages
                            /\ a <= quiet[c] => Watchdog!Alive(c, k, a) <= Watchdog!Quiet(c, k)
         /\ work[c].at # "db" => ~Watchdog!Busy(c, k)
<1>1. quiet[c] \in Ages
  BY DEF CutInv, CutTypes
<1>2. ASSUME NEW a \in Ages
      PROVE  /\ Watchdog!Alive(c, k, a) \in Ages
             /\ a <= quiet[c] => Watchdog!Alive(c, k, a) <= Watchdog!Quiet(c, k)
  <2>1. Watchdog!Late(k) \/ Watchdog!Busy(c, k) =>
          Watchdog!Alive(c, k, a) = 0 /\ Watchdog!Quiet(c, k) = 0
    BY DEF Watchdog!Alive, Watchdog!Quiet, Watchdog!Late
  <2>2. ~(Watchdog!Late(k) \/ Watchdog!Busy(c, k)) =>
          /\ Watchdog!Alive(c, k, a) = Watchdog!Later(a, k)
          /\ Watchdog!Quiet(c, k) = Watchdog!Later(quiet[c], k)
    BY DEF Watchdog!Alive, Watchdog!Quiet, Watchdog!Late
  <2>3. CASE Watchdog!Late(k) \/ Watchdog!Busy(c, k)
    BY <2>1, <2>3, AgesAre
  <2>4. CASE ~(Watchdog!Late(k) \/ Watchdog!Busy(c, k))
    <3>1. Watchdog!Later(a, k) \in Ages
      BY <1>2, LaterIs
    <3>2. a <= quiet[c] => Watchdog!Later(a, k) <= Watchdog!Later(quiet[c], k)
      BY <1>1, <1>2, LaterIs
    <3> QED BY <2>2, <2>4, <3>1, <3>2
  <2> QED BY <2>3, <2>4
<1>3. Watchdog!Quiet(c, k) \in Ages
  BY <1>1, LaterIs, AgesAre DEF Watchdog!Quiet
<1> QED BY <1>2, <1>3 DEF Watchdog!Busy

\* What a sweep finds: the head of the line is at work, and no cut is pending.
LEMMA TickFinds ==
  ASSUME CutInv, ~Watchdog!Continues, NEW c \in Backups
  PROVE  /\ callPhase[c] # "expired" /\ (callPhase[c] = "guarded" => guardScope[c].cut = "no")
         /\ callPhase[c] = "queued" =>
              /\ Len(queue) > 0 /\ queue[1] \in Backups /\ queue[1] # c /\ Head(queue) = queue[1]
              /\ callPhase[queue[1]] \in AtWork /\ \E i \in 1..Len(queue) : i > 1 /\ queue[i] = c
<1>0. CutTypes /\ LineInv /\ queue \in Seq(Backups) /\ Len(queue) \in Nat
  BY DEF CutInv, LineInv
<1>1. callPhase[c] # "expired" /\ (callPhase[c] = "guarded" => guardScope[c].cut = "no")
  BY DEF Watchdog!Continues
<1>2. ASSUME callPhase[c] = "queued"
      PROVE  /\ Len(queue) > 0 /\ queue[1] \in Backups /\ queue[1] # c /\ Head(queue) = queue[1]
             /\ callPhase[queue[1]] \in AtWork /\ \E i \in 1..Len(queue) : i > 1 /\ queue[i] = c
  <2>1. PICK i \in 1..Len(queue) : queue[i] = c
    BY <1>0, <1>2 DEF LineInv
  <2>2. Len(queue) > 0 /\ queue[1] \in Backups /\ Head(queue) = queue[1] /\ queue # <<>>
    BY <1>0, <2>1
  <2>3. callPhase[queue[1]] # "queued"
    BY <2>2 DEF Watchdog!Continues
  <2>4. callPhase[queue[1]] \in AtWork
    BY <1>0, <2>2, <2>3 DEF LineInv
  <2>5. i > 1
    BY <1>0, <1>2, <2>1, <2>3
  <2> QED BY <1>2, <2>1, <2>2, <2>3, <2>4, <2>5
<1> QED BY <1>1, <1>2

\* A sweep cuts what has been quiet for longer than its limit.
LEMMA CutsAreDeserved ==
  ASSUME CutInv, ~Watchdog!Continues, NEW k \in Nat, NEW c \in Backups
  PROVE  ~Watchdog!Undeserved(c, k)
<1>0. /\ CutTypes /\ LineInv /\ BehindInv
      /\ \A d \in Backups : LeaseInv(d) /\ WorkInv(d) /\ IdleInv(d) /\ HolderInv(d)
  BY DEF CutInv
<1>1. /\ reqScope[c].idle \in Ages /\ guardScope[c].idle \in Ages /\ quiet[c] \in Ages
      /\ reqScope[c].limit \in Nat /\ GuardLimit \in Nat
  BY <1>0, WatchdogAssumption DEF CutTypes, ReqScopes, Guards
<1>2. Watchdog!CutsGuard(c, k) => ~(Watchdog!Quiet(c, k) <= GuardLimit)
  <2> SUFFICES ASSUME Watchdog!CutsGuard(c, k) PROVE ~(Watchdog!Quiet(c, k) <= GuardLimit)
    OBVIOUS
  <2>1. callPhase[c] = "guarded" /\ Watchdog!Alive(c, k, guardScope[c].idle) > GuardLimit
    BY DEF Watchdog!CutsGuard
  <2>2. guardScope[c].idle <= quiet[c]
    BY <1>0, <2>1 DEF IdleInv
  <2>3. /\ Watchdog!Alive(c, k, guardScope[c].idle) \in Ages /\ Watchdog!Quiet(c, k) \in Ages
        /\ Watchdog!Alive(c, k, guardScope[c].idle) <= Watchdog!Quiet(c, k)
    BY <1>1, <2>2, AliveIs
  <2> QED BY <1>1, <2>1, <2>3, AgesAre
<1>3. Watchdog!CutsReq(c, k) => ~(Watchdog!Quiet(Watchdog!Stands(c), k) <= reqScope[c].limit)
  <2> SUFFICES ASSUME Watchdog!CutsReq(c, k)
               PROVE  ~(Watchdog!Quiet(Watchdog!Stands(c), k) <= reqScope[c].limit)
    OBVIOUS
  <2> DEFINE own == Watchdog!Alive(c, k, reqScope[c].idle)
  <2>1. /\ reqScope[c].on /\ callPhase[c] # "new" /\ ~Watchdog!Late(k)
        /\ Watchdog!ReqIdle(c, k) > reqScope[c].limit
    BY DEF Watchdog!CutsReq
  <2>2. callPhase[c] # "ended" /\ reqScope[c].idle <= quiet[c] /\ own \in Ages
        /\ own <= Watchdog!Quiet(c, k) /\ Watchdog!Quiet(c, k) \in Ages
    BY <1>0, <1>1, <2>1, AliveIs DEF IdleInv
  <2>3. CASE callPhase[c] # "queued"
    <3>1. ~reqScope[c].follows
      BY <1>0, <2>1, <2>2, <2>3 DEF IdleInv, CutTypes, CallPhases
    <3>2. Watchdog!ReqIdle(c, k) = own /\ Watchdog!Stands(c) = c
      BY <2>3, <3>1 DEF Watchdog!ReqIdle, Watchdog!Stands
    <3> QED BY <1>1, <2>1, <2>2, <3>2, AgesAre
  <2>4. CASE callPhase[c] = "queued"
    <3>1. PICK h \in Backups : h = queue[1]
      BY <2>4, TickFinds
    <3>2. /\ h # c /\ Watchdog!Stands(c) = h /\ callPhase[h] \in AtWork /\ callPhase[h] # "expired"
      BY <2>4, <3>1, TickFinds DEF Watchdog!Stands
    <3>3. reqScope[c].follows /\ ~Watchdog!Busy(c, k)
      BY <1>0, <2>1, <2>4, <3>1, <3>2, AliveIs DEF IdleInv, WorkInv
    <3>4. Watchdog!Quiet(h, k) \in Ages /\ quiet[h] \in Ages /\ reqScope[h].idle \in Ages
          /\ guardScope[h].idle \in Ages
      BY <1>0, AliveIs DEF CutTypes, ReqScopes, Guards
    <3>5. CASE callPhase[h] \in Holding
      <4>1. holder = [who |-> h, scope |-> "guard"] /\ guardScope[h].idle <= quiet[h]
        BY <1>0, <3>2, <3>5 DEF HolderInv, IdleInv, Holding
      <4>2. Watchdog!ReqIdle(c, k) = Watchdog!Least(own, Watchdog!Alive(h, k, guardScope[h].idle))
        BY <3>3, <4>1 DEF Watchdog!ReqIdle
      <4>3. Watchdog!Alive(h, k, guardScope[h].idle) \in Ages
            /\ Watchdog!Alive(h, k, guardScope[h].idle) <= Watchdog!Quiet(h, k)
        BY <3>4, <4>1, AliveIs
      <4> QED BY <1>1, <2>1, <2>2, <3>2, <3>4, <4>2, <4>3, AgesAre DEF Watchdog!Least
    <3>6. CASE callPhase[h] = "leasing"
      <4>1. PICK i \in 1..Len(queue) : i > 1 /\ queue[i] = c
        BY <2>4, TickFinds
      <4>2. \/ reqScope[c].idle <= quiet[h]
            \/ holder = [who |-> h, scope |-> "req"] /\ reqScope[h].idle <= quiet[h]
        <5>1. 1 \in 1..Len(queue) /\ 1 < i
          BY <1>0, <4>1 DEF LineInv
        <5> QED BY <1>0, <2>1, <3>1, <3>6, <4>1, <5>1 DEF BehindInv, Holding
      <4>3. ~Watchdog!Busy(h, k)
        BY <1>0, <3>6, AliveIs DEF WorkInv
      <4>4. CASE reqScope[c].idle <= quiet[h]
        <5>1. own = Watchdog!Later(reqScope[c].idle, k) /\ Watchdog!Quiet(h, k) = Watchdog!Later(quiet[h], k)
          BY <2>1, <3>3, <4>3 DEF Watchdog!Alive, Watchdog!Quiet, Watchdog!Late
        <5>2. own <= Watchdog!Quiet(h, k)
          BY <1>1, <3>4, <4>4, <5>1, LaterIs
        <5>4. holder = [who |-> h, scope |-> "req"] \/ holder = Watchdog!NoOne
          BY <1>0, <3>6 DEF HolderInv
        <5>5. PICK its \in Ages : Watchdog!ReqIdle(c, k) = Watchdog!Least(own, its)
          <6>1. CASE holder = [who |-> h, scope |-> "req"]
            <7>1. Watchdog!Alive(h, k, reqScope[h].idle) \in Ages
              BY <3>4, AliveIs
            <7> QED BY <3>3, <6>1, <7>1 DEF Watchdog!ReqIdle
          <6>2. CASE holder = Watchdog!NoOne
            <7>1. Watchdog!Long \in Ages
              BY AgesAre DEF Ages
            <7> QED BY <3>3, <6>2, <7>1 DEF Watchdog!ReqIdle, Watchdog!NoOne
          <6> QED BY <5>4, <6>1, <6>2
        <5>6. Watchdog!ReqIdle(c, k) \in Nat /\ Watchdog!ReqIdle(c, k) <= own
          BY <2>2, <5>5, AgesAre DEF Watchdog!Least
        <5> QED BY <1>1, <2>1, <2>2, <3>2, <3>4, <5>2, <5>6, AgesAre
      <4>5. CASE holder = [who |-> h, scope |-> "req"] /\ reqScope[h].idle <= quiet[h]
        <5>1. Watchdog!ReqIdle(c, k) = Watchdog!Least(own, Watchdog!Alive(h, k, reqScope[h].idle))
          BY <3>3, <4>5 DEF Watchdog!ReqIdle
        <5>2. Watchdog!Alive(h, k, reqScope[h].idle) \in Ages
              /\ Watchdog!Alive(h, k, reqScope[h].idle) <= Watchdog!Quiet(h, k)
          BY <3>4, <4>5, AliveIs
        <5> QED BY <1>1, <2>1, <2>2, <3>2, <3>4, <5>1, <5>2, AgesAre DEF Watchdog!Least
      <4> QED BY <4>2, <4>4, <4>5
    <3> QED BY <3>2, <3>5, <3>6 DEF AtWork
  <2> QED BY <2>3, <2>4
<1> QED BY <1>2, <1>3 DEF Watchdog!Undeserved

LEMMA TickKeeps ==
  ASSUME CutInv, NEW k \in {1, StallFactor + 1}, Watchdog!Tick(k) PROVE CutInv'
<1>0. /\ CutTypes /\ LineInv /\ BehindInv /\ wrong = {}
      /\ \A d \in Backups : LeaseInv(d) /\ WorkInv(d) /\ IdleInv(d) /\ HolderInv(d)
  BY DEF CutInv
<1>a. /\ k \in Nat /\ k <= StallFactor + 1 /\ (~Watchdog!Late(k) => k = 1)
      /\ GuardLimit \in Nat /\ StallFactor \in Nat
  BY WatchdogAssumption DEF Watchdog!Late
<1>1. /\ ~Watchdog!Continues
      /\ reqScope' = [c \in Backups |-> IF reqScope[c].on /\ ~reqScope[c].cut /\ callPhase[c] # "new"
           THEN [reqScope[c] EXCEPT !.idle = Watchdog!Alive(c, k, @), !.cut = Watchdog!CutsReq(c, k),
                                    !.on = ~Watchdog!CutsReq(c, k)]
           ELSE reqScope[c]]
      /\ guardScope' = [c \in Backups |-> IF callPhase[c] = "guarded" /\ guardScope[c].cut = "no"
           THEN [idle |-> Watchdog!Alive(c, k, guardScope[c].idle),
                 cut |-> IF Watchdog!CutsReq(c, k) THEN "parent"
                         ELSE IF Watchdog!CutsGuard(c, k) THEN "stall" ELSE "no"]
           ELSE guardScope[c]]
      /\ work' = [c \in Backups |-> IF work[c].at = "db" THEN [work[c] EXCEPT !.age = Watchdog!Later(@, k)] ELSE work[c]]
      /\ quiet' = [c \in Backups |-> IF callPhase[c] \in {"new", "ended"} THEN 0 ELSE Watchdog!Quiet(c, k)]
      /\ cutLease' = (IF fresh /\ cutLease.by \in Backups THEN [cutLease EXCEPT !.age = 0]
                      ELSE IF cutLease.by = "none" THEN cutLease
                      ELSE [cutLease EXCEPT !.age = Watchdog!Later(@, k)])
      /\ fresh' = (cutLease.by \in Backups /\ guardScope[cutLease.by].cut = "no"
                   /\ (Watchdog!Late(k) \/ Watchdog!Busy(cutLease.by, k)))
      /\ callPhase' = [c \in Backups |-> IF callPhase[c] = "settling" THEN "expired" ELSE callPhase[c]]
      /\ UNCHANGED <<said, queue, holder, published, late>>
  BY DEF Watchdog!Tick
<1>2. UNCHANGED wrong
  <2>1. \A c \in Backups : ~Watchdog!Undeserved(c, k)
    BY <1>a, <1>1, CutsAreDeserved
  <2> QED BY <2>1 DEF Watchdog!Tick
<1>3. ASSUME NEW c \in Backups
      PROVE  /\ reqScope[c] \in ReqScopes /\ guardScope[c] \in Guards /\ quiet[c] \in Ages
             /\ work[c] \in [at : Works, age : Ages]
             /\ cutLease.age \in Ages /\ cutLease \in [by : Backups \cup {"none", "other"}, age : Ages]
             /\ Watchdog!CutsReq(c, k) \in BOOLEAN /\ Watchdog!CutsGuard(c, k) \in BOOLEAN
             /\ callPhase[c] \in CallPhases
             /\ (Watchdog!CutsReq(c, k) \/ Watchdog!CutsGuard(c, k) => k = 1)
  BY <1>0, <1>a DEF CutTypes, Watchdog!CutsReq, Watchdog!CutsGuard
\* What one call sees of it.
<1>4. ASSUME NEW c \in Backups
      PROVE  /\ callPhase'[c] = (IF callPhase[c] = "settling" THEN "expired" ELSE callPhase[c])
             /\ quiet'[c] = (IF callPhase[c] \in {"new", "ended"} THEN 0 ELSE Watchdog!Quiet(c, k))
             /\ work'[c].at = work[c].at /\ work'[c] \in [at : Works, age : Ages]
  <2>1. Watchdog!Later(work[c].age, k) \in Ages
    BY <1>a, <1>3, LaterIs
  <2>2. work'[c].at = work[c].at /\ work'[c] \in [at : Works, age : Ages]
    BY <1>1, <1>3, <2>1
  <2> QED BY <1>1, <2>2
<1>5. ASSUME NEW c \in Backups
      PROVE  /\ reqScope'[c] \in ReqScopes /\ reqScope'[c].follows = reqScope[c].follows
             /\ reqScope'[c].on => reqScope[c].on
             /\ reqScope'[c].cut => ~reqScope'[c].on
             /\ reqScope[c].on /\ callPhase[c] # "new" =>
                  reqScope'[c].idle = Watchdog!Alive(c, k, reqScope[c].idle)
             /\ ~reqScope[c].on => reqScope'[c] = reqScope[c]
  <2>1. IdleInv(c)
    BY <1>0
  <2>2. CASE reqScope[c].on /\ ~reqScope[c].cut /\ callPhase[c] # "new"
    <3>1. reqScope'[c] = [reqScope[c] EXCEPT !.idle = Watchdog!Alive(c, k, @), !.cut = Watchdog!CutsReq(c, k),
                                             !.on = ~Watchdog!CutsReq(c, k)]
      BY <1>1, <2>2
    <3>2. Watchdog!Alive(c, k, reqScope[c].idle) \in Ages
      BY <1>a, <1>3, AliveIs DEF ReqScopes
    <3> HIDE DEF CutInv
    <3> QED BY <1>3, <2>2, <3>1, <3>2 DEF ReqScopes
  <2>3. CASE ~(reqScope[c].on /\ ~reqScope[c].cut /\ callPhase[c] # "new")
    <3>1. reqScope'[c] = reqScope[c]
      BY <1>1, <2>3
    <3> QED BY <1>3, <2>1, <2>3, <3>1 DEF IdleInv
  <2> QED BY <2>2, <2>3
<1>6. ASSUME NEW c \in Backups
      PROVE  /\ guardScope'[c] \in Guards
             /\ callPhase[c] = "guarded" =>
                  /\ guardScope'[c].idle = Watchdog!Alive(c, k, guardScope[c].idle)
                  /\ guardScope'[c].cut = "no" => ~Watchdog!CutsGuard(c, k)
                  /\ guardScope'[c].cut # "no" => k = 1
             /\ callPhase[c] # "guarded" => guardScope'[c] = guardScope[c]
             /\ callPhase[c] = "guarded" => guardScope[c].cut = "no"
  <2>1. callPhase[c] = "guarded" => guardScope[c].cut = "no"
    BY <1>1, TickFinds
  <2>2. Watchdog!Alive(c, k, guardScope[c].idle) \in Ages
    BY <1>a, <1>3, AliveIs DEF Guards
  <2>3. CASE callPhase[c] = "guarded"
    <3>1. guardScope'[c] = [idle |-> Watchdog!Alive(c, k, guardScope[c].idle),
                            cut |-> IF Watchdog!CutsReq(c, k) THEN "parent"
                                    ELSE IF Watchdog!CutsGuard(c, k) THEN "stall" ELSE "no"]
      BY <1>1, <2>1, <2>3
    <3> QED BY <1>3, <2>1, <2>2, <2>3, <3>1 DEF Guards
  <2>4. CASE callPhase[c] # "guarded"
    BY <1>1, <1>3, <2>4
  <2> QED BY <2>3, <2>4
<1>7. /\ cutLease'.by = cutLease.by /\ cutLease' \in [by : Backups \cup {"none", "other"}, age : Ages]
      /\ cutLease.by \in Backups => /\ fresh => cutLease'.age = 0
                                    /\ ~fresh => cutLease'.age = Watchdog!Later(cutLease.age, k)
  <2>1. Watchdog!Later(cutLease.age, k) \in Ages /\ cutLease \in [by : Backups \cup {"none", "other"}, age : Ages]
    BY <1>0, <1>a, LaterIs DEF CutTypes
  <2> QED BY <1>1, <2>1, AgesAre, WatchdogAssumption
<1>8. CutTypes'
  <2>1. reqScope' \in [Backups -> ReqScopes] /\ guardScope' \in [Backups -> Guards]
    BY <1>1, <1>5, <1>6
  <2>2. callPhase' \in [Backups -> CallPhases]
    BY <1>1, <1>3 DEF CallPhases, AtWork, Holding
  <2>3. work' \in [Backups -> [at : Works, age : Ages]]
    BY <1>1, <1>4
  <2>4. quiet' \in [Backups -> Ages]
    <3>1. \A c \in Backups : Watchdog!Quiet(c, k) \in Ages
      BY <1>a, AliveIs
    <3> QED BY <1>1, <3>1, AgesAre
  <2>5. fresh' \in BOOLEAN
    BY <1>1
  <2> QED BY <1>0, <1>1, <1>7, <2>1, <2>2, <2>3, <2>4, <2>5 DEF CutTypes
<1>9. LineInv'
  <2>1. \A i \in 1..Len(queue) : queue[i] \in Backups
    BY <1>0 DEF LineInv
  <2> QED BY <1>0, <1>1, <1>4, <2>1 DEF LineInv, AtWork, Holding
<1>10. BehindInv'
  <2> SUFFICES ASSUME NEW i \in 1..Len(queue), NEW j \in 1..Len(queue), i < j,
                      reqScope'[queue[j]].on, callPhase'[queue[i]] \notin Holding
               PROVE  \/ reqScope'[queue[j]].idle <= quiet'[queue[i]]
                      \/ /\ callPhase'[queue[i]] = "leasing"
                         /\ holder = [who |-> queue[i], scope |-> "req"]
                         /\ reqScope'[queue[i]].idle <= quiet'[queue[i]]
    BY <1>1 DEF BehindInv
  <2>1. PICK x \in Backups, y \in Backups : x = queue[i] /\ y = queue[j]
    BY <1>0 DEF LineInv
  <2>2. callPhase[y] = "queued" /\ reqScope[y].on /\ callPhase[x] \in {"queued", "leasing"}
    <3>1. callPhase[y] = "queued" /\ callPhase[x] \in AtWork \cup {"queued"}
      BY <1>0, <2>1 DEF LineInv
    <3>2. callPhase[x] \notin Holding
      BY <1>4, <2>1 DEF Holding
    <3> QED BY <1>5, <2>1, <3>1, <3>2 DEF AtWork
  <2>3. /\ \/ reqScope[y].idle <= quiet[x]
           \/ /\ callPhase[x] = "leasing" /\ holder = [who |-> x, scope |-> "req"]
              /\ reqScope[x].idle <= quiet[x]
    BY <1>0, <2>1, <2>2 DEF BehindInv, Holding
  <2>4. /\ ~Watchdog!Busy(x, k) /\ ~Watchdog!Busy(y, k)
        /\ reqScope[x].idle \in Ages /\ reqScope[y].idle \in Ages /\ quiet[x] \in Ages
    <3>1. work[x].at = "none" /\ work[y].at = "none"
      BY <1>0, <2>2 DEF WorkInv
    <3> QED BY <1>3, <3>1 DEF ReqScopes, Watchdog!Busy
  <2>5. /\ reqScope'[y].idle = Watchdog!Alive(y, k, reqScope[y].idle) /\ quiet'[x] = Watchdog!Quiet(x, k)
        /\ callPhase'[x] = callPhase[x]
    BY <1>4, <1>5, <2>2
  <2>6. CASE Watchdog!Late(k)
    <3>1. reqScope'[y].idle = 0 /\ quiet'[x] = 0
      BY <2>5, <2>6 DEF Watchdog!Alive, Watchdog!Quiet, Watchdog!Late
    <3> QED BY <2>1, <3>1
  <2>7. CASE ~Watchdog!Late(k)
    <3>1. reqScope'[y].idle = Watchdog!Later(reqScope[y].idle, k) /\ quiet'[x] = Watchdog!Later(quiet[x], k)
      BY <2>4, <2>5, <2>7 DEF Watchdog!Alive, Watchdog!Quiet, Watchdog!Late
    <3>2. CASE reqScope[y].idle <= quiet[x]
      <4>1. Watchdog!Later(reqScope[y].idle, k) <= Watchdog!Later(quiet[x], k)
        BY <1>a, <2>4, <3>2, LaterIs
      <4> QED BY <2>1, <3>1, <4>1
    <3>3. CASE callPhase[x] = "leasing" /\ holder = [who |-> x, scope |-> "req"] /\ reqScope[x].idle <= quiet[x]
      <4>1. reqScope'[x].idle <= quiet'[x]
        <5>1. CASE reqScope[x].on
          <6>1. reqScope'[x].idle = Watchdog!Later(reqScope[x].idle, k)
            BY <1>5, <2>4, <2>7, <3>3, <5>1 DEF Watchdog!Alive
          <6>2. Watchdog!Later(reqScope[x].idle, k) <= Watchdog!Later(quiet[x], k)
            BY <1>a, <2>4, <3>3, LaterIs
          <6> QED BY <3>1, <6>1, <6>2
        <5>2. CASE ~reqScope[x].on
          <6>1. reqScope'[x].idle = reqScope[x].idle
            BY <1>5, <5>2
          <6>2. quiet[x] <= Watchdog!Later(quiet[x], k) /\ Watchdog!Later(quiet[x], k) \in Ages
            BY <1>a, <2>4, LaterIs
          <6> QED BY <2>4, <3>1, <3>3, <6>1, <6>2, AgesAre
        <5> QED BY <5>1, <5>2
      <4> QED BY <2>1, <2>5, <3>3, <4>1
    <3> QED BY <2>3, <3>2, <3>3
  <2> QED BY <2>6, <2>7
<1>11. ASSUME NEW c \in Backups PROVE LeaseInv(c)'
  <2>1. LeaseInv(c) /\ WorkInv(c) /\ callPhase[c] # "expired"
    BY <1>0, <1>1, TickFinds
  <2>2. cutLease'.by = c <=> callPhase'[c] \in Holding
    BY <1>4, <1>7, <2>1 DEF LeaseInv, Holding
  <2>3. CASE callPhase[c] = "guarded"
    <3>1. /\ cutLease.by = c /\ guardScope[c].cut = "no" /\ guardScope[c].idle <= GuardLimit
          /\ fresh \/ cutLease.age <= guardScope[c].idle
          /\ guardScope[c].idle \in Ages /\ cutLease.age \in Ages
      BY <1>3, <1>6, <2>1, <2>3 DEF LeaseInv, Holding, Guards
    <3>2. fresh \/ cutLease.age <= GuardLimit
      BY <1>a, <3>1, AgesAre
    <3>3. cutLease'.age \in Nat /\ cutLease'.age <= GuardLimit + k
      <4>1. CASE fresh
        BY <1>a, <1>7, <3>1, <4>1
      <4>2. CASE ~fresh
        <5>1. cutLease'.age = Watchdog!Later(cutLease.age, k) /\ cutLease.age <= GuardLimit
          BY <1>7, <3>1, <3>2, <4>2
        <5>2. Watchdog!Later(cutLease.age, k) \in Nat /\ Watchdog!Later(cutLease.age, k) <= cutLease.age + k
          BY <1>a, <3>1, LaterIs, AgesAre
        <5> QED BY <1>a, <3>1, <5>1, <5>2, AgesAre
      <4> QED BY <4>1, <4>2
    <3>4. CASE guardScope'[c].cut = "no"
      <4>1. guardScope'[c].idle = Watchdog!Alive(c, k, guardScope[c].idle) /\ ~Watchdog!CutsGuard(c, k)
        BY <1>6, <2>3, <3>4
      <4>2. guardScope'[c].idle <= GuardLimit
        <5>1. CASE Watchdog!Late(k)
          BY <1>a, <4>1, <5>1 DEF Watchdog!Alive
        <5>2. CASE ~Watchdog!Late(k)
          <6>1. ~(Watchdog!Alive(c, k, guardScope[c].idle) > GuardLimit)
            BY <2>3, <3>1, <4>1, <5>2 DEF Watchdog!CutsGuard
          <6>2. Watchdog!Alive(c, k, guardScope[c].idle) \in Nat
            BY <1>a, <3>1, AliveIs, AgesAre
          <6> QED BY <1>a, <4>1, <6>1, <6>2
        <5> QED BY <5>1, <5>2
      <4>3. fresh' \/ cutLease'.age <= guardScope'[c].idle
        <5>1. CASE Watchdog!Late(k) \/ Watchdog!Busy(c, k)
          BY <1>1, <3>1, <5>1
        <5>2. CASE ~(Watchdog!Late(k) \/ Watchdog!Busy(c, k))
          <6>1. guardScope'[c].idle = Watchdog!Later(guardScope[c].idle, k)
            BY <4>1, <5>2 DEF Watchdog!Alive
          <6>2. /\ Watchdog!Later(guardScope[c].idle, k) \in Nat
                /\ cutLease.age <= guardScope[c].idle =>
                     Watchdog!Later(cutLease.age, k) <= Watchdog!Later(guardScope[c].idle, k)
            BY <1>a, <3>1, LaterIs, AgesAre
          <6>3. CASE fresh
            BY <1>7, <3>1, <6>1, <6>2, <6>3
          <6>4. CASE ~fresh
            BY <1>7, <3>1, <6>1, <6>2, <6>4
          <6> QED BY <6>3, <6>4
        <5> QED BY <5>1, <5>2
      <4>4. cutLease'.age <= GuardLimit + StallFactor + 1
        BY <1>a, <3>3
      <4> QED BY <1>4, <2>2, <2>3, <3>4, <4>2, <4>3, <4>4 DEF LeaseInv
    <3>5. CASE guardScope'[c].cut # "no"
      <4>1. k = 1
        BY <1>6, <2>3, <3>5
      <4> QED BY <1>4, <2>2, <2>3, <3>3, <3>5, <4>1 DEF LeaseInv
    <3> QED BY <3>4, <3>5
  <2>4. CASE callPhase[c] = "settling"
    <3>1. guardScope[c].cut = "stall" /\ guardScope'[c] = guardScope[c] /\ callPhase'[c] = "expired"
      BY <1>4, <1>6, <2>1, <2>4 DEF WorkInv
    <3>2. cutLease.by = c /\ cutLease.age <= GuardLimit + 1 /\ cutLease.age \in Nat
      BY <1>3, <2>1, <2>4, <3>1, AgesAre DEF LeaseInv, Holding
    <3>3. cutLease'.age <= GuardLimit + StallFactor + 2
      <4>1. CASE fresh
        BY <1>a, <1>7, <3>2, <4>1
      <4>2. CASE ~fresh
        <5>1. cutLease'.age = Watchdog!Later(cutLease.age, k)
          BY <1>7, <3>2, <4>2
        <5>2. Watchdog!Later(cutLease.age, k) \in Nat /\ Watchdog!Later(cutLease.age, k) <= cutLease.age + k
          BY <1>a, <1>3, LaterIs, AgesAre
        <5> QED BY <1>a, <3>2, <5>1, <5>2
      <4> QED BY <4>1, <4>2
    <3> QED BY <2>2, <3>1, <3>3 DEF LeaseInv
  <2>5. CASE callPhase[c] \notin Holding
    BY <1>4, <2>2, <2>5 DEF LeaseInv, Holding
  <2> QED BY <2>1, <2>3, <2>4, <2>5 DEF Holding
<1>12. ASSUME NEW c \in Backups PROVE WorkInv(c)'
  <2>1. WorkInv(c) /\ callPhase[c] # "expired"
    BY <1>0, <1>1, TickFinds
  <2> QED BY <1>1, <1>4, <1>6, <2>1 DEF WorkInv
<1>13. ASSUME NEW c \in Backups PROVE IdleInv(c)' /\ HolderInv(c)'
  <2>1. IdleInv(c) /\ HolderInv(c) /\ callPhase[c] # "expired"
    BY <1>0, <1>1, TickFinds
  <2>2. reqScope'[c].cut \/ callPhase'[c] = "ended" => ~reqScope'[c].on
    BY <1>4, <1>5, <2>1 DEF IdleInv
  <2>3. reqScope'[c].on /\ callPhase'[c] # "new" => reqScope'[c].idle <= quiet'[c]
    <3> SUFFICES ASSUME reqScope'[c].on, callPhase'[c] # "new" PROVE reqScope'[c].idle <= quiet'[c]
      OBVIOUS
    <3>1. reqScope[c].on /\ callPhase[c] # "new" /\ callPhase[c] # "ended" /\ reqScope[c].idle <= quiet[c]
      BY <1>4, <1>5, <2>1 DEF IdleInv
    <3>2. Watchdog!Alive(c, k, reqScope[c].idle) <= Watchdog!Quiet(c, k)
      BY <1>a, <1>3, <3>1, AliveIs DEF ReqScopes
    <3> QED BY <1>4, <1>5, <3>1, <3>2
  <2>4. callPhase'[c] \in {"guarded", "settling"} => guardScope'[c].idle <= quiet'[c]
    <3> SUFFICES ASSUME callPhase'[c] \in {"guarded", "settling"} PROVE guardScope'[c].idle <= quiet'[c]
      OBVIOUS
    <3>1. callPhase[c] = "guarded" /\ guardScope[c].idle <= quiet[c]
      BY <1>4, <2>1 DEF IdleInv
    <3>2. Watchdog!Alive(c, k, guardScope[c].idle) <= Watchdog!Quiet(c, k)
      <4>1. guardScope[c].idle \in Ages
        BY <1>3 DEF Guards
      <4> QED BY <4>1, <1>a, <3>1, AliveIs
    <3> QED BY <1>4, <1>6, <3>1, <3>2
  <2>5. IdleInv(c)'
    BY <1>1, <1>4, <1>5, <2>1, <2>2, <2>3, <2>4 DEF IdleInv, AtWork, Holding
  <2>6. HolderInv(c)'
    BY <1>1, <1>4, <1>5, <2>1 DEF HolderInv, Holding, Watchdog!NoOne
  <2> QED BY <2>5, <2>6
<1> QED BY <1>0, <1>2, <1>8, <1>9, <1>10, <1>11, <1>12, <1>13 DEF CutInv

-----------------------------------------------------------------------------

LEMMA CutInvInit == ASSUME Watchdog!Init PROVE CutInv
<1>1. /\ reqScope \in [Backups -> [on : BOOLEAN, limit : Limits, idle : {0}, cut : {FALSE}, follows : {FALSE}]]
      /\ guardScope = [c \in Backups |-> [idle |-> 0, cut |-> "no"]]
      /\ callPhase = [c \in Backups |-> "new"] /\ said = [c \in Backups |-> "none"]
      /\ work = [c \in Backups |-> [at |-> "none", age |-> 0]] /\ queue = <<>>
      /\ cutLease = [by |-> "none", age |-> 0] /\ fresh = FALSE
      /\ quiet = [c \in Backups |-> 0] /\ wrong = {}
  BY DEF Watchdog!Init
<1>2. CutTypes
  <2>1. reqScope \in [Backups -> ReqScopes]
    BY <1>1, AgesAre DEF ReqScopes
  <2> QED BY <1>1, <2>1, AgesAre DEF CutTypes, Guards, CallPhases, Works
<1>3. LineInv /\ BehindInv
  BY <1>1 DEF LineInv, BehindInv, AtWork, Holding
<1>4. ASSUME NEW c \in Backups PROVE LeaseInv(c) /\ WorkInv(c) /\ IdleInv(c) /\ HolderInv(c)
  <2>1. /\ callPhase[c] = "new" /\ work[c].at = "none" /\ guardScope[c].cut = "no" /\ said[c] = "none"
        /\ cutLease.by # c /\ ~reqScope[c].cut
    BY <1>1, WatchdogAssumption
  <2> QED BY <2>1 DEF LeaseInv, WorkInv, IdleInv, HolderInv, AtWork, Holding
<1> QED BY <1>1, <1>2, <1>3, <1>4 DEF CutInv

LEMMA CutInvStep == ASSUME CutInv, [Watchdog!Next]_Watchdog!vars PROVE CutInv'
<1>1. CASE UNCHANGED Watchdog!vars
  <2>1. UNCHANGED <<reqScope, guardScope, callPhase, said, work, queue, holder, cutLease, fresh,
                    published, quiet, late, wrong>>
    BY <1>1 DEF Watchdog!vars
  <2>2. CutTypes' /\ LineInv' /\ BehindInv'
    BY <2>1 DEF CutInv, CutTypes, LineInv, BehindInv
  <2>3. ASSUME NEW d \in Backups PROVE (LeaseInv(d) /\ WorkInv(d) /\ IdleInv(d) /\ HolderInv(d))'
    BY <2>1, OtherKeeps
  <2> QED BY <2>1, <2>2, <2>3 DEF CutInv
<1> QED BY <1>1, ArriveKeeps, TurnKeeps, PollKeeps, WaitsKeeps, GuardKeepsCut, WorksKeep, TickKeeps,
           OthersKeep DEF Watchdog!Next

LEMMA CutInvSuffices == CutInv => Watchdog!CutsAreSound
BY DEF CutInv, WorkInv, Watchdog!CutsAreSound

\* No scope is cut while the work it stands for progresses, no other process
\* takes the lease of a run that is not over, an archive appears only under the
\* lease, and what a call says of its archive is true: for any number of calls
\* and any limits, in any order of sweeps, stalls, cuts and what the work does.
THEOREM WatchdogIsSound == Watchdog!Spec => []Watchdog!CutsAreSound
<1>1. Watchdog!Init => CutInv
  BY CutInvInit
<1>2. CutInv /\ [Watchdog!Next]_Watchdog!vars => CutInv'
  BY CutInvStep
<1> QED BY <1>1, <1>2, CutInvSuffices, PTL DEF Watchdog!Spec

\* A step of the composition is one of the watched backups, or leaves them alone.
LEMMA CutSteps == [Next]_vars => [Watchdog!Next]_Watchdog!vars
<1> SUFFICES ASSUME [Next]_vars, ~Watchdog!Next PROVE UNCHANGED Watchdog!vars
  OBVIOUS
<1>1. UNCHANGED cut
  BY DEF Next, vars
<1> QED BY <1>1 DEF cut, Watchdog!vars

\* The same in the composition, while the watched backups are what is looked at.
THEOREM CutsAreSoundTheorem == Spec => []CutsAreSound
<1>1. Init => CutInv
  BY CutInvInit DEF Init
<1>2. CutInv /\ [Next]_vars => CutInv'
  BY CutInvStep, CutSteps
<1>3. CutInv => CutsAreSound
  BY CutInvSuffices DEF CutsAreSound
<1> QED BY <1>1, <1>2, <1>3, PTL DEF Spec
=============================================================================
