----------------------------- MODULE MirrorProofs -----------------------------
(***************************************************************************)
(* Proofs about the parts of MCSharedState that copy what is kept          *)
(* elsewhere, each for any value of its parameters and then in the         *)
(* composition that is checked: the workers' mirrors of the primary        *)
(* (PrimaryState), what the pages of a browser show of the server's data   *)
(* (RequestCache) and its banner of the server's status (StatusBanner).    *)
(* SharedStateProofs is about the other parts.                             *)
(***************************************************************************)
EXTENDS MCSharedState, Integers, Sequences, FiniteSetTheorems, WellFoundedInduction, TLAPS

-----------------------------------------------------------------------------
(* PrimaryState: what is computed one step after the other                 *)

\* What holds of 0 and of the successor of each number up to n.
LEMMA UpTo ==
  ASSUME NEW n \in Nat, NEW T, 0 \in T, \A i \in 1..n : i - 1 \in T => i \in T
  PROVE  \A i \in 0..n : i \in T
<1> SUFFICES ASSUME (0..n) \ T # {} PROVE FALSE
  OBVIOUS
<1>1. PICK x \in (0..n) \ T : \A y \in (0..n) \ T : ~(<<y, x>> \in OpToRel(<, Nat))
  <2>1. (0..n) \ T \subseteq Nat
    OBVIOUS
  <2> QED BY <2>1, NatLessThanWellFounded, WFMin
<1>2. x \in 1..n /\ x - 1 \in 0..n
  OBVIOUS
<1>3. x - 1 \notin T
  BY <1>2
<1>4. <<x - 1, x>> \in OpToRel(<, Nat)
  BY <1>2 DEF OpToRel
<1> QED BY <1>1, <1>2, <1>3, <1>4

\* A finite set has an enumeration in which a measure does not rise.
LEMMA Sorted ==
  ASSUME NEW S, IsFiniteSet(S), NEW e \in [S -> Nat]
  PROVE  \E s \in [1..Cardinality(S) -> S] :
           /\ \A k \in S : \E i \in DOMAIN s : s[i] = k
           /\ \A i, j \in DOMAIN s : i < j => e[s[i]] >= e[s[j]]
<1> DEFINE Good(R, s) == /\ s \in [1..Cardinality(R) -> R]
                         /\ \A k \in R : \E i \in DOMAIN s : s[i] = k
                         /\ \A i, j \in DOMAIN s : i < j => e[s[i]] >= e[s[j]]
           N == Cardinality(S)
           T == {m \in 0..N : \A R \in SUBSET S : Cardinality(R) = m => \E s : Good(R, s)}
<1>0. N \in Nat /\ \A R \in SUBSET S : IsFiniteSet(R) /\ Cardinality(R) \in Nat
  BY FS_CardinalityType, FS_Subset
<1>1. 0 \in T
  <2>1. SUFFICES ASSUME NEW R \in SUBSET S, Cardinality(R) = 0 PROVE \E s : Good(R, s)
    BY <1>0
  <2>2. R = {}
    BY <1>0, <2>1, FS_EmptySet
  <2>3. Good(R, <<>>)
    BY <2>1, <2>2
  <2> QED BY <2>3
<1>2. ASSUME NEW m \in 1..N, m - 1 \in T PROVE m \in T
  <2>1. SUFFICES ASSUME NEW R \in SUBSET S, Cardinality(R) = m PROVE \E s : Good(R, s)
    BY <1>0
  <2>2. R # {}
    BY <1>0, <2>1, FS_EmptySet
  <2>3. PICK x \in R : \A y \in R : e[x] <= e[y]
    <3> DEFINE V == {e[y] : y \in R}
    <3>1. V \subseteq Nat /\ V # {}
      BY <2>2
    <3>2. PICK v \in V : \A u \in V : ~(<<u, v>> \in OpToRel(<, Nat))
      BY <3>1, NatLessThanWellFounded, WFMin
    <3>3. PICK x \in R : v = e[x]
      BY <3>2
    <3>4. ASSUME NEW y \in R PROVE e[x] <= e[y]
      <4>1. ~(<<e[y], v>> \in OpToRel(<, Nat))
        BY <3>2
      <4>2. e[y] \in Nat /\ v \in Nat
        BY <3>1
      <4>3. ~(e[y] < v)
        BY <4>1, <4>2 DEF OpToRel
      <4> QED BY <3>3, <4>2, <4>3
    <3> QED BY <3>4
  <2>4. Cardinality(R \ {x}) = m - 1 /\ R \ {x} \in SUBSET S
    BY <1>0, <2>1, FS_RemoveElement
  <2>5. PICK t : Good(R \ {x}, t)
    BY <1>2, <2>4
  <2> DEFINE s == [i \in 1..m |-> IF i < m THEN t[i] ELSE x]
  <2>6. t \in [1..(m - 1) -> R \ {x}]
    BY <2>4, <2>5
  <2>7. s \in [1..m -> R] /\ s[m] = x /\ \A i \in 1..(m - 1) : s[i] = t[i]
    BY <2>6
  <2>8. ASSUME NEW k \in R PROVE \E i \in DOMAIN s : s[i] = k
    <3>1. CASE k = x
      BY <2>7, <3>1
    <3>2. CASE k # x
      <4>1. PICK i \in 1..(m - 1) : t[i] = k
        BY <2>5, <2>6, <3>2
      <4> QED BY <2>7, <4>1
    <3> QED BY <3>1, <3>2
  <2>9. ASSUME NEW i \in DOMAIN s, NEW j \in DOMAIN s, i < j PROVE e[s[i]] >= e[s[j]]
    <3>1. i \in 1..(m - 1) /\ s[i] = t[i] /\ t[i] \in R
      BY <2>6, <2>7, <2>9
    <3>2. CASE j = m
      BY <2>3, <2>7, <3>1, <3>2
    <3>3. CASE j # m
      <4>1. j \in 1..(m - 1) /\ s[j] = t[j]
        BY <2>7, <2>9, <3>3
      <4> QED BY <2>5, <2>6, <2>9, <3>1, <4>1
    <3> QED BY <3>2, <3>3
  <2>10. Good(R, s)
    BY <2>1, <2>7, <2>8, <2>9
  <2> HIDE DEF s, Good
  <2> QED BY <2>10
<1>3. \A i \in 0..N : i \in T
  <2> HIDE DEF T, N
  <2> QED BY <1>0, <1>1, <1>2, UpTo
<1>4. \E s : Good(S, s)
  <2> HIDE DEF Good
  <2> QED BY <1>0, <1>3
<1> QED BY <1>4

-----------------------------------------------------------------------------
(* PrimaryState: what a worker makes of a message                          *)

Held     == [Families -> Nat]
Copies   == [held : Held, strayed : SUBSET Families]
Messages == [kind : {"revoke", "record", "strike", "unblock", "listening", "block", "clear", "sync"},
             entries : Held, key : Families, sent : Nat]

StateAssumption == topic \in {"auth", "sf", "sched"} /\ psNow \in Nat

\* Steps from copy to copy have a history.
Steps(n, F) == \A i \in 1..n : \A x \in Copies : F[i][x] \in Copies

Past(n, c, F, f) == f \in [0..n -> Copies] /\ f[0] = c /\ \A i \in 1..n : f[i] = F[i][f[i - 1]]

LEMMA History ==
  ASSUME NEW n \in Nat, NEW c \in Copies, NEW F, Steps(n, F)
  PROVE  \E f : Past(n, c, F, f)
<1> USE DEF Steps
<1> DEFINE Ends(m) == \E f \in [0..m -> Copies] : f[0] = c /\ \A i \in 1..m : f[i] = F[i][f[i - 1]]
           T == {m \in 0..n : Ends(m)}
<1>1. 0 \in T
  <2> DEFINE g == [i \in 0..0 |-> c]
  <2>1. g \in [0..0 -> Copies] /\ g[0] = c /\ \A i \in 1..0 : g[i] = F[i][g[i - 1]]
    OBVIOUS
  <2>2. Ends(0)
    <3> HIDE DEF g
    <3> QED BY <2>1
  <2> QED BY <2>2
<1>2. ASSUME NEW m \in 1..n, m - 1 \in T PROVE m \in T
  <2>1. PICK f \in [0..(m - 1) -> Copies] : f[0] = c /\ \A i \in 1..(m - 1) : f[i] = F[i][f[i - 1]]
    BY <1>2
  <2> DEFINE g == [i \in 0..m |-> IF i < m THEN f[i] ELSE F[m][f[m - 1]]]
  <2>2. f[m - 1] \in Copies /\ F[m][f[m - 1]] \in Copies
    BY <2>1
  <2>3. g \in [0..m -> Copies] /\ g[0] = c
    BY <2>1, <2>2
  <2>4. ASSUME NEW i \in 1..m PROVE g[i] = F[i][g[i - 1]]
    BY <2>1, <2>2, <2>4
  <2>5. Ends(m)
    <3> HIDE DEF g
    <3> QED BY <2>3, <2>4
  <2> HIDE DEF g, Ends
  <2> QED BY <2>5
<1>3. \A i \in 0..n : i \in T
  <2> HIDE DEF T
  <2> QED BY <1>1, <1>2, UpTo
<1> QED BY <1>3 DEF Past

\* The counts of the component are those of this module.
LEMMA FamiliesAreCounted == \A S : State!Cardinality(S) = Cardinality(S)
BY DEF State!Cardinality, Cardinality

LEMMA AppliedIsCopy ==
  ASSUME StateAssumption, NEW c \in Copies, NEW kind, NEW k \in Families, NEW v \in Nat
  PROVE  State!Applied(c, kind, k, v) \in Copies
<1>1. State!Taken(c, k, v) \in Copies
  BY DEF State!Taken, Copies, Held
<1>2. State!Revoked(c, k, v) \in Copies
  BY DEF State!Revoked, State!Larger, Copies, Held
<1> QED BY <1>1, <1>2 DEF State!Applied, StateAssumption

\* A message that is accepted is applied entry by entry, each at least once.
LEMMA ReceivedSteps ==
  ASSUME StateAssumption, NEW c \in Copies, NEW m \in Messages, State!Valid(m)
  PROVE  \E n \in Nat : \E g \in [0..n -> Copies], s \in [1..n -> State!Named(m)] :
           /\ \A k \in State!Named(m) : \E i \in 1..n : s[i] = k
           /\ g[0] = c /\ State!Received(c, m) = g[n]
           /\ \A i \in 1..n : g[i] = State!Applied(g[i - 1], m.kind, s[i], m.entries[s[i]])
<1> DEFINE S == State!Named(m)
           n == Cardinality(S)
           s == State!LongestFirst(m)
           A(x, i) == State!Applied(x, m.kind, s[i], m.entries[s[i]])
           g == CHOOSE f : f = [i \in 0..n |-> IF i = 0 THEN c ELSE A(f[i - 1], i)]
<1>1. S \subseteq Families /\ IsFiniteSet(S) /\ n \in Nat
  BY MirrorsAssumption, FS_Subset, FS_CardinalityType DEF State!Named
<1>2. m.entries \in Held /\ m.kind = m.kind
  BY DEF Messages
<1>3. s \in [1..n -> S] /\ \A k \in S : \E i \in DOMAIN s : s[i] = k
  <2> DEFINE e == [k \in S |-> m.entries[k]]
             Good(t) == /\ t \in [1..n -> S]
                        /\ \A k \in S : \E i \in DOMAIN t : t[i] = k
                        /\ \A i, j \in DOMAIN t : i < j => m.entries[t[i]] >= m.entries[t[j]]
  <2>1. e \in [S -> Nat]
    BY <1>1, <1>2 DEF Held
  <2>2. PICK t \in [1..n -> S] :
           /\ \A k \in S : \E i \in DOMAIN t : t[i] = k
           /\ \A i, j \in DOMAIN t : i < j => e[t[i]] >= e[t[j]]
    <3> HIDE DEF S, e
    <3> QED BY <1>1, <2>1, Sorted
  <2>3. \A i \in DOMAIN t : t[i] \in S /\ e[t[i]] = m.entries[t[i]]
    BY <2>2
  <2>4. Good(t)
    BY <2>2, <2>3
  <2>5. s = CHOOSE t1 \in [1..n -> S] :
              /\ \A k \in S : \E i \in DOMAIN t1 : t1[i] = k
              /\ \A i, j \in DOMAIN t1 : i < j => m.entries[t1[i]] >= m.entries[t1[j]]
    BY FamiliesAreCounted DEF State!LongestFirst
  <2> HIDE DEF S, n, s, e
  <2>6. Good(s)
    BY <2>4, <2>5
  <2> QED BY <2>6
<1>4. State!Received(c, m) = g[n]
  BY FamiliesAreCounted DEF State!Received
<1> HIDE DEF S, n, s
<1>5. ASSUME NEW i \in 1..n, NEW x \in Copies PROVE A(x, i) \in Copies
  <2>1. s[i] \in Families /\ m.entries[s[i]] \in Nat
    BY <1>1, <1>2, <1>3 DEF Held
  <2> QED BY <2>1, AppliedIsCopy
<1> DEFINE F == [i \in 1..n |-> [x \in Copies |-> A(x, i)]]
<1> HIDE DEF A
<1>6. PICK f \in [0..n -> Copies] : f[0] = c /\ \A i \in 1..n : f[i] = F[i][f[i - 1]]
  <2>1. Steps(n, F)
    BY <1>5 DEF Steps
  <2>2. n \in Nat /\ c \in Copies
    BY <1>1
  <2> HIDE DEF F, g
  <2>3. PICK f : Past(n, c, F, f)
    BY <2>1, <2>2, History
  <2> QED BY <2>3 DEF Past
<1>7. ASSUME NEW i \in 1..n PROVE f[i - 1] \in Copies /\ f[i] = A(f[i - 1], i)
  <2>1. f[i - 1] \in Copies /\ f[i] = F[i][f[i - 1]]
    BY <1>1, <1>6, <1>7
  <2>2. F[i][f[i - 1]] = A(f[i - 1], i)
    BY <2>1
  <2> QED BY <2>1, <2>2
<1>8. f = [i \in 0..n |-> IF i = 0 THEN c ELSE A(f[i - 1], i)]
  BY <1>1, <1>6, <1>7
<1>9. g = [i \in 0..n |-> IF i = 0 THEN c ELSE A(g[i - 1], i)]
  BY <1>8
<1> HIDE DEF g
<1> DEFINE T == {i \in 0..n : g[i] \in Copies}
<1>10. \A i \in 0..n : i \in T
  <2>1. 0 \in T
    BY <1>1, <1>9
  <2>2. ASSUME NEW i \in 1..n, i - 1 \in T PROVE i \in T
    BY <1>1, <1>5, <1>9, <2>2
  <2> HIDE DEF T
  <2> QED BY <1>1, <2>1, <2>2, UpTo
<1>11. g \in [0..n -> Copies] /\ g[0] = c /\ \A i \in 1..n : g[i] = A(g[i - 1], i)
  BY <1>1, <1>9, <1>10
<1>12. \A k \in S : \E i \in 1..n : s[i] = k
  BY <1>3
<1> QED BY <1>1, <1>3, <1>4, <1>11, <1>12 DEF A, S

LEMMA ReceivedIsCopy ==
  ASSUME StateAssumption, NEW c \in Copies, NEW m \in Messages
  PROVE  State!Received(c, m) \in Copies
<1>1. CASE State!Valid(m)
  <2>1. PICK n \in Nat : \E g \in [0..n -> Copies] : State!Received(c, m) = g[n]
    BY <1>1, ReceivedSteps
  <2> QED BY <2>1
<1>2. CASE ~State!Valid(m)
  BY <1>2 DEF State!Received
<1> QED BY <1>1, <1>2

\* The copy refuses family k up to time x, or says that it had no room for it.
Keeps(c, k, x) == c.held[k] >= x \/ k \in c.strayed

LEMMA RevokedKeeps ==
  ASSUME NEW c \in Copies, NEW j \in Families, NEW v \in Nat, psNow \in Nat,
         NEW k \in Families, NEW x \in Nat, x > psNow
  PROVE  /\ Keeps(c, k, x) => Keeps(State!Revoked(c, j, v), k, x)
         /\ j = k /\ v >= x => Keeps(State!Revoked(c, j, v), k, x)
<1>1. c.held \in Held /\ c.held[k] \in Nat /\ c.held[j] \in Nat
  BY DEF Copies, Held
<1> DEFINE out == IF c.held[j] > 0 THEN {} ELSE State!Evicted(c.held)
           E   == [i \in Families |-> IF i \in out THEN 0 ELSE c.held[i]]
           r   == State!Revoked(c, j, v)
<1>2. /\ r.held = [E EXCEPT ![j] = State!Larger(@, v)]
      /\ r.strayed = c.strayed \cup {i \in Families : i \in out /\ c.held[i] > psNow}
  BY DEF State!Revoked
<1>3. E \in Held /\ E[k] = IF k \in out THEN 0 ELSE c.held[k]
  BY <1>1 DEF Held
<1> HIDE DEF r, out
<1>4. r.held[k] = IF j = k THEN State!Larger(E[k], v) ELSE E[k]
  BY <1>2, <1>3 DEF Held
<1>5. j = k /\ v >= x => r.held[k] >= x
  BY <1>1, <1>3, <1>4 DEF State!Larger
<1>6. k \notin out => r.held[k] >= c.held[k]
  BY <1>1, <1>3, <1>4 DEF State!Larger
<1>7. r.held[k] \in Nat
  BY <1>1, <1>3, <1>4 DEF State!Larger
<1>8. k \in out /\ c.held[k] >= x => k \in r.strayed
  BY <1>1, <1>2
<1> HIDE DEF E
<1> QED BY <1>1, <1>2, <1>5, <1>6, <1>7, <1>8 DEF Keeps, r

\* No message makes a worker forget a revocation that has not run out, and one that
\* is accepted is known from then on.
LEMMA RevocationsStay ==
  ASSUME StateAssumption, topic = "auth", NEW c \in Copies, NEW m \in Messages,
         NEW k \in Families, NEW x \in Nat, x > psNow
  PROVE  /\ Keeps(c, k, x) => Keeps(State!Received(c, m), k, x)
         /\ State!Valid(m) /\ m.entries[k] >= x => Keeps(State!Received(c, m), k, x)
<1>1. CASE ~State!Valid(m)
  BY <1>1 DEF State!Received
<1>2. CASE State!Valid(m)
  <2>1. PICK n \in Nat : \E g \in [0..n -> Copies], s \in [1..n -> State!Named(m)] :
           /\ \A j \in State!Named(m) : \E i \in 1..n : s[i] = j
           /\ g[0] = c /\ State!Received(c, m) = g[n]
           /\ \A i \in 1..n : g[i] = State!Applied(g[i - 1], m.kind, s[i], m.entries[s[i]])
    BY <1>2, ReceivedSteps
  <2>2. PICK g \in [0..n -> Copies], s \in [1..n -> State!Named(m)] :
           /\ \A j \in State!Named(m) : \E i \in 1..n : s[i] = j
           /\ g[0] = c /\ State!Received(c, m) = g[n]
           /\ \A i \in 1..n : g[i] = State!Applied(g[i - 1], m.kind, s[i], m.entries[s[i]])
    BY <2>1
  <2>3. ASSUME NEW i \in 1..n
        PROVE  /\ g[i - 1] \in Copies /\ g[i] = State!Revoked(g[i - 1], s[i], m.entries[s[i]])
               /\ s[i] \in Families /\ m.entries[s[i]] \in Nat
    <3>1. g[i - 1] \in Copies /\ g[i] = State!Applied(g[i - 1], m.kind, s[i], m.entries[s[i]])
      BY <2>2, <2>3
    <3>2. s[i] \in Families /\ m.entries[s[i]] \in Nat
      <4>1. s[i] \in State!Named(m) /\ m.entries \in Held
        BY <2>2, <2>3 DEF Messages
      <4> QED BY <4>1 DEF State!Named, Held
    <3> QED BY <3>1, <3>2 DEF State!Applied
  <2>4. psNow \in Nat
    BY DEF StateAssumption
  <2>9. ASSUME NEW i \in 1..n
        PROVE  /\ Keeps(g[i - 1], k, x) => Keeps(g[i], k, x)
               /\ s[i] = k /\ m.entries[s[i]] >= x => Keeps(g[i], k, x)
    <3>1. /\ g[i - 1] \in Copies /\ g[i] = State!Revoked(g[i - 1], s[i], m.entries[s[i]])
          /\ s[i] \in Families /\ m.entries[s[i]] \in Nat
      BY <2>3, <2>9
    <3> QED BY <2>4, <3>1, RevokedKeeps
  <2> DEFINE T == {i \in 0..n : Keeps(c, k, x) => Keeps(g[i], k, x)}
             U == {i \in 0..n : (\E j \in 1..i : s[j] = k) /\ m.entries[k] >= x => Keeps(g[i], k, x)}
  <2>5. \A i \in 0..n : i \in T
    <3>1. 0 \in T
      BY <2>2
    <3>2. ASSUME NEW i \in 1..n, i - 1 \in T PROVE i \in T
      <4>1. Keeps(g[i - 1], k, x) => Keeps(g[i], k, x)
        BY <2>9, <3>2
      <4> QED BY <3>2, <4>1
    <3> HIDE DEF T
    <3> QED BY <3>1, <3>2, UpTo
  <2>6. \A i \in 0..n : i \in U
    <3>1. 0 \in U
      OBVIOUS
    <3>2. ASSUME NEW i \in 1..n, i - 1 \in U PROVE i \in U
      <4>1. /\ Keeps(g[i - 1], k, x) => Keeps(g[i], k, x)
            /\ s[i] = k /\ m.entries[s[i]] >= x => Keeps(g[i], k, x)
        BY <2>9, <3>2
      <4>2. ASSUME \E j \in 1..i : s[j] = k, m.entries[k] >= x PROVE Keeps(g[i], k, x)
        <5>1. CASE s[i] = k
          BY <4>1, <4>2, <5>1
        <5>2. CASE s[i] # k
          <6>1. \E j \in 1..(i - 1) : s[j] = k
            BY <4>2, <5>2
          <6> QED BY <3>2, <4>1, <4>2, <6>1
        <5> QED BY <5>1, <5>2
      <4> QED BY <4>2
    <3> HIDE DEF U
    <3> QED BY <3>1, <3>2, UpTo
  <2>7. Keeps(c, k, x) => Keeps(g[n], k, x)
    BY <2>5
  <2>8. ASSUME m.entries[k] >= x PROVE Keeps(g[n], k, x)
    <3>1. k \in State!Named(m)
      <4>1. m.entries[k] \in Nat
        BY DEF Messages, Held
      <4> QED BY <2>4, <2>8, <4>1 DEF State!Named
    <3>2. n \in U
      BY <2>6
    <3> QED BY <2>2, <2>8, <3>1, <3>2
  <2> QED BY <2>2, <2>7, <2>8
<1> QED BY <1>1, <1>2

\* What a worker holds of key k after message m, of the other topics.
After(c, m, k) ==
  IF k \notin State!Named(m) \/ (topic = "sched" /\ m.kind = "sync" /\ c.held[k] > m.entries[k])
  THEN c.held[k] ELSE m.entries[k]

LEMMA EntriesTaken ==
  ASSUME StateAssumption, topic # "auth", NEW c \in Copies, NEW m \in Messages, State!Valid(m),
         NEW k \in Families
  PROVE  /\ State!Received(c, m).held[k] = After(c, m, k)
         /\ topic = "sf" => (k \in State!Received(c, m).strayed
                               <=> k \in c.strayed /\ k \notin State!Named(m))
<1>1. PICK n \in Nat : \E g \in [0..n -> Copies], s \in [1..n -> State!Named(m)] :
         /\ \A j \in State!Named(m) : \E i \in 1..n : s[i] = j
         /\ g[0] = c /\ State!Received(c, m) = g[n]
         /\ \A i \in 1..n : g[i] = State!Applied(g[i - 1], m.kind, s[i], m.entries[s[i]])
  BY ReceivedSteps
<1>2. PICK g \in [0..n -> Copies], s \in [1..n -> State!Named(m)] :
         /\ \A j \in State!Named(m) : \E i \in 1..n : s[i] = j
         /\ g[0] = c /\ State!Received(c, m) = g[n]
         /\ \A i \in 1..n : g[i] = State!Applied(g[i - 1], m.kind, s[i], m.entries[s[i]])
  BY <1>1
<1> DEFINE e == m.entries
           Done(i) == \E j \in 1..i : s[j] = k
           Late == topic = "sched" /\ m.kind = "sync" /\ c.held[k] > e[k]
           Right(i) == /\ g[i].held[k] = IF ~Done(i) \/ Late THEN c.held[k] ELSE e[k]
                       /\ topic = "sf" => (k \in g[i].strayed <=> k \in c.strayed /\ ~Done(i))
<1>3. c.held[k] \in Nat /\ e[k] \in Nat
  BY DEF Copies, Messages, Held
<1>4. ASSUME NEW i \in 1..n
      PROVE  /\ s[i] # k => g[i].held[k] = g[i - 1].held[k] /\ (k \in g[i].strayed <=> k \in g[i - 1].strayed)
             /\ s[i] = k /\ topic = "sf" => g[i].held[k] = e[k] /\ k \notin g[i].strayed
             /\ s[i] = k /\ topic = "sched" =>
                  g[i].held[k] = IF m.kind = "sync" /\ g[i - 1].held[k] > e[k]
                                 THEN g[i - 1].held[k] ELSE e[k]
  <2>1. g[i - 1] \in Copies /\ g[i] = State!Applied(g[i - 1], m.kind, s[i], e[s[i]])
    BY <1>2, <1>4
  <2>2. g[i - 1].held \in Held
    BY <2>1 DEF Copies
  <2> DEFINE t == State!Taken(g[i - 1], s[i], e[s[i]])
  <2>3. /\ t.held[k] = IF s[i] = k THEN e[k] ELSE g[i - 1].held[k]
        /\ t.strayed = g[i - 1].strayed \ {s[i]}
    BY <2>2 DEF State!Taken, Held
  <2>4. g[i] = IF topic = "sched" /\ m.kind = "sync" /\ g[i - 1].held[s[i]] > e[s[i]]
               THEN g[i - 1] ELSE t
    BY <2>1 DEF State!Applied, StateAssumption
  <2> HIDE DEF t, e
  <2> QED BY <2>3, <2>4
<1> DEFINE T == {i \in 0..n : Right(i)}
<1>5. \A i \in 0..n : i \in T
  <2>1. 0 \in T
    BY <1>2
  <2>2. ASSUME NEW i \in 1..n, i - 1 \in T PROVE i \in T
    <3>1. Right(i - 1)
      BY <2>2
    <3>2. Done(i) <=> Done(i - 1) \/ s[i] = k
      <4>1. 1..i = (1..(i - 1)) \cup {i}
        OBVIOUS
      <4> QED BY <4>1
    <3> HIDE DEF Done, e
    <3>3. Right(i)
      <4>1. CASE s[i] # k
        BY <1>4, <3>1, <3>2, <4>1
      <4>2. CASE s[i] = k /\ topic = "sf"
        BY <1>4, <3>1, <3>2, <4>2
      <4>3. CASE s[i] = k /\ topic = "sched"
        BY <1>3, <1>4, <3>1, <3>2, <4>3
      <4> QED BY <4>1, <4>2, <4>3 DEF StateAssumption
    <3> HIDE DEF Right
    <3> QED BY <3>3
  <2> HIDE DEF T
  <2> QED BY <2>1, <2>2, UpTo
<1>6. Right(n)
  BY <1>5
<1>7. Done(n) <=> k \in State!Named(m)
  BY <1>2
<1> HIDE DEF Done
<1> QED BY <1>2, <1>6, <1>7 DEF After

\* A channel is read message by message.
LEMMA DrainedSteps ==
  ASSUME NEW w
  PROVE  StateAssumption /\ State!Copy(w) \in Copies /\ inbox[w] \in Seq(Messages) =>
         \E g \in [0..Len(inbox[w]) -> Copies] :
           /\ g[0] = State!Copy(w) /\ State!Drained(w) = g[Len(inbox[w])]
           /\ \A i \in 1..Len(inbox[w]) : g[i] = State!Received(g[i - 1], inbox[w][i])
<1> DEFINE c == State!Copy(w)
           n == Len(inbox[w])
           A(x, i) == State!Received(x, inbox[w][i])
           g == CHOOSE f : f = [i \in 0..n |-> IF i = 0 THEN c ELSE A(f[i - 1], i)]
           F == [i \in 1..n |-> [x \in Copies |-> A(x, i)]]
<1>1. SUFFICES ASSUME StateAssumption, c \in Copies, inbox[w] \in Seq(Messages)
      PROVE  \E h \in [0..n -> Copies] : /\ h[0] = c /\ State!Drained(w) = h[n]
                                        /\ \A i \in 1..n : h[i] = A(h[i - 1], i)
  OBVIOUS
<1>2. c \in Copies /\ n \in Nat
  BY <1>1
<1>3. ASSUME NEW i \in 1..n, NEW x \in Copies PROVE A(x, i) \in Copies
  <2>1. inbox[w][i] \in Messages
    BY <1>1
  <2> QED BY <1>1, <2>1, ReceivedIsCopy
<1>10. State!Drained(w) = g[n]
  BY DEF State!Drained
<1> HIDE DEF A, g, n, c
<1>4. PICK f \in [0..n -> Copies] : f[0] = c /\ \A i \in 1..n : f[i] = F[i][f[i - 1]]
  <2>1. Steps(n, F)
    BY <1>3 DEF Steps
  <2>2. n \in Nat /\ c \in Copies
    BY <1>2
  <2> HIDE DEF F
  <2>3. PICK f : Past(n, c, F, f)
    BY <2>1, <2>2, History
  <2> QED BY <2>3 DEF Past
<1>5. ASSUME NEW i \in 1..n PROVE f[i] = A(f[i - 1], i)
  <2>1. f[i - 1] \in Copies /\ f[i] = F[i][f[i - 1]]
    BY <1>2, <1>4, <1>5
  <2>2. F[i][f[i - 1]] = A(f[i - 1], i)
    BY <2>1
  <2> QED BY <2>1, <2>2
<1>6. f = [i \in 0..n |-> IF i = 0 THEN c ELSE A(f[i - 1], i)]
  BY <1>2, <1>4, <1>5
<1>7. g = [i \in 0..n |-> IF i = 0 THEN c ELSE A(g[i - 1], i)]
  BY <1>6 DEF g
<1> HIDE DEF F
<1> DEFINE T == {i \in 0..n : g[i] \in Copies}
<1>8. \A i \in 0..n : i \in T
  <2>1. 0 \in T
    BY <1>2, <1>7
  <2>2. ASSUME NEW i \in 1..n, i - 1 \in T PROVE i \in T
    BY <1>2, <1>3, <1>7, <2>2
  <2> HIDE DEF T
  <2> QED BY <1>2, <2>1, <2>2, UpTo
<1>9. g \in [0..n -> Copies] /\ g[0] = c /\ \A i \in 1..n : g[i] = A(g[i - 1], i)
  BY <1>2, <1>7, <1>8
<1> QED BY <1>9, <1>10

-----------------------------------------------------------------------------
(* PrimaryState: its invariant                                             *)

StateTypes ==
  /\ StateAssumption /\ psNow > 0
  /\ status \in [Workers -> {"unborn", "booting", "listening", "gone"}]
  /\ mirror \in [Workers -> Held] /\ primary \in Held
  /\ strayed \in [Workers -> SUBSET Families]
  /\ outbox \in [Workers -> Seq(Messages)] /\ inbox \in [Workers -> Seq(Messages)]
  /\ synced \subseteq State!Alive

NamesOne(m) == \A k \in Families : k # m.key => m.entries[k] = 0

\* What a worker of each topic sends, and what the primary does.
Sendable(m) ==
  \/ topic = "auth" /\ m.kind = "revoke" /\ NamesOne(m)
  \/ topic = "sched" /\ m.kind = "record" /\ NamesOne(m) /\ m.entries[m.key] > 0
  \/ topic = "sf" /\ m.kind \in {"strike", "unblock"} /\ m.entries = State!None
  \/ m.kind = "listening" /\ m.entries = State!None

\* No entry of a block or a snapshot had run out when it was sent.
Ahead(m) == \A k \in Families : m.entries[k] = 0 \/ m.entries[k] >= m.sent

Broadcastable(m) ==
  \/ topic = "auth" /\ m.kind = "revoke" /\ NamesOne(m)
  \/ topic = "auth" /\ m.kind = "sync" /\ Ahead(m)
  \/ topic = "sched" /\ m.kind = "record" /\ NamesOne(m)
  \/ topic = "sched" /\ m.kind = "sync"
  \/ topic = "sf" /\ m.kind \in {"block", "sync"} /\ Ahead(m)
  \/ topic = "sf" /\ m.kind = "clear" /\ m.entries = State!None

ChannelsFit ==
  /\ \A w \in Workers : \A i \in DOMAIN outbox[w] : Sendable(outbox[w][i])
  /\ \A w \in Workers : \A i \in DOMAIN inbox[w] :
       Broadcastable(inbox[w][i]) /\ psNow <= inbox[w][i].sent + MaxDelay
  /\ \A w \in Workers : status[w] = "unborn" =>
       /\ mirror[w] = State!None /\ strayed[w] = {}
       /\ inbox[w] = <<>> /\ outbox[w] = <<>>

\* Family k is refused up to time x once worker w has read its channel.
Told(w, k, x) == \/ Keeps(State!Copy(w), k, x)
                 \/ \E i \in DOMAIN inbox[w] : inbox[w][i].entries[k] >= x

\* A worker is told of what the primary knows, and knew what it has reported.
RevocationsTold ==
  topic = "auth" => \A w \in State!Alive, k \in Families :
    /\ w \in synced /\ primary[k] > psNow => Told(w, k, primary[k])
    /\ \A i \in DOMAIN outbox[w] :
         outbox[w][i].entries[k] > psNow => Told(w, k, outbox[w][i].entries[k])

\* Value v of address k is the primary's for all that matters now, or worker w has
\* yet to be sent the snapshot.
Matches(w, k, v) == v = primary[k] \/ (v <= psNow /\ (primary[k] <= psNow \/ w \notin synced))

\* The last message about an address decides, or what the worker holds if there is none.
BlocksTold ==
  topic = "sf" => \A w \in State!Alive, k \in Families :
    /\ \A i \in DOMAIN inbox[w] :
         /\ k \in State!Named(inbox[w][i])
         /\ \A j \in DOMAIN inbox[w] : j > i => k \notin State!Named(inbox[w][j])
         => Matches(w, k, inbox[w][i].entries[k])
    /\ (\A i \in DOMAIN inbox[w] : k \notin State!Named(inbox[w][i])) =>
         k \in strayed[w] \/ Matches(w, k, mirror[w][k])

\* Only one worker has records under way: the leader, or the last one if it is gone.
Recorder(w) == \E i \in DOMAIN outbox[w] : outbox[w][i].kind = "record"

OneRecorder ==
  /\ \A w \in Workers : Recorder(w) => leader = IF w \in State!Alive THEN w ELSE 0
  /\ \A w, v \in Workers : Recorder(w) /\ Recorder(v) => w = v
  /\ \A w \in Workers : leader = w => \A i \in DOMAIN inbox[w] : inbox[w][i].kind # "record"

\* Outcomes are handled in the order of their times.
RecordsRise ==
  /\ \A k \in Families : primary[k] <= psNow
  /\ \A w \in Workers, k \in Families :
       /\ mirror[w][k] <= psNow
       /\ \A i \in DOMAIN outbox[w] :
            /\ outbox[w][i].entries[k] <= psNow
            /\ outbox[w][i].entries[k] = 0 \/ primary[k] <= outbox[w][i].entries[k]
            /\ \A j \in DOMAIN outbox[w] : i < j =>
                 outbox[w][j].entries[k] = 0 \/ outbox[w][i].entries[k] <= outbox[w][j].entries[k]

\* Time h is that of the latest outcome of job k that worker w holds once it has read i
\* messages: what it holds or is still told of is the latest of what the primary knows
\* and what the worker reports.
Latest(w, k, h, i) ==
  /\ h <= primary[k] \/ \E o \in DOMAIN outbox[w] : h <= outbox[w][o].entries[k]
  /\ \A o \in DOMAIN outbox[w] : outbox[w][o].entries[k] <= h
  /\ w \in synced => \/ primary[k] <= h
                     \/ \E j \in DOMAIN inbox[w] : i < j /\ primary[k] <= inbox[w][j].entries[k]
  /\ \A j \in DOMAIN inbox[w] : i < j =>
       /\ inbox[w][j].entries[k] <= primary[k]
       /\ inbox[w][j].kind = "record" /\ inbox[w][j].entries[k] > 0 =>
            /\ h <= inbox[w][j].entries[k]
            /\ \A l \in DOMAIN inbox[w] : i < l /\ l < j =>
                 inbox[w][l].entries[k] <= inbox[w][j].entries[k]

RecordsTold == \A w \in State!Alive, k \in Families : Latest(w, k, mirror[w][k], 0)

OutcomesTold == topic = "sched" => OneRecorder /\ RecordsRise /\ RecordsTold

MirrorInv == StateTypes /\ ChannelsFit /\ RevocationsTold /\ BlocksTold /\ OutcomesTold
-----------------------------------------------------------------------------
(* PrimaryState: what the invariant says of a copy that is up to date      *)

\* The validators accept what matters: a message that is not too old to arrive.
LEMMA MessagesAreValid ==
  ASSUME StateTypes, NEW m \in Messages, Broadcastable(m), psNow <= m.sent + MaxDelay
  PROVE  /\ topic # "auth" => State!Valid(m)
         /\ \A k \in Families : m.entries[k] > psNow => State!Valid(m)
<1>1. /\ m.entries \in Held /\ \A k \in Families : m.entries[k] \in Nat
      /\ m.sent \in Nat /\ psNow \in Nat /\ Slack \in Nat /\ MaxDelay \in Nat /\ MaxDelay <= Slack
  BY MirrorsAssumption DEF Messages, Held, StateTypes, StateAssumption
<1>2. CASE Ahead(m)
  <2>1. ASSUME NEW k \in Families PROVE m.entries[k] = 0 \/ m.entries[k] + Slack >= psNow
    BY <1>1, <1>2 DEF Ahead
  <2> QED BY <2>1 DEF State!Valid
<1>3. CASE NamesOne(m)
  <2>1. ASSUME NEW k \in Families, m.entries[k] > psNow, NEW j \in Families
        PROVE  m.entries[j] = 0 \/ m.entries[j] + Slack >= psNow
    <3>1. k = m.key
      BY <1>1, <1>3, <2>1 DEF NamesOne
    <3> QED BY <1>1, <1>3, <2>1, <3>1 DEF NamesOne
  <2>2. \A k \in Families : m.entries[k] > psNow => State!Valid(m)
    BY <2>1 DEF State!Valid
  <2>3. CASE topic = "sched"
    BY <2>3 DEF State!Valid
  <2>4. CASE topic = "auth"
    BY <2>2, <2>4
  <2>5. CASE topic = "sf"
    <3>1. m.kind = "clear" \/ Ahead(m)
      BY <2>5 DEF Broadcastable
    <3> QED BY <1>2, <3>1 DEF State!Valid
  <2> QED BY <2>3, <2>4, <2>5 DEF StateTypes, StateAssumption
<1>4. CASE topic = "sched" \/ m.kind = "clear"
  BY <1>4 DEF State!Valid
<1> QED BY <1>2, <1>3, <1>4 DEF Broadcastable

\* A worker's copy and the messages under way to it.
LEMMA ChannelTypes ==
  ASSUME StateTypes, NEW w \in Workers
  PROVE  /\ StateAssumption /\ State!Copy(w) \in Copies
         /\ inbox[w] \in Seq(Messages) /\ outbox[w] \in Seq(Messages)
         /\ DOMAIN inbox[w] \subseteq Nat /\ DOMAIN outbox[w] \subseteq Nat
         /\ \A k \in Families : mirror[w][k] \in Nat /\ primary[k] \in Nat
         /\ \A i \in DOMAIN inbox[w], k \in Families : inbox[w][i].entries[k] \in Nat
         /\ \A i \in DOMAIN outbox[w], k \in Families : outbox[w][i].entries[k] \in Nat
         /\ psNow \in Nat
<1>1. /\ StateAssumption /\ State!Copy(w) \in Copies
      /\ inbox[w] \in Seq(Messages) /\ outbox[w] \in Seq(Messages)
      /\ \A k \in Families : mirror[w][k] \in Nat /\ primary[k] \in Nat
      /\ psNow \in Nat
  BY DEF StateTypes, StateAssumption, State!Copy, Copies, Held
<1>2. \A m \in Messages, k \in Families : m.entries[k] \in Nat
  BY DEF Messages, Held
<1>3. /\ \A i \in DOMAIN inbox[w] : inbox[w][i] \in Messages /\ i \in Nat
      /\ \A i \in DOMAIN outbox[w] : outbox[w][i] \in Messages /\ i \in Nat
  BY <1>1
<1> QED BY <1>1, <1>2, <1>3

LEMMA DrainedIsCopy ==
  ASSUME StateTypes, NEW w \in Workers
  PROVE  State!Drained(w) \in Copies /\ \A k \in Families : State!Drained(w).held[k] \in Nat
<1>1. StateAssumption /\ State!Copy(w) \in Copies /\ inbox[w] \in Seq(Messages)
  BY ChannelTypes
<1>2. PICK g \in [0..Len(inbox[w]) -> Copies] : State!Drained(w) = g[Len(inbox[w])]
  BY <1>1, DrainedSteps
<1>3. State!Drained(w) \in Copies
  BY <1>1, <1>2
<1> QED BY <1>3 DEF Copies, Held

\* A worker that has read what is under way to it refuses what it was told of.
LEMMA EndedAgree ==
  ASSUME MirrorInv, topic = "auth", NEW w \in synced, NEW k \in Families
  PROVE  primary[k] <= psNow \/ Keeps(State!Drained(w), k, primary[k])
<1>1. SUFFICES ASSUME primary[k] > psNow PROVE Keeps(State!Drained(w), k, primary[k])
  BY ChannelTypes DEF MirrorInv, StateTypes, State!Alive, StateAssumption, Held
<1>2. StateTypes /\ w \in State!Alive /\ w \in Workers
  BY DEF MirrorInv, StateTypes, State!Alive
<1>3. /\ StateAssumption /\ State!Copy(w) \in Copies /\ inbox[w] \in Seq(Messages)
      /\ primary[k] \in Nat /\ psNow \in Nat
  BY <1>2, ChannelTypes
<1> DEFINE n == Len(inbox[w])
           x == primary[k]
<1>4. PICK g \in [0..n -> Copies] :
        /\ g[0] = State!Copy(w) /\ State!Drained(w) = g[n]
        /\ \A i \in 1..n : g[i] = State!Received(g[i - 1], inbox[w][i])
  BY <1>3, DrainedSteps
<1>5. n \in Nat /\ DOMAIN inbox[w] = 1..n /\ \A i \in 1..n : inbox[w][i] \in Messages
  BY <1>3
<1>6. ASSUME NEW i \in 1..n
      PROVE  /\ Keeps(g[i - 1], k, x) => Keeps(g[i], k, x)
             /\ inbox[w][i].entries[k] >= x => Keeps(g[i], k, x)
  <2>1. /\ g[i - 1] \in Copies /\ g[i] = State!Received(g[i - 1], inbox[w][i])
        /\ inbox[w][i] \in Messages
    BY <1>4, <1>5
  <2>2. Broadcastable(inbox[w][i]) /\ psNow <= inbox[w][i].sent + MaxDelay
    BY <1>2, <1>5 DEF MirrorInv, ChannelsFit
  <2>3. inbox[w][i].entries[k] >= x => State!Valid(inbox[w][i])
    <3>1. inbox[w][i].entries[k] \in Nat
      BY <2>1 DEF Messages, Held
    <3>2. inbox[w][i].entries[k] >= x => inbox[w][i].entries[k] > psNow
      BY <1>1, <1>3, <3>1
    <3> QED BY <1>2, <2>1, <2>2, <3>2, MessagesAreValid
  <2> QED BY <1>1, <1>3, <2>1, <2>3, RevocationsStay
<1> DEFINE Due(i) == Keeps(g[i], k, x) \/ \E j \in (i + 1)..n : inbox[w][j].entries[k] >= x
           T == {i \in 0..n : Due(i)}
<1>7. \A i \in 0..n : i \in T
  <2>1. 0 \in T
    <3>1. Told(w, k, x)
      BY <1>1, <1>2 DEF MirrorInv, RevocationsTold
    <3>2. Due(0)
      BY <1>4, <1>5, <3>1 DEF Told
    <3> HIDE DEF Due
    <3> QED BY <1>5, <3>2
  <2>2. ASSUME NEW i \in 1..n, i - 1 \in T PROVE i \in T
    <3>1. CASE Keeps(g[i - 1], k, x)
      BY <1>6, <3>1
    <3>2. CASE \E j \in i..n : inbox[w][j].entries[k] >= x
      <4>1. PICK j \in i..n : inbox[w][j].entries[k] >= x
        BY <3>2
      <4>2. CASE j = i
        BY <1>6, <4>1, <4>2
      <4>3. CASE j # i
        <5>1. j \in (i + 1)..n
          BY <1>5, <4>3
        <5> QED BY <4>1, <5>1
      <4> QED BY <4>2, <4>3
    <3>3. Keeps(g[i - 1], k, x) \/ \E j \in i..n : inbox[w][j].entries[k] >= x
      BY <2>2
    <3> QED BY <3>1, <3>2, <3>3
  <2> HIDE DEF T
  <2> QED BY <1>5, <2>1, <2>2, UpTo
<1>8. Due(n)
  BY <1>5, <1>7
<1>9. Keeps(g[n], k, x)
  BY <1>5, <1>8
<1> QED BY <1>4, <1>9

\* It blocks an address as the last message about it says.
LEMMA BlockedAgree ==
  ASSUME MirrorInv, topic = "sf", NEW w \in synced, NEW k \in Families
  PROVE  k \in State!Drained(w).strayed \/ Matches(w, k, State!Drained(w).held[k])
<1>2. StateTypes /\ w \in State!Alive /\ w \in Workers
  BY DEF MirrorInv, StateTypes, State!Alive
<1>3. StateAssumption /\ State!Copy(w) \in Copies /\ inbox[w] \in Seq(Messages)
  BY <1>2, ChannelTypes
<1> DEFINE n == Len(inbox[w])
<1>4. PICK g \in [0..n -> Copies] :
        /\ g[0] = State!Copy(w) /\ State!Drained(w) = g[n]
        /\ \A i \in 1..n : g[i] = State!Received(g[i - 1], inbox[w][i])
  BY <1>3, DrainedSteps
<1>5. n \in Nat /\ DOMAIN inbox[w] = 1..n /\ \A i \in 1..n : inbox[w][i] \in Messages
  BY <1>3
<1> DEFINE Names(i) == k \in State!Named(inbox[w][i])
           Fit(i) == k \in g[i].strayed \/ Matches(w, k, g[i].held[k])
<1>6. ASSUME NEW i \in 1..n
      PROVE  /\ ~Names(i) => (Fit(i - 1) => Fit(i))
             /\ Names(i) /\ (\A j \in (i + 1)..n : ~Names(j)) => Fit(i)
  <2>1. /\ g[i - 1] \in Copies /\ g[i] = State!Received(g[i - 1], inbox[w][i])
        /\ inbox[w][i] \in Messages
    BY <1>4, <1>5
  <2>2. Broadcastable(inbox[w][i]) /\ psNow <= inbox[w][i].sent + MaxDelay
    BY <1>2, <1>5 DEF MirrorInv, ChannelsFit
  <2>3. State!Valid(inbox[w][i])
    BY <1>2, <2>1, <2>2, MessagesAreValid
  <2>4. /\ g[i].held[k] = After(g[i - 1], inbox[w][i], k)
        /\ k \in g[i].strayed <=> k \in g[i - 1].strayed /\ ~Names(i)
    BY <1>3, <2>1, <2>3, EntriesTaken
  <2>5. g[i].held[k] = IF Names(i) THEN inbox[w][i].entries[k] ELSE g[i - 1].held[k]
    BY <2>4 DEF After
  <2>6. Names(i) /\ (\A j \in (i + 1)..n : ~Names(j)) => Matches(w, k, inbox[w][i].entries[k])
    <3>1. \A j \in 1..n : j > i => j \in (i + 1)..n
      OBVIOUS
    <3> QED BY <1>2, <1>5, <3>1 DEF MirrorInv, BlocksTold
  <2> QED BY <2>4, <2>5, <2>6
<1> DEFINE Due(i) == (\A j \in (i + 1)..n : ~Names(j)) => Fit(i)
           T == {i \in 0..n : Due(i)}
<1> HIDE DEF Names, Fit
<1>7. \A i \in 0..n : i \in T
  <2>1. 0 \in T
    <3>1. (\A i \in 1..n : ~Names(i)) => k \in strayed[w] \/ Matches(w, k, mirror[w][k])
      BY <1>2, <1>5 DEF MirrorInv, BlocksTold, Names
    <3>2. Due(0)
      BY <1>4, <3>1 DEF Fit, State!Copy
    <3> HIDE DEF Due
    <3> QED BY <1>5, <3>2
  <2>2. ASSUME NEW i \in 1..n, i - 1 \in T PROVE i \in T
    <3>1. (\A j \in i..n : ~Names(j)) => Fit(i - 1)
      BY <2>2
    <3>2. (\A j \in (i + 1)..n : ~Names(j)) /\ ~Names(i) => \A j \in i..n : ~Names(j)
      <4>1. i..n = {i} \cup (i + 1)..n
        BY <1>5
      <4> QED BY <4>1
    <3> QED BY <1>6, <3>1, <3>2
  <2> HIDE DEF T
  <2> QED BY <1>5, <2>1, <2>2, UpTo
<1>8. Due(n)
  BY <1>5, <1>7
<1>9. Fit(n)
  BY <1>5, <1>8
<1> QED BY <1>4, <1>9 DEF Fit


\* A worker that reads a message holds the latest outcome after it as before.
LEMMA LatestStays ==
  ASSUME StateTypes, ChannelsFit, topic = "sched", NEW w \in Workers, NEW k \in Families,
         NEW c \in Copies, NEW i \in DOMAIN inbox[w], Latest(w, k, c.held[k], i - 1)
  PROVE  Latest(w, k, After(c, inbox[w][i], k), i)
<1>1. /\ inbox[w] \in Seq(Messages) /\ outbox[w] \in Seq(Messages) /\ primary[k] \in Nat
      /\ i \in Nat
  BY ChannelTypes
<1>2. /\ \A j \in DOMAIN inbox[w] : inbox[w][j].entries[k] \in Nat
      /\ \A o \in DOMAIN outbox[w] : outbox[w][o].entries[k] \in Nat
      /\ DOMAIN inbox[w] \subseteq Nat
  BY ChannelTypes
<1> DEFINE h == c.held[k]
           e == inbox[w][i].entries[k]
           r == After(c, inbox[w][i], k)
           record == inbox[w][i].kind = "record"
<1>3. h \in Nat /\ e \in Nat
  BY <1>2 DEF Copies, Held
<1>4. inbox[w][i].kind \in {"record", "sync"}
  BY DEF ChannelsFit, Broadcastable
<1>5. r = IF e = 0 \/ (~record /\ h > e) THEN h ELSE e
  BY <1>3, <1>4 DEF After, State!Named
<1>6. record /\ e > 0 => h <= e
  BY <1>1 DEF Latest
<1>7. e <= primary[k]
  BY <1>1 DEF Latest
<1>8. r \in {h, e} /\ r >= h /\ r >= e
  BY <1>3, <1>5, <1>6
<1> HIDE DEF r
<1>9. r <= primary[k] \/ \E o \in DOMAIN outbox[w] : r <= outbox[w][o].entries[k]
  BY <1>7, <1>8 DEF Latest
<1>10. \A o \in DOMAIN outbox[w] : outbox[w][o].entries[k] <= r
  BY <1>2, <1>3, <1>8 DEF Latest
<1>11. w \in synced => \/ primary[k] <= r
                       \/ \E j \in DOMAIN inbox[w] : i < j /\ primary[k] <= inbox[w][j].entries[k]
  <2>1. SUFFICES ASSUME w \in synced
        PROVE  \/ primary[k] <= r
               \/ \E j \in DOMAIN inbox[w] : i < j /\ primary[k] <= inbox[w][j].entries[k]
    OBVIOUS
  <2>2. CASE primary[k] <= h
    BY <1>1, <1>3, <1>8, <2>2
  <2>3. CASE \E j \in DOMAIN inbox[w] : i - 1 < j /\ primary[k] <= inbox[w][j].entries[k]
    <3>1. PICK j \in DOMAIN inbox[w] : i - 1 < j /\ primary[k] <= inbox[w][j].entries[k]
      BY <2>3
    <3>2. j = i \/ i < j
      BY <1>1, <1>2, <3>1
    <3> QED BY <1>1, <1>3, <1>8, <3>1, <3>2
  <2> QED BY <2>1, <2>2, <2>3 DEF Latest
<1>12. ASSUME NEW j \in DOMAIN inbox[w], i < j
       PROVE  /\ inbox[w][j].entries[k] <= primary[k]
              /\ inbox[w][j].kind = "record" /\ inbox[w][j].entries[k] > 0 =>
                   /\ r <= inbox[w][j].entries[k]
                   /\ \A l \in DOMAIN inbox[w] : i < l /\ l < j =>
                        inbox[w][l].entries[k] <= inbox[w][j].entries[k]
  <2>1. i - 1 < j /\ i - 1 < i
    BY <1>1, <1>2, <1>12
  <2>2. ASSUME inbox[w][j].kind = "record", inbox[w][j].entries[k] > 0
        PROVE  /\ r <= inbox[w][j].entries[k]
               /\ \A l \in DOMAIN inbox[w] : i < l /\ l < j =>
                    inbox[w][l].entries[k] <= inbox[w][j].entries[k]
    <3>1. h <= inbox[w][j].entries[k] /\ e <= inbox[w][j].entries[k]
      BY <1>12, <2>1, <2>2 DEF Latest
    <3>2. \A l \in DOMAIN inbox[w] : i < l => i - 1 < l
      BY <1>1, <1>2
    <3>3. \A l \in DOMAIN inbox[w] : i < l /\ l < j => inbox[w][l].entries[k] <= inbox[w][j].entries[k]
      BY <2>1, <2>2, <3>2 DEF Latest
    <3> QED BY <1>8, <3>1, <3>3
  <2> QED BY <2>1, <2>2 DEF Latest
<1> QED BY <1>9, <1>10, <1>11, <1>12 DEF Latest, r

\* It shows the last run that the primary knows, or one that it reported itself.
LEMMA RunsAgree ==
  ASSUME MirrorInv, topic = "sched", NEW w \in synced, NEW k \in Families
  PROVE  \/ State!Drained(w).held[k] = primary[k]
         \/ \E o \in DOMAIN outbox[w] : outbox[w][o].entries[k] = State!Drained(w).held[k]
<1>2. StateTypes /\ ChannelsFit /\ w \in State!Alive /\ w \in Workers
  BY DEF MirrorInv, StateTypes, State!Alive
<1>3. /\ StateAssumption /\ State!Copy(w) \in Copies /\ inbox[w] \in Seq(Messages)
      /\ outbox[w] \in Seq(Messages) /\ primary[k] \in Nat
  BY <1>2, ChannelTypes
<1> DEFINE n == Len(inbox[w])
<1>4. PICK g \in [0..n -> Copies] :
        /\ g[0] = State!Copy(w) /\ State!Drained(w) = g[n]
        /\ \A i \in 1..n : g[i] = State!Received(g[i - 1], inbox[w][i])
  BY <1>3, DrainedSteps
<1>5. n \in Nat /\ DOMAIN inbox[w] = 1..n /\ \A i \in 1..n : inbox[w][i] \in Messages
  BY <1>3
<1> DEFINE Due(i) == Latest(w, k, g[i].held[k], i)
           T == {i \in 0..n : Due(i)}
<1>6. ASSUME NEW i \in 1..n, Due(i - 1) PROVE Due(i)
  <2>1. /\ g[i - 1] \in Copies /\ g[i] = State!Received(g[i - 1], inbox[w][i])
        /\ inbox[w][i] \in Messages
    BY <1>4, <1>5
  <2>2. State!Valid(inbox[w][i])
    BY DEF State!Valid
  <2>3. g[i].held[k] = After(g[i - 1], inbox[w][i], k)
    BY <1>3, <2>1, <2>2, EntriesTaken
  <2>4. Latest(w, k, After(g[i - 1], inbox[w][i], k), i)
    BY <1>2, <1>5, <1>6, <2>1, LatestStays
  <2> QED BY <2>3, <2>4
<1>7. \A i \in 0..n : i \in T
  <2>1. 0 \in T
    <3>1. Latest(w, k, mirror[w][k], 0)
      BY <1>2 DEF MirrorInv, OutcomesTold, RecordsTold
    <3> QED BY <1>4, <1>5, <3>1 DEF State!Copy
  <2>2. ASSUME NEW i \in 1..n, i - 1 \in T PROVE i \in T
    BY <1>6, <2>2
  <2> HIDE DEF T
  <2> QED BY <1>5, <2>1, <2>2, UpTo
<1>8. Latest(w, k, State!Drained(w).held[k], n)
  BY <1>4, <1>5, <1>7
<1>9. State!Drained(w).held[k] \in Nat /\ \A o \in DOMAIN outbox[w] : outbox[w][o].entries[k] \in Nat
  BY <1>2, ChannelTypes, DrainedIsCopy
<1>10. primary[k] <= State!Drained(w).held[k]
  <2>1. \A j \in DOMAIN inbox[w] : ~(n < j)
    BY <1>5
  <2> QED BY <1>8, <2>1 DEF Latest
<1>11. CASE State!Drained(w).held[k] <= primary[k]
  BY <1>3, <1>9, <1>10, <1>11
<1>12. CASE \E o \in DOMAIN outbox[w] : State!Drained(w).held[k] <= outbox[w][o].entries[k]
  BY <1>8, <1>9, <1>12 DEF Latest
<1> QED BY <1>8, <1>11, <1>12 DEF Latest

\* The invariant says that the mirrors agree.
LEMMA MirrorInvAgrees == MirrorInv => State!MirrorsAgree
<1> SUFFICES ASSUME MirrorInv PROVE State!MirrorsAgree
  OBVIOUS
<1>1. ASSUME NEW w \in synced, NEW k \in Families
      PROVE LET c == State!Drained(w)
                v == c.held[k]
            IN  CASE topic = "auth"  -> primary[k] <= psNow \/ v >= primary[k] \/ k \in c.strayed
                  [] topic = "sf"    -> k \in c.strayed \/ State!Larger(v, psNow) = State!Larger(primary[k], psNow)
                  [] topic = "sched" -> \/ v = primary[k]
                                        \/ \E i \in 1..Len(outbox[w]) : outbox[w][i].entries[k] = v
  <2>1. CASE topic = "auth"
    BY <1>1, <2>1, EndedAgree DEF Keeps
  <2>2. CASE topic = "sf"
    <3> DEFINE v == State!Drained(w).held[k]
    <3>1. k \in State!Drained(w).strayed \/ Matches(w, k, v)
      BY <1>1, <2>2, BlockedAgree
    <3>2. primary[k] \in Nat /\ psNow \in Nat /\ v \in Nat
      BY <1>1, ChannelTypes, DrainedIsCopy DEF MirrorInv, StateTypes, State!Alive
    <3>3. ASSUME Matches(w, k, v) PROVE State!Larger(v, psNow) = State!Larger(primary[k], psNow)
      BY <1>1, <3>2, <3>3 DEF Matches, State!Larger
    <3> QED BY <2>2, <3>1, <3>3
  <2>3. CASE topic = "sched"
    <3>1. w \in Workers
      BY <1>1 DEF MirrorInv, StateTypes, State!Alive
    <3>2. DOMAIN outbox[w] = 1..Len(outbox[w])
      BY <3>1, ChannelTypes DEF MirrorInv
    <3> QED BY <1>1, <2>3, <3>2, RunsAgree
  <2> QED BY <2>1, <2>2, <2>3 DEF MirrorInv, StateTypes, StateAssumption
<1> QED BY <1>1 DEF State!MirrorsAgree
-----------------------------------------------------------------------------
(* PrimaryState: its messages                                              *)

LEMMA NoneIsHeld == State!None \in Held /\ \A k \in Families : State!None[k] = 0
BY DEF State!None, Held

LEMMA OnlyIsHeld ==
  ASSUME NEW k \in Families, NEW v \in Nat
  PROVE  /\ State!Only(k, v) \in Held /\ State!Only(k, v)[k] = v
         /\ \A j \in Families : j # k => State!Only(k, v)[j] = 0
BY DEF State!Only, State!None, Held

LEMMA MessageIsTyped ==
  ASSUME psNow \in Nat, NEW E \in Held, NEW k \in Families,
         NEW kind \in {"revoke", "record", "strike", "unblock", "listening", "block", "clear", "sync"}
  PROVE  LET m == State!Message(kind, E, k)
         IN  m \in Messages /\ m.kind = kind /\ m.entries = E /\ m.key = k /\ m.sent = psNow
BY DEF State!Message, Messages

LEMMA ResentIsTyped ==
  ASSUME psNow \in Nat, NEW m \in Messages
  PROVE  LET r == [m EXCEPT !.sent = psNow]
         IN  /\ r \in Messages /\ r.sent = psNow /\ r.kind = m.kind
             /\ r.entries = m.entries /\ r.key = m.key
BY DEF Messages

LEMMA Appended ==
  ASSUME NEW s \in Seq(Messages), NEW m \in Messages
  PROVE  /\ Append(s, m) \in Seq(Messages) /\ Len(s) \in Nat
         /\ DOMAIN Append(s, m) = DOMAIN s \cup {Len(s) + 1}
         /\ \A i \in DOMAIN s : i \in Nat /\ i < Len(s) + 1 /\ Append(s, m)[i] = s[i]
         /\ Append(s, m)[Len(s) + 1] = m
<1>1. DOMAIN s = 1..Len(s) /\ Len(s) \in Nat
  OBVIOUS
<1>2. DOMAIN Append(s, m) = 1..(Len(s) + 1)
  OBVIOUS
<1>3. 1..(Len(s) + 1) = (1..Len(s)) \cup {Len(s) + 1}
  BY <1>1
<1> QED BY <1>1, <1>2, <1>3

LEMMA Behead ==
  ASSUME NEW s \in Seq(Messages), s # <<>>
  PROVE  /\ 1 \in DOMAIN s /\ Head(s) = s[1] /\ Head(s) \in Messages
         /\ Tail(s) \in Seq(Messages)
         /\ \A i \in DOMAIN Tail(s) : i \in Nat /\ 0 < i /\ i + 1 \in DOMAIN s /\ Tail(s)[i] = s[i + 1]
         /\ \A i \in DOMAIN s : i \in Nat /\ (i # 1 => 1 < i /\ i - 1 \in DOMAIN Tail(s) /\ Tail(s)[i - 1] = s[i])
<1>1. Len(s) \in Nat /\ Len(s) > 0 /\ DOMAIN s = 1..Len(s)
  OBVIOUS
<1>2. Tail(s) \in Seq(Messages) /\ DOMAIN Tail(s) = 1..(Len(s) - 1)
  BY <1>1
<1>3. \A i \in 1..(Len(s) - 1) : Tail(s)[i] = s[i + 1]
  BY <1>1
<1> QED BY <1>1, <1>2, <1>3

LEMMA Cut ==
  ASSUME NEW s \in Seq(Messages), NEW n \in 0..Len(s)
  PROVE  /\ SubSeq(s, 1, n) \in Seq(Messages)
         /\ \A i \in DOMAIN SubSeq(s, 1, n) : i \in DOMAIN s /\ SubSeq(s, 1, n)[i] = s[i]
OBVIOUS

-----------------------------------------------------------------------------
(* PrimaryState: its steps keep the invariant                              *)

\* The rules of the channels depend on the topic and on the time only.
LEMMA ChannelsFitThen ==
  ASSUME UNCHANGED <<topic, psNow>>,
         \A w \in Workers : \A i \in DOMAIN outbox'[w] : Sendable(outbox'[w][i]),
         \A w \in Workers : \A i \in DOMAIN inbox'[w] :
           Broadcastable(inbox'[w][i]) /\ psNow <= inbox'[w][i].sent + MaxDelay,
         \A w \in Workers : status'[w] = "unborn" =>
           /\ mirror'[w] = State!None /\ strayed'[w] = {}
           /\ inbox'[w] = <<>> /\ outbox'[w] = <<>>
  PROVE  ChannelsFit'
<1>1. ASSUME NEW w \in Workers, NEW i \in DOMAIN outbox'[w] PROVE Sendable(outbox[w][i])'
  <2>1. Sendable(outbox'[w][i])
    BY <1>1
  <2> QED BY <2>1 DEF Sendable, NamesOne
<1>2. ASSUME NEW w \in Workers, NEW i \in DOMAIN inbox'[w]
      PROVE  Broadcastable(inbox[w][i])' /\ psNow' <= inbox'[w][i].sent + MaxDelay
  <2>1. Broadcastable(inbox'[w][i]) /\ psNow <= inbox'[w][i].sent + MaxDelay
    BY <1>2
  <2> QED BY <2>1 DEF Broadcastable, NamesOne, Ahead
<1> QED BY <1>1, <1>2 DEF ChannelsFit

\* A worker that sends a message without entries.
LEMMA QuietSends ==
  ASSUME MirrorInv, NEW w \in State!Alive,
         NEW m \in Messages, Sendable(m), m.entries = State!None, m.kind # "record",
         outbox' = [outbox EXCEPT ![w] = Append(@, m)],
         status' \in [Workers -> {"unborn", "booting", "listening", "gone"}],
         \A v \in Workers : status'[v] = "unborn" <=> status[v] = "unborn",
         (State!Alive)' = State!Alive,
         UNCHANGED <<topic, psNow, leader, mirror, primary, inbox, synced, strayed>>
  PROVE  MirrorInv'
<1>1. StateTypes /\ w \in Workers /\ \A v \in State!Alive : v \in Workers
  BY DEF MirrorInv, State!Alive
<1>2. /\ outbox[w] \in Seq(Messages) /\ outbox' \in [Workers -> Seq(Messages)]
      /\ \A v \in Workers : outbox'[v] = IF v = w THEN Append(outbox[w], m) ELSE outbox[v]
  BY <1>1, Appended DEF StateTypes
<1> DEFINE o == Len(outbox[w]) + 1
<1>3. /\ o \in Nat /\ DOMAIN outbox'[w] = DOMAIN outbox[w] \cup {o} /\ outbox'[w][o] = m
      /\ \A i \in DOMAIN outbox[w] : outbox'[w][i] = outbox[w][i] /\ i \in Nat /\ i < o
  BY <1>1, <1>2, Appended
<1> HIDE DEF o
<1>4. StateTypes'
  BY <1>1, <1>2 DEF StateTypes, StateAssumption
<1>5. ASSUME NEW v \in Workers, NEW i \in DOMAIN outbox'[v]
      PROVE  (i \in DOMAIN outbox[v] /\ outbox'[v][i] = outbox[v][i]) \/ (v = w /\ i = o /\ outbox'[v][i] = m)
  BY <1>2, <1>3
<1>6. \A v \in Workers : \A i \in DOMAIN outbox[v] : i \in DOMAIN outbox'[v] /\ outbox'[v][i] = outbox[v][i]
  BY <1>2, <1>3
<1>7. \A k \in Families : m.entries[k] = 0
  BY NoneIsHeld
<1>8. ChannelsFit'
  <2>1. \A v \in Workers : \A i \in DOMAIN outbox'[v] : Sendable(outbox'[v][i])
    BY <1>5 DEF MirrorInv, ChannelsFit
  <2>2. \A v \in Workers : \A i \in DOMAIN inbox'[v] :
          Broadcastable(inbox'[v][i]) /\ psNow <= inbox'[v][i].sent + MaxDelay
    BY DEF MirrorInv, ChannelsFit
  <2>3. \A v \in Workers : status'[v] = "unborn" =>
          mirror'[v] = State!None /\ strayed'[v] = {} /\ inbox'[v] = <<>> /\ outbox'[v] = <<>>
    BY <1>1, <1>2 DEF MirrorInv, ChannelsFit, State!Alive
  <2> QED BY <2>1, <2>2, <2>3, ChannelsFitThen
<1>9. RevocationsTold'
  <2>1. SUFFICES ASSUME topic = "auth", NEW v \in State!Alive, NEW k \in Families
        PROVE  /\ v \in synced /\ primary[k] > psNow => Told(v, k, primary[k])
               /\ \A i \in DOMAIN outbox'[v] :
                    outbox'[v][i].entries[k] > psNow => Told(v, k, outbox'[v][i].entries[k])
    BY DEF RevocationsTold, Told, Keeps, State!Copy
  <2>2. psNow \in Nat
    BY <1>1 DEF StateTypes, StateAssumption
  <2> QED BY <1>1, <1>5, <1>7, <2>1, <2>2 DEF MirrorInv, RevocationsTold
<1>10. BlocksTold'
  BY DEF MirrorInv, BlocksTold, Matches, State!Named
<1>11. ASSUME topic = "sched" PROVE OneRecorder'
  <2>1. \A v \in Workers : Recorder(v)' => Recorder(v)
    BY <1>5 DEF Recorder
  <2> QED BY <1>11, <2>1 DEF MirrorInv, OutcomesTold, OneRecorder
<1>12. ASSUME topic = "sched" PROVE RecordsRise'
  <2>1. RecordsRise /\ psNow \in Nat
    BY <1>1, <1>12 DEF MirrorInv, OutcomesTold, StateTypes, StateAssumption
  <2>2. ASSUME NEW v \in Workers, NEW k \in Families
        PROVE  /\ mirror[v][k] <= psNow
               /\ \A i \in DOMAIN outbox'[v] :
                    /\ outbox'[v][i].entries[k] <= psNow
                    /\ outbox'[v][i].entries[k] = 0 \/ primary[k] <= outbox'[v][i].entries[k]
                    /\ \A j \in DOMAIN outbox'[v] : i < j =>
                         outbox'[v][j].entries[k] = 0 \/ outbox'[v][i].entries[k] <= outbox'[v][j].entries[k]
    BY <1>3, <1>5, <1>7, <2>1 DEF RecordsRise
  <2> QED BY <2>1, <2>2 DEF RecordsRise
<1>13. ASSUME topic = "sched" PROVE RecordsTold'
  <2>1. SUFFICES ASSUME NEW v \in State!Alive, NEW k \in Families PROVE Latest(v, k, mirror[v][k], 0)'
    BY DEF RecordsTold
  <2>2. Latest(v, k, mirror[v][k], 0) /\ mirror[v][k] \in Nat
    BY <1>1, <1>13, ChannelTypes DEF MirrorInv, OutcomesTold, RecordsTold
  <2>3. \A i \in DOMAIN outbox'[v] : outbox'[v][i].entries[k] <= mirror[v][k]
    BY <1>1, <1>5, <1>7, <2>2 DEF Latest
  <2> QED BY <1>1, <1>6, <2>2, <2>3 DEF Latest
<1> QED BY <1>4, <1>8, <1>9, <1>10, <1>11, <1>12, <1>13 DEF MirrorInv, OutcomesTold
LEMMA QuietKeep ==
  ASSUME MirrorInv, NEW w \in Workers, NEW k \in Families,
         State!Strike(w, k) \/ State!Unblock(w, k) \/ State!Listen(w)
  PROVE  MirrorInv'
<1>1. StateTypes /\ psNow \in Nat
  BY DEF MirrorInv, StateTypes, StateAssumption
<1>2. CASE State!Strike(w, k)
  <2> DEFINE m == State!Message("strike", State!None, k)
  <2>1. m \in Messages /\ m.kind = "strike" /\ m.entries = State!None
    BY <1>1, NoneIsHeld, MessageIsTyped
  <2> HIDE DEF m
  <2>2. w \in State!Alive /\ Sendable(m)
    BY <1>2, <2>1 DEF State!Strike, State!Reports, State!Alive, Sendable
  <2>3. outbox' = [outbox EXCEPT ![w] = Append(@, m)]
    BY <1>2 DEF State!Strike, State!Sends, m
  <2> QED BY <1>1, <1>2, <2>1, <2>2, <2>3, QuietSends DEF State!Strike, StateTypes, State!Alive
<1>3. CASE State!Unblock(w, k)
  <2> DEFINE m == State!Message("unblock", State!None, k)
  <2>1. m \in Messages /\ m.kind = "unblock" /\ m.entries = State!None
    BY <1>1, NoneIsHeld, MessageIsTyped
  <2> HIDE DEF m
  <2>2. w \in State!Alive /\ Sendable(m)
    BY <1>3, <2>1 DEF State!Unblock, State!Reports, State!Alive, Sendable
  <2>3. outbox' = [outbox EXCEPT ![w] = Append(@, m)]
    BY <1>3 DEF State!Unblock, State!Sends, m
  <2> QED BY <1>1, <1>3, <2>1, <2>2, <2>3, QuietSends DEF State!Unblock, StateTypes, State!Alive
<1>4. CASE State!Listen(w)
  <2> DEFINE m == State!Message("listening", State!None, CHOOSE j \in Families : TRUE)
  <2>1. m \in Messages /\ m.kind = "listening" /\ m.entries = State!None
    BY <1>1, NoneIsHeld, MessageIsTyped
  <2> HIDE DEF m
  <2>2. w \in State!Alive /\ Sendable(m)
    BY <1>4, <2>1 DEF State!Listen, State!Alive, Sendable
  <2>3. outbox' = [outbox EXCEPT ![w] = Append(@, m)]
    BY <1>4 DEF State!Listen, State!Sends, m
  <2>4. /\ status' = [status EXCEPT ![w] = "listening"] /\ status[w] = "booting"
        /\ status \in [Workers -> {"unborn", "booting", "listening", "gone"}]
    BY <1>1, <1>4 DEF State!Listen, StateTypes
  <2>5. /\ status' \in [Workers -> {"unborn", "booting", "listening", "gone"}]
        /\ \A v \in Workers : status'[v] = "unborn" <=> status[v] = "unborn"
        /\ (State!Alive)' = State!Alive
    BY <2>4 DEF State!Alive
  <2> QED BY <1>4, <2>1, <2>2, <2>3, <2>5, QuietSends DEF State!Listen
<1> QED BY <1>2, <1>3, <1>4

\* Time passes: what had run out stays so, and nothing is under way for too long.
LEMMA TickKeeps ==
  ASSUME MirrorInv, State!Tick
  PROVE  MirrorInv'
<1>1. /\ StateTypes /\ psNow \in Nat /\ psNow' = psNow + 1 /\ MaxDelay \in Nat
      /\ UNCHANGED <<topic, status, leader, mirror, primary, outbox, inbox, synced, strayed>>
      /\ (State!Alive)' = State!Alive
  BY MirrorsAssumption DEF MirrorInv, StateTypes, StateAssumption, State!Tick, State!Alive
<1>2. StateTypes'
  BY <1>1 DEF StateTypes, StateAssumption
<1>3. ChannelsFit'
  <2>1. ASSUME NEW w \in Workers, NEW i \in DOMAIN inbox[w]
        PROVE  psNow + 1 <= inbox[w][i].sent + MaxDelay
    <3>1. inbox[w] \in Seq(Messages)
      BY <1>1, ChannelTypes
    <3>2. i \in 1..Len(inbox[w]) /\ inbox[w][i] \in Messages
      BY <3>1
    <3>3. psNow < inbox[w][i].sent + MaxDelay
      BY <3>2 DEF State!Tick
    <3>4. inbox[w][i].sent \in Nat
      BY <3>2 DEF Messages
    <3> QED BY <1>1, <3>3, <3>4
  <2> QED BY <1>1, <2>1 DEF MirrorInv, ChannelsFit, Sendable, NamesOne, Broadcastable, Ahead
<1>4. RevocationsTold'
  <2>1. SUFFICES ASSUME topic = "auth", NEW v \in State!Alive, NEW k \in Families
        PROVE  /\ v \in synced /\ primary[k] > psNow + 1 => Told(v, k, primary[k])
               /\ \A i \in DOMAIN outbox[v] :
                    outbox[v][i].entries[k] > psNow + 1 => Told(v, k, outbox[v][i].entries[k])
    BY <1>1 DEF RevocationsTold, Told, Keeps, State!Copy
  <2>2. v \in Workers
    BY DEF State!Alive
  <2>3. primary[k] \in Nat /\ \A i \in DOMAIN outbox[v] : outbox[v][i].entries[k] \in Nat
    BY <1>1, <2>2, ChannelTypes
  <2> QED BY <1>1, <2>1, <2>3 DEF MirrorInv, RevocationsTold
<1>5. BlocksTold'
  <2>1. SUFFICES ASSUME topic = "sf", NEW v \in State!Alive, NEW k \in Families
        PROVE  /\ \A i \in DOMAIN inbox[v] :
                    /\ k \in State!Named(inbox[v][i])
                    /\ \A j \in DOMAIN inbox[v] : j > i => k \notin State!Named(inbox[v][j])
                    => Matches(v, k, inbox[v][i].entries[k])'
               /\ (\A i \in DOMAIN inbox[v] : k \notin State!Named(inbox[v][i])) =>
                    k \in strayed[v] \/ Matches(v, k, mirror[v][k])'
    BY <1>1 DEF BlocksTold, Matches, State!Named
  <2>2. v \in Workers
    BY DEF State!Alive
  <2>3. /\ primary[k] \in Nat /\ mirror[v][k] \in Nat
        /\ \A i \in DOMAIN inbox[v] : inbox[v][i].entries[k] \in Nat
    BY <1>1, <2>2, ChannelTypes
  <2>4. \A x \in Nat : Matches(v, k, x) => x = primary[k] \/ (x <= psNow + 1 /\ (primary[k] <= psNow + 1 \/ v \notin synced))
    BY <1>1, <2>3 DEF Matches
  <2>5. /\ \A i \in DOMAIN inbox[v] : Matches(v, k, inbox[v][i].entries[k]) => Matches(v, k, inbox[v][i].entries[k])'
        /\ Matches(v, k, mirror[v][k]) => Matches(v, k, mirror[v][k])'
    BY <1>1, <2>3, <2>4 DEF Matches
  <2> QED BY <2>1, <2>5 DEF MirrorInv, BlocksTold
<1>6. ASSUME topic = "sched" PROVE OutcomesTold'
  <2>1. OneRecorder'
    BY <1>1, <1>6 DEF MirrorInv, OutcomesTold, OneRecorder, Recorder
  <2>2. RecordsRise'
    <3>1. ASSUME NEW w \in Workers, NEW k \in Families
          PROVE  /\ primary[k] <= psNow + 1 /\ mirror[w][k] <= psNow + 1
                 /\ \A i \in DOMAIN outbox[w] : outbox[w][i].entries[k] <= psNow + 1
      <4>1. /\ primary[k] \in Nat /\ mirror[w][k] \in Nat
            /\ \A i \in DOMAIN outbox[w] : outbox[w][i].entries[k] \in Nat
        BY <1>1, ChannelTypes
      <4> QED BY <1>1, <1>6, <4>1 DEF MirrorInv, OutcomesTold, RecordsRise
    <3>2. \A k \in Families : primary[k] <= psNow + 1
      BY <1>1, <1>6 DEF MirrorInv, OutcomesTold, RecordsRise, StateTypes, Held
    <3> QED BY <1>1, <1>6, <3>1, <3>2 DEF MirrorInv, OutcomesTold, RecordsRise
  <2>3. RecordsTold'
    BY <1>1, <1>6 DEF MirrorInv, OutcomesTold, RecordsTold, Latest
  <2> QED BY <2>1, <2>2, <2>3 DEF OutcomesTold
<1> QED BY <1>1, <1>2, <1>3, <1>4, <1>5, <1>6 DEF MirrorInv, OutcomesTold

\* A worker forgets a revocation that ran out.
LEMMA IsRevokedKeeps ==
  ASSUME MirrorInv, NEW w \in Workers, NEW k \in Families, State!IsRevoked(w, k)
  PROVE  MirrorInv'
<1>1. /\ StateTypes /\ psNow \in Nat /\ topic = "auth"
      /\ UNCHANGED <<topic, psNow, status, leader, primary, outbox, inbox, synced, strayed>>
      /\ (State!Alive)' = State!Alive
      /\ status[w] = "listening" /\ mirror[w][k] <= psNow
      /\ mirror' = [mirror EXCEPT ![w][k] = 0]
  BY DEF MirrorInv, StateTypes, StateAssumption, State!IsRevoked, State!Alive
<1>2. /\ mirror' \in [Workers -> Held]
      /\ \A v \in Workers : \A j \in Families :
           mirror'[v][j] = IF v = w /\ j = k THEN 0 ELSE mirror[v][j]
      /\ \A v \in Workers : v # w => mirror'[v] = mirror[v]
  BY <1>1 DEF StateTypes, Held
<1>3. StateTypes'
  BY <1>1, <1>2 DEF StateTypes, StateAssumption
<1>4. ChannelsFit'
  <2>1. \A v \in Workers : \A i \in DOMAIN outbox'[v] : Sendable(outbox'[v][i])
    BY <1>1 DEF MirrorInv, ChannelsFit
  <2>2. \A v \in Workers : \A i \in DOMAIN inbox'[v] :
          Broadcastable(inbox'[v][i]) /\ psNow <= inbox'[v][i].sent + MaxDelay
    BY <1>1 DEF MirrorInv, ChannelsFit
  <2>3. \A v \in Workers : status'[v] = "unborn" =>
          mirror'[v] = State!None /\ strayed'[v] = {} /\ inbox'[v] = <<>> /\ outbox'[v] = <<>>
    BY <1>1, <1>2 DEF MirrorInv, ChannelsFit
  <2> QED BY <1>1, <2>1, <2>2, <2>3, ChannelsFitThen
<1>5. RevocationsTold'
  <2>1. SUFFICES ASSUME NEW v \in State!Alive, NEW j \in Families
        PROVE  /\ v \in synced /\ primary[j] > psNow => Told(v, j, primary[j])'
               /\ \A i \in DOMAIN outbox[v] :
                    outbox[v][i].entries[j] > psNow => Told(v, j, outbox[v][i].entries[j])'
    BY <1>1 DEF RevocationsTold, Told, Keeps, State!Copy
  <2>2. v \in Workers
    BY DEF State!Alive
  <2>3. primary[j] \in Nat /\ \A i \in DOMAIN outbox[v] : outbox[v][i].entries[j] \in Nat
    BY <1>1, <2>2, ChannelTypes
  <2>4. ASSUME NEW x \in Nat, x > psNow, Told(v, j, x)
        PROVE  \/ mirror'[v][j] >= x \/ j \in strayed[v]
               \/ \E i \in DOMAIN inbox[v] : inbox[v][i].entries[j] >= x
    <3>1. mirror[w][k] \in Nat
      BY <1>1, ChannelTypes
    <3> QED BY <1>1, <1>2, <2>2, <2>4, <3>1 DEF Told, Keeps, State!Copy
  <2> QED BY <1>1, <2>1, <2>3, <2>4 DEF MirrorInv, RevocationsTold, Told, Keeps, State!Copy
<1> QED BY <1>1, <1>3, <1>4, <1>5 DEF MirrorInv, BlocksTold, OutcomesTold

\* A worker lifts a block on its own.
LEMMA UnblockDegradedKeeps ==
  ASSUME MirrorInv, NEW w \in Workers, NEW k \in Families, State!UnblockDegraded(w, k)
  PROVE  MirrorInv'
<1>1. /\ StateTypes /\ topic = "sf"
      /\ UNCHANGED <<topic, psNow, status, leader, primary, outbox, inbox, synced>>
      /\ (State!Alive)' = State!Alive
      /\ status[w] = "listening"
      /\ mirror' = [mirror EXCEPT ![w][k] = 0]
      /\ strayed' = [strayed EXCEPT ![w] = @ \cup {k}]
  BY DEF MirrorInv, StateTypes, State!UnblockDegraded, State!Reports, State!Alive
<1>2. /\ mirror' \in [Workers -> Held] /\ strayed' \in [Workers -> SUBSET Families]
      /\ \A v \in Workers, j \in Families : j \in strayed'[v] <=> j \in strayed[v] \/ (v = w /\ j = k)
      /\ \A v \in Workers : \A j \in Families :
           mirror'[v][j] = IF v = w /\ j = k THEN 0 ELSE mirror[v][j]
      /\ \A v \in Workers : v # w => mirror'[v] = mirror[v] /\ strayed'[v] = strayed[v]
  BY <1>1 DEF StateTypes, Held
<1>3. StateTypes'
  BY <1>1, <1>2 DEF StateTypes, StateAssumption
<1>4. ChannelsFit'
  <2>1. \A v \in Workers : \A i \in DOMAIN outbox'[v] : Sendable(outbox'[v][i])
    BY <1>1 DEF MirrorInv, ChannelsFit
  <2>2. \A v \in Workers : \A i \in DOMAIN inbox'[v] :
          Broadcastable(inbox'[v][i]) /\ psNow <= inbox'[v][i].sent + MaxDelay
    BY <1>1 DEF MirrorInv, ChannelsFit
  <2>3. \A v \in Workers : status'[v] = "unborn" =>
          mirror'[v] = State!None /\ strayed'[v] = {} /\ inbox'[v] = <<>> /\ outbox'[v] = <<>>
    BY <1>1, <1>2 DEF MirrorInv, ChannelsFit
  <2> QED BY <1>1, <2>1, <2>2, <2>3, ChannelsFitThen
<1>5. BlocksTold'
  <2>1. ASSUME NEW v \in State!Alive, NEW j \in Families, j \in strayed[v] \/ Matches(v, j, mirror[v][j])
        PROVE  j \in strayed'[v] \/ Matches(v, j, mirror'[v][j])
    BY <1>2, <2>1 DEF State!Alive
  <2> QED BY <1>1, <2>1 DEF MirrorInv, BlocksTold, Matches, State!Named
<1> QED BY <1>1, <1>3, <1>4, <1>5 DEF MirrorInv, RevocationsTold, OutcomesTold
\* A worker that is forked knows nothing and has been told nothing.
LEMMA ForkKeeps ==
  ASSUME MirrorInv, NEW w \in Workers, State!Fork(w)
  PROVE  MirrorInv'
<1>1. /\ StateTypes /\ psNow \in Nat /\ status[w] = "unborn"
      /\ UNCHANGED <<topic, psNow, mirror, primary, outbox, inbox, synced, strayed>>
      /\ status' = [status EXCEPT ![w] = "booting"]
      /\ leader' = IF leader = 0 THEN w ELSE leader
      /\ \A v \in Workers : status[v] = "gone" => outbox[v] = <<>>
  BY DEF MirrorInv, StateTypes, StateAssumption, State!Fork
<1>2. /\ status' \in [Workers -> {"unborn", "booting", "listening", "gone"}]
      /\ \A v \in Workers : status'[v] = IF v = w THEN "booting" ELSE status[v]
  BY <1>1 DEF StateTypes
<1>3. /\ (State!Alive)' = State!Alive \cup {w} /\ w \notin State!Alive /\ w \notin synced
      /\ \A v \in State!Alive : v \in Workers
  BY <1>1, <1>2 DEF State!Alive, StateTypes
<1>4. StateTypes'
  BY <1>1, <1>2, <1>3 DEF StateTypes, StateAssumption
<1>5. /\ mirror[w] = State!None /\ strayed[w] = {} /\ inbox[w] = <<>> /\ outbox[w] = <<>>
      /\ \A k \in Families : mirror[w][k] = 0
  BY <1>1, NoneIsHeld DEF MirrorInv, ChannelsFit
<1>6. ChannelsFit'
  BY <1>1, <1>2 DEF MirrorInv, ChannelsFit, Sendable, NamesOne, Broadcastable, Ahead
<1>7. RevocationsTold'
  <2>1. SUFFICES ASSUME topic = "auth", NEW v \in State!Alive \cup {w}, NEW k \in Families
        PROVE  /\ v \in synced /\ primary[k] > psNow => Told(v, k, primary[k])
               /\ \A i \in DOMAIN outbox[v] :
                    outbox[v][i].entries[k] > psNow => Told(v, k, outbox[v][i].entries[k])
    BY <1>1, <1>3 DEF RevocationsTold, Told, Keeps, State!Copy
  <2>2. CASE v = w
    BY <1>3, <1>5, <2>2
  <2>3. CASE v \in State!Alive
    BY <2>1, <2>3 DEF MirrorInv, RevocationsTold
  <2> QED BY <2>2, <2>3
<1>8. BlocksTold'
  <2>1. SUFFICES ASSUME topic = "sf", NEW v \in State!Alive \cup {w}, NEW k \in Families
        PROVE  /\ \A i \in DOMAIN inbox[v] :
                    /\ k \in State!Named(inbox[v][i])
                    /\ \A j \in DOMAIN inbox[v] : j > i => k \notin State!Named(inbox[v][j])
                    => Matches(v, k, inbox[v][i].entries[k])
               /\ (\A i \in DOMAIN inbox[v] : k \notin State!Named(inbox[v][i])) =>
                    k \in strayed[v] \/ Matches(v, k, mirror[v][k])
    BY <1>1, <1>3 DEF BlocksTold, Matches, State!Named
  <2>2. CASE v = w
    BY <1>1, <1>3, <1>5, <2>2 DEF Matches
  <2>3. CASE v \in State!Alive
    BY <2>1, <2>3 DEF MirrorInv, BlocksTold
  <2> QED BY <2>2, <2>3
<1>9. ASSUME topic = "sched" PROVE OneRecorder'
  <2>1. OneRecorder
    BY <1>9 DEF MirrorInv, OutcomesTold
  <2>2. \A v \in Workers : Recorder(v)' <=> Recorder(v)
    BY <1>1 DEF Recorder
  <2>3. \A v \in Workers : Recorder(v) => v # w /\ leader' = IF v \in State!Alive \cup {w} THEN v ELSE 0
    <3>1. SUFFICES ASSUME NEW v \in Workers, Recorder(v)
          PROVE  v # w /\ leader' = IF v \in State!Alive \cup {w} THEN v ELSE 0
      OBVIOUS
    <3>2. outbox[v] # <<>>
      BY <3>1 DEF Recorder
    <3>3. v # w /\ v \in State!Alive
      <4>1. status[v] # "gone" /\ status[v] # "unborn"
        BY <1>1, <3>2 DEF MirrorInv, ChannelsFit
      <4> QED BY <1>1, <1>5, <3>2, <4>1 DEF State!Alive, StateTypes
    <3>4. leader = v
      BY <2>1, <3>1, <3>3 DEF OneRecorder
    <3> QED BY <1>1, <3>3, <3>4, MirrorsAssumption
  <2>4. \A v \in Workers : leader' = v => v = w \/ leader = v
    BY <1>1
  <2> QED BY <1>1, <1>3, <1>5, <2>1, <2>2, <2>3, <2>4 DEF OneRecorder
<1>10. ASSUME topic = "sched" PROVE RecordsRise' /\ RecordsTold'
  <2>1. RecordsRise'
    BY <1>1, <1>10 DEF MirrorInv, OutcomesTold, RecordsRise
  <2>2. ASSUME NEW k \in Families PROVE Latest(w, k, mirror[w][k], 0)
    <3>1. primary[k] \in Nat
      BY <1>1, ChannelTypes
    <3> QED BY <1>3, <1>5, <3>1 DEF Latest
  <2>3. \A v \in State!Alive \cup {w}, k \in Families : Latest(v, k, mirror[v][k], 0)
    BY <1>10, <2>2 DEF MirrorInv, OutcomesTold, RecordsTold
  <2>4. RecordsTold'
    BY <1>1, <1>3, <2>3 DEF RecordsTold, Latest
  <2> QED BY <2>1, <2>4
<1> QED BY <1>1, <1>4, <1>6, <1>7, <1>8, <1>9, <1>10 DEF MirrorInv, OutcomesTold

\* A worker that exits is told no more, and sends no more than it did.
LEMMA ExitKeeps ==
  ASSUME MirrorInv, NEW w \in Workers, State!Exit(w)
  PROVE  MirrorInv'
<1>1. PICK n \in 0..Len(outbox[w]) : outbox' = [outbox EXCEPT ![w] = SubSeq(@, 1, n)]
  BY DEF State!Exit
<1>2. /\ StateTypes /\ psNow \in Nat /\ w \in State!Alive
      /\ UNCHANGED <<topic, psNow, mirror, primary, strayed>>
      /\ status' = [status EXCEPT ![w] = "gone"]
      /\ leader' = IF leader = w THEN 0 ELSE leader
      /\ inbox' = [inbox EXCEPT ![w] = <<>>]
      /\ synced' = synced \ {w}
  BY DEF MirrorInv, StateTypes, StateAssumption, State!Exit
<1>3. /\ status' \in [Workers -> {"unborn", "booting", "listening", "gone"}]
      /\ \A v \in Workers : status'[v] = IF v = w THEN "gone" ELSE status[v]
  BY <1>2 DEF StateTypes
<1>4. (State!Alive)' = State!Alive \ {w} /\ \A v \in State!Alive : v \in Workers
  BY <1>3 DEF State!Alive
<1>5. /\ outbox' \in [Workers -> Seq(Messages)] /\ inbox' \in [Workers -> Seq(Messages)]
      /\ \A v \in Workers : v # w => outbox'[v] = outbox[v] /\ inbox'[v] = inbox[v]
      /\ outbox'[w] = SubSeq(outbox[w], 1, n) /\ inbox'[w] = <<>>
  <2>1. outbox[w] \in Seq(Messages) /\ SubSeq(outbox[w], 1, n) \in Seq(Messages)
    BY <1>2, Cut, ChannelTypes
  <2> QED BY <1>1, <1>2, <2>1 DEF StateTypes
<1>6. \A v \in Workers : \A i \in DOMAIN outbox'[v] : i \in DOMAIN outbox[v] /\ outbox'[v][i] = outbox[v][i]
  BY <1>2, <1>5, Cut, ChannelTypes
<1>7. StateTypes'
  BY <1>2, <1>3, <1>4, <1>5 DEF StateTypes, StateAssumption
<1>8. ChannelsFit'
  <2>1. \A v \in Workers : \A i \in DOMAIN outbox'[v] : Sendable(outbox'[v][i])
    BY <1>6 DEF MirrorInv, ChannelsFit
  <2>2. ASSUME NEW v \in Workers, NEW i \in DOMAIN inbox'[v]
        PROVE  Broadcastable(inbox'[v][i]) /\ psNow <= inbox'[v][i].sent + MaxDelay
    <3>1. v # w
      BY <1>5, <2>2
    <3> QED BY <1>5, <2>2, <3>1 DEF MirrorInv, ChannelsFit
  <2>3. \A v \in Workers : status'[v] = "unborn" =>
          mirror[v] = State!None /\ strayed[v] = {} /\ inbox'[v] = <<>> /\ outbox'[v] = <<>>
    BY <1>3, <1>5 DEF MirrorInv, ChannelsFit
  <2> QED BY <1>2, <2>1, <2>2, <2>3, ChannelsFitThen
<1>9. RevocationsTold'
  <2>1. SUFFICES ASSUME topic' = "auth", NEW v \in (State!Alive)', NEW k \in Families
        PROVE  /\ v \in synced' /\ primary'[k] > psNow' => Told(v, k, primary[k])'
               /\ \A i \in DOMAIN outbox'[v] :
                    outbox'[v][i].entries[k] > psNow' => Told(v, k, outbox[v][i].entries[k])'
    BY DEF RevocationsTold
  <2>2. /\ v \in State!Alive /\ (v \in synced' => v \in synced) /\ outbox'[v] = outbox[v]
        /\ inbox'[v] = inbox[v] /\ mirror'[v] = mirror[v] /\ strayed'[v] = strayed[v]
    BY <1>2, <1>4, <1>5, <2>1
  <2>3. /\ v \in synced /\ primary[k] > psNow => Told(v, k, primary[k])
        /\ \A i \in DOMAIN outbox[v] :
             outbox[v][i].entries[k] > psNow => Told(v, k, outbox[v][i].entries[k])
    BY <1>2, <2>1, <2>2 DEF MirrorInv, RevocationsTold
  <2>4. Told(v, k, primary[k]) => Told(v, k, primary[k])'
    BY <1>2, <2>2 DEF Told, Keeps, State!Copy
  <2>5. \A i \in DOMAIN outbox[v] :
          Told(v, k, outbox[v][i].entries[k]) => Told(v, k, outbox[v][i].entries[k])'
    BY <2>2 DEF Told, Keeps, State!Copy
  <2> QED BY <1>2, <2>2, <2>3, <2>4, <2>5
<1>10. BlocksTold'
  BY <1>2, <1>4, <1>5 DEF MirrorInv, BlocksTold, Matches, State!Named
<1>11. ASSUME topic = "sched" PROVE OneRecorder'
  <2>1. OneRecorder
    BY <1>11 DEF MirrorInv, OutcomesTold
  <2>2. \A v \in Workers : Recorder(v)' => Recorder(v)
    BY <1>6 DEF Recorder
  <2>3. w \in Nat \ {0} /\ Workers \subseteq Nat \ {0}
    BY MirrorsAssumption
  <2>4. \A v \in Workers : Recorder(v) => leader' = IF v \in State!Alive \ {w} THEN v ELSE 0
    BY <1>2, <2>1, <2>3 DEF OneRecorder
  <2>5. \A v \in Workers : leader' = v => v # w /\ leader = v
    BY <1>2, <2>3
  <2>6. ASSUME NEW v \in Workers, leader' = v, NEW i \in DOMAIN inbox'[v] PROVE inbox'[v][i].kind # "record"
    <3>1. v # w /\ leader = v
      BY <2>5, <2>6
    <3>2. inbox'[v] = inbox[v]
      BY <1>5, <3>1
    <3> QED BY <2>1, <2>6, <3>1, <3>2 DEF OneRecorder
  <2>7. \A v \in Workers : Recorder(v)' => leader' = IF v \in (State!Alive)' THEN v ELSE 0
    BY <1>4, <2>2, <2>4
  <2>8. \A v, u \in Workers : Recorder(v)' /\ Recorder(u)' => v = u
    BY <2>1, <2>2 DEF OneRecorder
  <2> QED BY <2>6, <2>7, <2>8 DEF OneRecorder
<1>12. ASSUME topic = "sched" PROVE RecordsRise'
  BY <1>2, <1>6, <1>12 DEF MirrorInv, OutcomesTold, RecordsRise
<1>13. ASSUME topic = "sched" PROVE RecordsTold'
  <2>1. \A v \in State!Alive \ {w}, k \in Families : Latest(v, k, mirror[v][k], 0)
    BY <1>13 DEF MirrorInv, OutcomesTold, RecordsTold
  <2>2. ASSUME NEW v \in State!Alive \ {w}, NEW k \in Families PROVE Latest(v, k, mirror[v][k], 0)'
    <3>1. Latest(v, k, mirror[v][k], 0) /\ v \in Workers /\ (v \in synced' <=> v \in synced)
      BY <1>2, <1>4, <2>1
    <3> QED BY <1>2, <1>5, <3>1 DEF Latest
  <2> QED BY <1>2, <1>4, <2>2 DEF RecordsTold
<1> QED BY <1>2, <1>7, <1>8, <1>9, <1>10, <1>11, <1>12, <1>13 DEF MirrorInv, OutcomesTold
LEMMA RevokedIsCopy ==
  ASSUME psNow \in Nat, NEW c \in Copies, NEW k \in Families, NEW v \in Nat
  PROVE  State!Revoked(c, k, v) \in Copies
BY DEF State!Revoked, State!Larger, Copies, Held

\* A worker that ends a family knows of it at once.
LEMMA RevokeKeeps ==
  ASSUME MirrorInv, NEW w \in Workers, NEW k \in Families, State!Revoke(w, k)
  PROVE  MirrorInv'
<1> DEFINE x == psNow + Lifetime
           m == State!Message("revoke", State!Only(k, x), k)
           c == State!Copy(w)
           r == State!Revoked(c, k, x)
<1>1. /\ StateTypes /\ psNow \in Nat /\ topic = "auth" /\ status[w] = "listening" /\ x \in Nat
      /\ UNCHANGED <<topic, psNow, status, leader, primary, inbox, synced>>
      /\ (State!Alive)' = State!Alive
      /\ mirror' = [mirror EXCEPT ![w] = r.held] /\ strayed' = [strayed EXCEPT ![w] = r.strayed]
      /\ outbox' = [outbox EXCEPT ![w] = Append(@, m)]
  BY MirrorsAssumption
  DEF MirrorInv, StateTypes, StateAssumption, State!Revoke, State!Reports, State!Alive, State!Knows, State!Sends
<1>2. c \in Copies /\ outbox[w] \in Seq(Messages) /\ r \in Copies
  BY <1>1, RevokedIsCopy, ChannelTypes
<1>3. /\ m \in Messages /\ m.kind = "revoke" /\ m.key = k /\ m.entries[k] = x
      /\ \A j \in Families : j # k => m.entries[j] = 0
  BY <1>1, OnlyIsHeld, MessageIsTyped
<1> HIDE DEF m, r, x
<1> DEFINE o == Len(outbox[w]) + 1
<1>4. /\ outbox' \in [Workers -> Seq(Messages)]
      /\ \A v \in Workers : v # w => outbox'[v] = outbox[v]
      /\ \A v \in Workers : \A i \in DOMAIN outbox'[v] :
           (i \in DOMAIN outbox[v] /\ outbox'[v][i] = outbox[v][i]) \/ (v = w /\ outbox'[v][i] = m)
  <2>1. outbox'[w] = Append(outbox[w], m) /\ \A v \in Workers : v # w => outbox'[v] = outbox[v]
    BY <1>1 DEF StateTypes
  <2>2. outbox'[w] \in Seq(Messages) /\ DOMAIN outbox'[w] = DOMAIN outbox[w] \cup {o}
        /\ outbox'[w][o] = m /\ \A i \in DOMAIN outbox[w] : outbox'[w][i] = outbox[w][i]
    BY <1>2, <1>3, <2>1, Appended
  <2>3. outbox' \in [Workers -> Seq(Messages)]
    BY <1>1, <2>1, <2>2 DEF StateTypes
  <2> HIDE DEF o
  <2> QED BY <2>1, <2>2, <2>3
<1>5. /\ mirror' \in [Workers -> Held] /\ strayed' \in [Workers -> SUBSET Families]
      /\ mirror'[w] = r.held /\ strayed'[w] = r.strayed
      /\ \A v \in Workers : v # w => mirror'[v] = mirror[v] /\ strayed'[v] = strayed[v]
  BY <1>1, <1>2 DEF StateTypes, Copies
<1>6. StateTypes'
  BY <1>1, <1>4, <1>5 DEF StateTypes, StateAssumption
<1>7. ChannelsFit'
  <2>1. Sendable(m)
    BY <1>1, <1>3 DEF Sendable, NamesOne
  <2>2. \A v \in Workers : \A i \in DOMAIN outbox'[v] : Sendable(outbox'[v][i])
    BY <1>4, <2>1 DEF MirrorInv, ChannelsFit
  <2>3. \A v \in Workers : \A i \in DOMAIN inbox'[v] :
          Broadcastable(inbox'[v][i]) /\ psNow <= inbox'[v][i].sent + MaxDelay
    BY <1>1 DEF MirrorInv, ChannelsFit
  <2>4. \A v \in Workers : status'[v] = "unborn" =>
          mirror'[v] = State!None /\ strayed'[v] = {} /\ inbox'[v] = <<>> /\ outbox'[v] = <<>>
    BY <1>1, <1>4, <1>5 DEF MirrorInv, ChannelsFit
  <2> QED BY <1>1, <2>2, <2>3, <2>4, ChannelsFitThen
<1> DEFINE Known(v, j, y) == \/ mirror'[v][j] >= y \/ j \in strayed'[v]
                             \/ \E i \in DOMAIN inbox[v] : inbox[v][i].entries[j] >= y
<1>8. ASSUME NEW v \in Workers, NEW j \in Families, NEW y \in Nat, y > psNow, Told(v, j, y)
      PROVE  Known(v, j, y)
  <2>1. CASE v = w
    <3>1. Keeps(c, j, y) => Keeps(r, j, y)
      BY <1>1, <1>2, <1>8, RevokedKeeps DEF r
    <3>2. Keeps(r, j, y) => mirror'[w][j] >= y \/ j \in strayed'[w]
      BY <1>5 DEF Keeps
    <3> QED BY <1>8, <2>1, <3>1, <3>2 DEF Told
  <2>2. CASE v # w
    BY <1>5, <1>8, <2>2 DEF Told, Keeps, State!Copy
  <2> QED BY <2>1, <2>2
<1>9. x > psNow => Known(w, k, x)
  <2>1. x > psNow => Keeps(r, k, x)
    BY <1>1, <1>2, RevokedKeeps DEF r
  <2> QED BY <1>5, <2>1 DEF Keeps
<1>10. RevocationsTold'
  <2>1. ASSUME NEW v \in State!Alive, NEW j \in Families
        PROVE  /\ v \in synced /\ primary[j] > psNow => Known(v, j, primary[j])
               /\ \A i \in DOMAIN outbox'[v] :
                    outbox'[v][i].entries[j] > psNow => Known(v, j, outbox'[v][i].entries[j])
    <3>1. v \in Workers
      BY DEF State!Alive
    <3>2. primary[j] \in Nat /\ \A i \in DOMAIN outbox[v] : outbox[v][i].entries[j] \in Nat
      BY <1>1, <3>1, ChannelTypes
    <3>3. v \in synced /\ primary[j] > psNow => Known(v, j, primary[j])
      BY <1>1, <1>8, <3>1, <3>2 DEF MirrorInv, RevocationsTold
    <3>4. ASSUME NEW i \in DOMAIN outbox'[v], outbox'[v][i].entries[j] > psNow
          PROVE  Known(v, j, outbox'[v][i].entries[j])
      <4>1. CASE i \in DOMAIN outbox[v] /\ outbox'[v][i] = outbox[v][i]
        <5>1. Told(v, j, outbox[v][i].entries[j])
          BY <1>1, <3>4, <4>1 DEF MirrorInv, RevocationsTold
        <5>2. Known(v, j, outbox[v][i].entries[j])
          BY <1>8, <3>1, <3>2, <3>4, <4>1, <5>1
        <5> QED BY <4>1, <5>2
      <4>2. CASE v = w /\ outbox'[v][i] = m
        <5>1. j = k
          BY <1>1, <1>3, <3>4, <4>2
        <5> QED BY <1>3, <1>9, <3>4, <4>2, <5>1
      <4> QED BY <1>4, <3>1, <4>1, <4>2
    <3> QED BY <3>3, <3>4
  <2> QED BY <1>1, <2>1 DEF RevocationsTold, Told, Keeps, State!Copy
<1> QED BY <1>1, <1>6, <1>7, <1>10 DEF MirrorInv, BlocksTold, OutcomesTold
\* The leader reports an outcome that it holds at once.
LEMMA RecordKeeps ==
  ASSUME MirrorInv, NEW w \in Workers, NEW k \in Families, State!Record(w, k)
  PROVE  MirrorInv'
<1> DEFINE m == State!Message("record", State!Only(k, psNow), k)
           o == Len(outbox[w]) + 1
<1>1. /\ StateTypes /\ psNow \in Nat /\ psNow > 0 /\ topic = "sched" /\ status[w] = "listening"
      /\ w = leader
      /\ UNCHANGED <<topic, psNow, status, leader, primary, inbox, synced, strayed>>
      /\ (State!Alive)' = State!Alive /\ w \in State!Alive
      /\ mirror' = [mirror EXCEPT ![w][k] = psNow]
      /\ outbox' = [outbox EXCEPT ![w] = Append(@, m)]
  BY DEF MirrorInv, StateTypes, StateAssumption, State!Record, State!Reports, State!Alive, State!Sends
<1>2. outbox[w] \in Seq(Messages) /\ \A v \in State!Alive : v \in Workers
  BY <1>1, ChannelTypes DEF State!Alive
<1>3. /\ m \in Messages /\ m.kind = "record" /\ m.key = k /\ m.entries[k] = psNow
      /\ \A j \in Families : j # k => m.entries[j] = 0
  BY <1>1, OnlyIsHeld, MessageIsTyped
<1> HIDE DEF m
<1>4. /\ outbox' \in [Workers -> Seq(Messages)] /\ o \in Nat
      /\ \A v \in Workers : v # w => outbox'[v] = outbox[v]
      /\ DOMAIN outbox'[w] = DOMAIN outbox[w] \cup {o} /\ outbox'[w][o] = m
      /\ \A i \in DOMAIN outbox[w] : outbox'[w][i] = outbox[w][i] /\ i \in Nat /\ i < o
  <2>1. outbox'[w] = Append(outbox[w], m) /\ \A v \in Workers : v # w => outbox'[v] = outbox[v]
    BY <1>1 DEF StateTypes
  <2>2. /\ outbox'[w] \in Seq(Messages) /\ DOMAIN outbox'[w] = DOMAIN outbox[w] \cup {o}
        /\ outbox'[w][o] = m /\ o \in Nat
        /\ \A i \in DOMAIN outbox[w] : outbox'[w][i] = outbox[w][i] /\ i \in Nat /\ i < o
    BY <1>2, <1>3, <2>1, Appended
  <2>3. outbox' \in [Workers -> Seq(Messages)]
    BY <1>1, <2>1, <2>2 DEF StateTypes
  <2> HIDE DEF o
  <2> QED BY <2>1, <2>2, <2>3
<1> HIDE DEF o
<1>5. /\ mirror' \in [Workers -> Held]
      /\ \A v \in Workers, j \in Families : mirror'[v][j] = IF v = w /\ j = k THEN psNow ELSE mirror[v][j]
      /\ \A v \in Workers : v # w => mirror'[v] = mirror[v]
  BY <1>1 DEF StateTypes, Held
<1>6. StateTypes'
  BY <1>1, <1>4, <1>5 DEF StateTypes, StateAssumption
<1>7. ChannelsFit'
  <2>1. Sendable(m)
    BY <1>1, <1>3 DEF Sendable, NamesOne
  <2>2. \A v \in Workers : \A i \in DOMAIN outbox'[v] : Sendable(outbox'[v][i])
    BY <1>4, <2>1 DEF MirrorInv, ChannelsFit
  <2>3. \A v \in Workers : \A i \in DOMAIN inbox'[v] :
          Broadcastable(inbox'[v][i]) /\ psNow <= inbox'[v][i].sent + MaxDelay
    BY <1>1 DEF MirrorInv, ChannelsFit
  <2>4. \A v \in Workers : status'[v] = "unborn" =>
          mirror'[v] = State!None /\ strayed'[v] = {} /\ inbox'[v] = <<>> /\ outbox'[v] = <<>>
    BY <1>1, <1>4, <1>5 DEF MirrorInv, ChannelsFit
  <2> QED BY <1>1, <2>2, <2>3, <2>4, ChannelsFitThen
<1>8. OneRecorder /\ RecordsRise /\ RecordsTold
  BY <1>1 DEF MirrorInv, OutcomesTold
<1>9. OneRecorder'
  <2>1. ASSUME NEW v \in Workers, Recorder(v)' PROVE v = w
    <3>1. SUFFICES ASSUME v # w PROVE FALSE
      OBVIOUS
    <3>2. Recorder(v)
      BY <1>4, <2>1, <3>1 DEF Recorder
    <3> QED BY <1>1, <1>8, <3>1, <3>2, MirrorsAssumption DEF OneRecorder
  <2> QED BY <1>1, <1>8, <2>1 DEF OneRecorder
<1>10. RecordsRise'
  <2>1. ASSUME NEW v \in Workers, NEW j \in Families
        PROVE  /\ mirror'[v][j] <= psNow
               /\ \A i \in DOMAIN outbox'[v] :
                    /\ outbox'[v][i].entries[j] <= psNow
                    /\ outbox'[v][i].entries[j] = 0 \/ primary[j] <= outbox'[v][i].entries[j]
                    /\ \A l \in DOMAIN outbox'[v] : i < l =>
                         outbox'[v][l].entries[j] = 0 \/ outbox'[v][i].entries[j] <= outbox'[v][l].entries[j]
    <3>1. mirror'[v][j] <= psNow
      BY <1>1, <1>5, <1>8 DEF RecordsRise
    <3>2. CASE v # w
      BY <1>4, <1>8, <3>1, <3>2 DEF RecordsRise
    <3>3. CASE v = w
      <4>1. m.entries[j] \in {0, psNow}
        BY <1>3
      <4>2. /\ primary[j] <= psNow /\ primary[j] \in Nat
            /\ \A i \in DOMAIN outbox[w] : outbox[w][i].entries[j] <= psNow
        BY <1>1, <1>8, ChannelTypes DEF RecordsRise
      <4>3. \A i \in DOMAIN outbox'[w] :
              (i \in DOMAIN outbox[w] /\ outbox'[w][i] = outbox[w][i] /\ i \in Nat /\ i < o)
              \/ (i = o /\ outbox'[w][i] = m)
        BY <1>4
      <4>4. ASSUME NEW i \in DOMAIN outbox'[w]
            PROVE  /\ outbox'[w][i].entries[j] <= psNow
                   /\ outbox'[w][i].entries[j] = 0 \/ primary[j] <= outbox'[w][i].entries[j]
        BY <1>1, <1>8, <4>1, <4>2, <4>3 DEF RecordsRise
      <4>5. ASSUME NEW i \in DOMAIN outbox'[w], NEW l \in DOMAIN outbox'[w], i < l
            PROVE  outbox'[w][l].entries[j] = 0 \/ outbox'[w][i].entries[j] <= outbox'[w][l].entries[j]
        <5>1. i \in DOMAIN outbox[w] /\ outbox'[w][i] = outbox[w][i]
          BY <1>4, <4>3, <4>5
        <5>2. CASE l = o
          BY <1>4, <4>1, <4>2, <5>1, <5>2
        <5>3. CASE l # o
          BY <1>8, <4>3, <4>5, <5>1, <5>3 DEF RecordsRise
        <5> QED BY <5>2, <5>3
      <4> QED BY <3>1, <3>3, <4>4, <4>5
    <3> QED BY <3>2, <3>3
  <2> QED BY <1>1, <1>8, <2>1 DEF RecordsRise
<1>11. RecordsTold'
  <2>1. ASSUME NEW v \in State!Alive, NEW j \in Families PROVE Latest(v, j, mirror[v][j], 0)'
    <3>1. v \in Workers /\ Latest(v, j, mirror[v][j], 0) /\ mirror[v][j] \in Nat /\ primary[j] \in Nat
      BY <1>1, <1>2, <1>8, ChannelTypes DEF RecordsTold
    <3>2. CASE v # w
      BY <1>1, <1>4, <1>5, <3>1, <3>2 DEF Latest
    <3>3. CASE v = w /\ j # k
      <4>1. mirror'[v][j] = mirror[v][j] /\ m.entries[j] = 0
        BY <1>3, <1>5, <3>3
      <4>2. /\ \A i \in DOMAIN outbox'[v] : outbox'[v][i].entries[j] <= mirror[v][j]
            /\ \A i \in DOMAIN outbox[v] : i \in DOMAIN outbox'[v] /\ outbox'[v][i] = outbox[v][i]
        BY <1>4, <3>1, <3>3, <4>1, SMTT(30) DEF Latest
      <4> QED BY <1>1, <3>1, <4>1, <4>2 DEF Latest
    <3>4. CASE v = w /\ j = k
      <4>1. mirror'[v][j] = psNow /\ m.entries[j] = psNow
        BY <1>3, <1>5, <3>4
      <4>2. \A i \in DOMAIN outbox'[v] : outbox'[v][i].entries[j] <= psNow
        BY <1>1, <1>10, <3>1 DEF RecordsRise
      <4>3. primary[j] <= psNow /\ \A i \in DOMAIN inbox[v] : inbox[v][i].kind # "record"
        BY <1>1, <1>8, <3>4 DEF RecordsRise, OneRecorder
      <4>4. o \in DOMAIN outbox'[v] /\ psNow <= outbox'[v][o].entries[j]
        BY <1>1, <1>4, <3>4, <4>1
      <4> QED BY <1>1, <3>1, <4>1, <4>2, <4>3, <4>4 DEF Latest
    <3> QED BY <3>2, <3>3, <3>4
  <2> QED BY <1>1, <2>1 DEF RecordsTold
<1> QED BY <1>1, <1>6, <1>7, <1>9, <1>10, <1>11 DEF MirrorInv, RevocationsTold, BlocksTold, OutcomesTold
\* A worker that reads a message knows what it was told by it.
LEMMA ReceiveKeeps ==
  ASSUME MirrorInv, NEW w \in Workers, State!Receive(w)
  PROVE  MirrorInv'
<1> DEFINE m == Head(inbox[w])
           c == State!Copy(w)
           r == State!Received(c, m)
<1>1. /\ StateTypes /\ psNow \in Nat /\ StateAssumption /\ ChannelsFit /\ w \in State!Alive
      /\ UNCHANGED <<topic, psNow, status, leader, primary, outbox, synced>>
      /\ (State!Alive)' = State!Alive /\ \A v \in State!Alive : v \in Workers
      /\ mirror' = [mirror EXCEPT ![w] = r.held] /\ strayed' = [strayed EXCEPT ![w] = r.strayed]
      /\ inbox' = [inbox EXCEPT ![w] = Tail(@)] /\ inbox[w] # <<>>
  BY DEF MirrorInv, StateTypes, StateAssumption, State!Receive, State!Alive, State!Knows
<1>2. c \in Copies /\ inbox[w] \in Seq(Messages)
  BY <1>1, ChannelTypes
<1>3. /\ m \in Messages /\ 1 \in DOMAIN inbox[w] /\ m = inbox[w][1]
      /\ Tail(inbox[w]) \in Seq(Messages)
      /\ \A i \in DOMAIN Tail(inbox[w]) :
           i \in Nat /\ 0 < i /\ i + 1 \in DOMAIN inbox[w] /\ Tail(inbox[w])[i] = inbox[w][i + 1]
      /\ \A i \in DOMAIN inbox[w] :
           i \in Nat /\ (i # 1 => 1 < i /\ i - 1 \in DOMAIN Tail(inbox[w]) /\ Tail(inbox[w])[i - 1] = inbox[w][i])
  BY <1>1, <1>2, Behead
<1>4. Broadcastable(m) /\ psNow <= m.sent + MaxDelay
  BY <1>1, <1>3 DEF ChannelsFit
<1>5. r \in Copies
  BY <1>1, <1>2, <1>3, ReceivedIsCopy
<1> HIDE DEF m, r
<1>6. /\ mirror' \in [Workers -> Held] /\ strayed' \in [Workers -> SUBSET Families]
      /\ mirror'[w] = r.held /\ strayed'[w] = r.strayed
      /\ \A v \in Workers : v # w => mirror'[v] = mirror[v] /\ strayed'[v] = strayed[v]
  BY <1>1, <1>5 DEF StateTypes, Copies
<1>7. /\ inbox' \in [Workers -> Seq(Messages)] /\ inbox'[w] = Tail(inbox[w])
      /\ \A v \in Workers : v # w => inbox'[v] = inbox[v]
  BY <1>1, <1>3 DEF StateTypes
<1>8. StateTypes'
  BY <1>1, <1>6, <1>7 DEF StateTypes, StateAssumption
<1>9. ASSUME NEW v \in Workers, NEW i \in DOMAIN inbox'[v]
      PROVE  \E j \in DOMAIN inbox[v] : inbox'[v][i] = inbox[v][j]
  <2>1. CASE v = w
    <3>1. i + 1 \in DOMAIN inbox[w] /\ inbox'[w][i] = inbox[w][i + 1]
      BY <1>3, <1>7, <2>1
    <3> QED BY <2>1, <3>1
  <2>2. CASE v # w
    BY <1>7, <2>2
  <2> QED BY <2>1, <2>2
<1>10. ChannelsFit'
  <2>1. ASSUME NEW v \in Workers, NEW i \in DOMAIN inbox'[v]
        PROVE  Broadcastable(inbox'[v][i]) /\ psNow <= inbox'[v][i].sent + MaxDelay
    BY <1>1, <1>9 DEF ChannelsFit
  <2>2. \A v \in Workers : \A i \in DOMAIN outbox'[v] : Sendable(outbox'[v][i])
    BY <1>1 DEF ChannelsFit
  <2>3. \A v \in Workers : status'[v] = "unborn" =>
          mirror'[v] = State!None /\ strayed'[v] = {} /\ inbox'[v] = <<>> /\ outbox'[v] = <<>>
    BY <1>1, <1>6, <1>7 DEF ChannelsFit, State!Alive
  <2> QED BY <1>1, <2>1, <2>2, <2>3, ChannelsFitThen
<1>11. RevocationsTold'
  <2> DEFINE Known(v, j, y) == \/ mirror'[v][j] >= y \/ j \in strayed'[v]
                               \/ \E i \in DOMAIN inbox'[v] : inbox'[v][i].entries[j] >= y
  <2>1. ASSUME topic = "auth", NEW v \in Workers, NEW j \in Families, NEW y \in Nat, y > psNow, Told(v, j, y)
        PROVE  Known(v, j, y)
    <3>1. CASE v # w
      BY <1>6, <1>7, <2>1, <3>1 DEF Told, Keeps, State!Copy
    <3>2. CASE v = w
      <4>1. Keeps(r, j, y) => Known(v, j, y)
        BY <1>6, <3>2 DEF Keeps
      <4>2. Keeps(c, j, y) => Keeps(r, j, y)
        BY <1>1, <1>2, <1>3, <2>1, RevocationsStay DEF r
      <4>3. ASSUME NEW i \in DOMAIN inbox[w], inbox[w][i].entries[j] >= y PROVE Known(v, j, y)
        <5>1. CASE i = 1
          <6>1. m.entries[j] >= y
            BY <1>3, <4>3, <5>1
          <6>2. m.entries[j] > psNow
            <7>1. m.entries[j] \in Nat
              BY <1>3 DEF Messages, Held
            <7> QED BY <1>1, <2>1, <6>1, <7>1
          <6>3. State!Valid(m)
            BY <1>1, <1>3, <1>4, <6>2, MessagesAreValid
          <6>4. Keeps(r, j, y)
            BY <1>1, <1>2, <1>3, <2>1, <6>1, <6>3, RevocationsStay DEF r
          <6> QED BY <4>1, <6>4
        <5>2. CASE i # 1
          <6>1. i - 1 \in DOMAIN inbox'[w] /\ inbox'[w][i - 1] = inbox[w][i]
            BY <1>3, <1>7, <5>2
          <6>2. inbox'[w][i - 1].entries[j] >= y
            BY <4>3, <6>1
          <6> QED BY <3>2, <6>1, <6>2
        <5> QED BY <5>1, <5>2
      <4> QED BY <2>1, <3>2, <4>1, <4>2, <4>3 DEF Told
    <3> QED BY <3>1, <3>2
  <2>2. ASSUME topic = "auth", NEW v \in State!Alive, NEW j \in Families
        PROVE  /\ v \in synced /\ primary[j] > psNow => Known(v, j, primary[j])
               /\ \A i \in DOMAIN outbox[v] :
                    outbox[v][i].entries[j] > psNow => Known(v, j, outbox[v][i].entries[j])
    <3>1. v \in Workers
      BY <1>1
    <3>2. primary[j] \in Nat /\ \A i \in DOMAIN outbox[v] : outbox[v][i].entries[j] \in Nat
      BY <1>1, <3>1, ChannelTypes
    <3> HIDE DEF Known
    <3> QED BY <2>1, <2>2, <3>1, <3>2 DEF MirrorInv, RevocationsTold
  <2> QED BY <1>1, <2>2 DEF RevocationsTold, Told, Keeps, State!Copy
<1>12. BlocksTold'
  <2>1. SUFFICES ASSUME topic = "sf", NEW v \in State!Alive, NEW k \in Families
        PROVE  /\ \A i \in DOMAIN inbox'[v] :
                    /\ k \in State!Named(inbox'[v][i])
                    /\ \A j \in DOMAIN inbox'[v] : j > i => k \notin State!Named(inbox'[v][j])
                    => Matches(v, k, inbox'[v][i].entries[k])
               /\ (\A i \in DOMAIN inbox'[v] : k \notin State!Named(inbox'[v][i])) =>
                    k \in strayed'[v] \/ Matches(v, k, mirror'[v][k])
    BY <1>1 DEF BlocksTold, Matches, State!Named
  <2>2. CASE v # w
    BY <1>1, <1>6, <1>7, <2>1, <2>2 DEF MirrorInv, BlocksTold
  <2>3. CASE v = w
    <3> DEFINE Names(i) == k \in State!Named(inbox[w][i])
    <3>1. /\ \A i \in DOMAIN inbox[w] :
               Names(i) /\ (\A j \in DOMAIN inbox[w] : j > i => ~Names(j)) => Matches(w, k, inbox[w][i].entries[k])
          /\ (\A i \in DOMAIN inbox[w] : ~Names(i)) => k \in strayed[w] \/ Matches(w, k, mirror[w][k])
      BY <2>1, <2>3 DEF MirrorInv, BlocksTold
    <3>2. /\ \A i \in DOMAIN inbox'[w] : k \in State!Named(inbox'[w][i]) <=> Names(i + 1)
          /\ \A j \in DOMAIN inbox[w] : j # 1 /\ Names(j) => k \in State!Named(inbox'[w][j - 1])
      BY <1>3, <1>7
    <3>3. ASSUME NEW i \in DOMAIN inbox'[w], k \in State!Named(inbox'[w][i]),
                 \A j \in DOMAIN inbox'[w] : j > i => k \notin State!Named(inbox'[w][j])
          PROVE  Matches(w, k, inbox'[w][i].entries[k])
      <4>1. i + 1 \in DOMAIN inbox[w] /\ inbox'[w][i] = inbox[w][i + 1] /\ i \in Nat /\ i > 0
        BY <1>3, <1>7
      <4>2. Names(i + 1)
        BY <3>2, <3>3
      <4>3. ASSUME NEW j \in DOMAIN inbox[w], j > i + 1, Names(j) PROVE FALSE
        <5>1. j \in Nat /\ j # 1 /\ j - 1 > i
          BY <1>3, <4>1, <4>3
        <5>2. j - 1 \in DOMAIN inbox'[w]
          BY <1>3, <1>7, <5>1
        <5> QED BY <3>2, <3>3, <4>3, <5>1, <5>2
      <4> HIDE DEF Names
      <4> QED BY <3>1, <4>1, <4>2, <4>3
    <3>4. ASSUME \A i \in DOMAIN inbox'[w] : k \notin State!Named(inbox'[w][i])
          PROVE  k \in strayed'[w] \/ Matches(w, k, mirror'[w][k])
      <4>1. ASSUME NEW i \in DOMAIN inbox[w], i # 1 PROVE ~Names(i)
        <5>1. i - 1 \in DOMAIN inbox'[w]
          BY <1>3, <1>7, <4>1
        <5> QED BY <3>2, <3>4, <4>1, <5>1
      <4>2. State!Valid(m)
        BY <1>1, <1>3, <1>4, <2>1, MessagesAreValid
      <4>3. /\ r.held[k] = After(c, m, k)
            /\ k \in r.strayed <=> k \in c.strayed /\ k \notin State!Named(m)
        BY <1>1, <1>2, <1>3, <2>1, <4>2, EntriesTaken DEF r
      <4>4. c.held = mirror[w] /\ c.strayed = strayed[w]
        BY DEF State!Copy
      <4>5. Names(1) <=> k \in State!Named(m)
        BY <1>3
      <4> HIDE DEF Names, c
      <4>6. CASE Names(1)
        <5>1. \A j \in DOMAIN inbox[w] : j > 1 => ~Names(j)
          BY <1>3, <4>1
        <5>2. Matches(w, k, m.entries[k])
          BY <1>3, <3>1, <4>6, <5>1
        <5>3. r.held[k] = m.entries[k]
          BY <2>1, <4>3, <4>5, <4>6 DEF After
        <5> QED BY <1>6, <5>2, <5>3
      <4>7. CASE ~Names(1)
        <5>1. k \in strayed[w] \/ Matches(w, k, mirror[w][k])
          BY <3>1, <4>1, <4>7
        <5>2. r.held[k] = mirror[w][k] /\ (k \in r.strayed <=> k \in strayed[w])
          BY <4>3, <4>4, <4>5, <4>7 DEF After
        <5> QED BY <1>6, <5>1, <5>2
      <4> QED BY <4>6, <4>7
    <3> QED BY <2>3, <3>3, <3>4
  <2> QED BY <2>2, <2>3
<1>13. ASSUME topic = "sched" PROVE OutcomesTold'
  <2>1. OneRecorder /\ RecordsRise /\ RecordsTold
    BY <1>13 DEF MirrorInv, OutcomesTold
  <2>2. OneRecorder'
    <3>1. \A v \in Workers : leader = v => \A i \in DOMAIN inbox'[v] : inbox'[v][i].kind # "record"
      BY <1>9, <2>1 DEF OneRecorder
    <3> QED BY <1>1, <2>1, <3>1 DEF OneRecorder, Recorder
  <2>3. ASSUME NEW k \in Families
        PROVE  /\ mirror'[w][k] = After(c, m, k)
               /\ Latest(w, k, mirror'[w][k], 1)
    <3>1. mirror'[w][k] = After(c, m, k)
      <4>1. State!Valid(m)
        BY <1>13 DEF State!Valid
      <4> QED BY <1>1, <1>2, <1>3, <1>6, <1>13, <4>1, EntriesTaken DEF r
    <3>2. Latest(w, k, c.held[k], 0)
      BY <1>1, <2>1 DEF RecordsTold, State!Copy
    <3>3. Latest(w, k, c.held[k], 1 - 1)
      BY <3>2
    <3>4. Latest(w, k, After(c, inbox[w][1], k), 1)
      <4> HIDE DEF c
      <4> QED BY <1>1, <1>2, <1>3, <1>13, <3>3, LatestStays
    <3> QED BY <1>3, <3>1, <3>4
  <2>4. RecordsRise'
    <3>1. ASSUME NEW k \in Families PROVE mirror'[w][k] <= psNow
      <4>1. mirror'[w][k] \in {mirror[w][k], m.entries[k]}
        BY <2>3 DEF After, State!Copy
      <4>2. mirror[w][k] <= psNow /\ primary[k] <= psNow /\ primary[k] \in Nat
        BY <1>1, <2>1, ChannelTypes DEF RecordsRise
      <4>3. m.entries[k] <= primary[k] /\ m.entries[k] \in Nat
        BY <1>1, <1>3, <2>1, ChannelTypes DEF RecordsTold, Latest
      <4> QED BY <1>1, <4>1, <4>2, <4>3
    <3> QED BY <1>1, <1>6, <2>1, <3>1 DEF RecordsRise
  <2>5. RecordsTold'
    <3>1. ASSUME NEW v \in State!Alive, NEW k \in Families PROVE Latest(v, k, mirror[v][k], 0)'
      <4>1. CASE v # w
        <5>1. Latest(v, k, mirror[v][k], 0)
          BY <2>1 DEF RecordsTold
        <5> QED BY <1>1, <1>6, <1>7, <4>1, <5>1 DEF Latest
      <4>2. CASE v = w
        <5>1. Latest(w, k, mirror'[w][k], 1)
          BY <2>3
        <5>2. ASSUME NEW j \in DOMAIN inbox'[w]
              PROVE  /\ inbox'[w][j].entries[k] <= primary[k]
                     /\ inbox'[w][j].kind = "record" /\ inbox'[w][j].entries[k] > 0 =>
                          /\ mirror'[w][k] <= inbox'[w][j].entries[k]
                          /\ \A l \in DOMAIN inbox'[w] : l < j =>
                               inbox'[w][l].entries[k] <= inbox'[w][j].entries[k]
          <6>1. /\ j + 1 \in DOMAIN inbox[w] /\ inbox'[w][j] = inbox[w][j + 1] /\ 1 < j + 1 /\ j \in Nat
                /\ \A l \in DOMAIN inbox'[w] : /\ l + 1 \in DOMAIN inbox[w] /\ inbox'[w][l] = inbox[w][l + 1]
                                               /\ 1 < l + 1 /\ l \in Nat
            BY <1>3, <1>7
          <6>2. \A l \in DOMAIN inbox'[w] : l < j => l + 1 < j + 1
            BY <6>1
          <6> QED BY <5>1, <6>1, <6>2 DEF Latest
        <5>3. ASSUME NEW j \in DOMAIN inbox[w], 1 < j
              PROVE  \E i \in DOMAIN inbox'[w] : 0 < i /\ inbox'[w][i] = inbox[w][j]
          <6>1. j # 1 /\ j - 1 \in DOMAIN Tail(inbox[w]) /\ Tail(inbox[w])[j - 1] = inbox[w][j]
            BY <1>3, <5>3
          <6> QED BY <1>3, <1>7, <6>1
        <5>4. w \in synced => \/ primary[k] <= mirror'[w][k]
                              \/ \E i \in DOMAIN inbox'[w] : 0 < i /\ primary[k] <= inbox'[w][i].entries[k]
          BY <5>1, <5>3 DEF Latest
        <5> QED BY <1>1, <4>2, <5>1, <5>2, <5>4 DEF Latest
      <4> QED BY <4>1, <4>2
    <3> QED BY <1>1, <3>1 DEF RecordsTold
  <2> QED BY <2>2, <2>4, <2>5 DEF OutcomesTold
<1> QED BY <1>1, <1>8, <1>10, <1>11, <1>12, <1>13 DEF MirrorInv, OutcomesTold
-----------------------------------------------------------------------------
(* PrimaryState: the primary's steps keep the invariant                    *)

\* The channels after the primary has taken a message of worker w and sent message b
\* to the workers of A.
End(v) == Len(inbox[v]) + 1

Grown(A, b) ==
  /\ \A v \in Workers : \A i \in DOMAIN inbox[v] : i \in DOMAIN inbox'[v] /\ inbox'[v][i] = inbox[v][i]
  /\ \A v \in Workers : \A i \in DOMAIN inbox'[v] : i \in DOMAIN inbox[v] \/ (v \in A /\ i = End(v))
  /\ \A v \in A : /\ End(v) \in DOMAIN inbox'[v] /\ inbox'[v][End(v)] = b /\ End(v) \in Nat /\ End(v) > 0
                  /\ \A i \in DOMAIN inbox[v] : i \in Nat /\ i < End(v)

Shrunk(w) ==
  /\ \A v \in Workers : \A i \in DOMAIN outbox'[v] :
       /\ v = w => i \in Nat /\ i + 1 \in DOMAIN outbox[w] /\ outbox'[w][i] = outbox[w][i + 1]
       /\ v # w => i \in DOMAIN outbox[v] /\ outbox'[v][i] = outbox[v][i]
  /\ \A v \in Workers : \A i \in DOMAIN outbox[v] :
       (v = w /\ i = 1) \/ \E j \in DOMAIN outbox'[v] : outbox'[v][j] = outbox[v][i]

Sends(w, A, b) ==
  /\ outbox[w] # <<>> /\ outbox' = [outbox EXCEPT ![w] = Tail(@)]
  /\ inbox' = [v \in Workers |-> IF v \in A THEN Append(inbox[v], b) ELSE inbox[v]]
  /\ UNCHANGED <<topic, psNow, status, leader, mirror, strayed>>

LEMMA ChannelsMove ==
  ASSUME MirrorInv, NEW w \in Workers, NEW b \in Messages, NEW A \in SUBSET State!Alive,
         Sends(w, A, b), Broadcastable(b), b.sent = psNow,
         primary' \in Held, synced' \subseteq State!Alive
  PROVE  StateTypes' /\ ChannelsFit' /\ Grown(A, b) /\ Shrunk(w)
<1>1. /\ StateTypes /\ ChannelsFit /\ psNow \in Nat /\ MaxDelay \in Nat
      /\ UNCHANGED <<topic, psNow, status, leader, mirror, strayed>>
      /\ (State!Alive)' = State!Alive /\ \A v \in State!Alive : v \in Workers
      /\ outbox[w] # <<>> /\ outbox' = [outbox EXCEPT ![w] = Tail(@)]
      /\ inbox' = [v \in Workers |-> IF v \in A THEN Append(inbox[v], b) ELSE inbox[v]]
  BY MirrorsAssumption DEF MirrorInv, StateTypes, StateAssumption, State!Alive, Sends
<1>2. ASSUME NEW v \in Workers
      PROVE  /\ inbox[v] \in Seq(Messages) /\ outbox[v] \in Seq(Messages)
             /\ inbox'[v] = IF v \in A THEN Append(inbox[v], b) ELSE inbox[v]
             /\ inbox'[v] \in Seq(Messages)
             /\ outbox'[v] = IF v = w THEN Tail(outbox[w]) ELSE outbox[v]
             /\ outbox'[v] \in Seq(Messages)
  BY <1>1, Appended, Behead, ChannelTypes DEF StateTypes
<1>3. ASSUME NEW v \in A
      PROVE  /\ DOMAIN inbox'[v] = DOMAIN inbox[v] \cup {End(v)}
             /\ \A i \in DOMAIN inbox[v] : i \in Nat /\ i < End(v) /\ inbox'[v][i] = inbox[v][i]
             /\ inbox'[v][End(v)] = b /\ End(v) \in Nat /\ End(v) > 0
  <2>1. v \in Workers /\ inbox[v] \in Seq(Messages) /\ inbox'[v] = Append(inbox[v], b)
    BY <1>1, <1>2
  <2> QED BY <2>1, Appended DEF End
<1>4. Grown(A, b)
  BY <1>2, <1>3 DEF Grown
<1>5. Shrunk(w)
  <2>1. /\ \A i \in DOMAIN outbox'[w] : i \in Nat /\ i + 1 \in DOMAIN outbox[w] /\ outbox'[w][i] = outbox[w][i + 1]
        /\ \A i \in DOMAIN outbox[w] : i # 1 => i - 1 \in DOMAIN outbox'[w] /\ outbox'[w][i - 1] = outbox[w][i]
    <3>1. outbox[w] \in Seq(Messages) /\ outbox[w] # <<>> /\ outbox'[w] = Tail(outbox[w])
      BY <1>1, <1>2
    <3> QED BY <3>1, Behead
  <2> QED BY <1>2, <2>1 DEF Shrunk
<1>6. StateTypes'
  <2>1. inbox' \in [Workers -> Seq(Messages)] /\ outbox' \in [Workers -> Seq(Messages)]
    BY <1>1, <1>2 DEF StateTypes
  <2> QED BY <1>1, <2>1 DEF StateTypes, StateAssumption
<1>7. ChannelsFit'
  <2>1. ASSUME NEW v \in Workers, NEW i \in DOMAIN inbox'[v]
        PROVE  Broadcastable(inbox'[v][i]) /\ psNow <= inbox'[v][i].sent + MaxDelay
    <3>1. CASE i \in DOMAIN inbox[v]
      BY <1>1, <1>4, <3>1 DEF ChannelsFit, Grown
    <3>2. CASE v \in A /\ i = End(v)
      <4>1. inbox'[v][i] = b
        BY <1>3, <3>2
      <4>2. psNow <= b.sent + MaxDelay
        BY <1>1
      <4> QED BY <4>1, <4>2
    <3> QED BY <1>4, <3>1, <3>2 DEF Grown
  <2>2. ASSUME NEW v \in Workers, NEW i \in DOMAIN outbox'[v] PROVE Sendable(outbox'[v][i])
    BY <1>1, <1>5 DEF ChannelsFit, Shrunk
  <2>3. \A v \in Workers : status'[v] = "unborn" =>
          mirror'[v] = State!None /\ strayed'[v] = {} /\ inbox'[v] = <<>> /\ outbox'[v] = <<>>
    BY <1>1, <1>2 DEF ChannelsFit, State!Alive
  <2> QED BY <1>1, <2>1, <2>2, <2>3, ChannelsFitThen
<1> QED BY <1>4, <1>5, <1>6, <1>7

\* What a worker was told of stays so when it is sent more.
LEMMA ToldStays ==
  ASSUME MirrorInv, topic = "auth", NEW w \in Workers, NEW A \in SUBSET State!Alive, NEW b,
         Sends(w, A, b), Grown(A, b), Shrunk(w),
         \A v \in State!Alive, k \in Families :
           v \in synced' /\ primary'[k] > psNow =>
             Told(v, k, primary'[k]) \/ (v \in A /\ b.entries[k] >= primary'[k])
  PROVE  RevocationsTold'
<1>1. /\ UNCHANGED <<topic, psNow, status, mirror, strayed>> /\ (State!Alive)' = State!Alive
      /\ \A v \in State!Alive : v \in Workers
  BY DEF Sends, State!Alive
<1> DEFINE Known(v, k, x) == \/ mirror[v][k] >= x \/ k \in strayed[v]
                             \/ \E i \in DOMAIN inbox'[v] : inbox'[v][i].entries[k] >= x
<1>2. ASSUME NEW v \in State!Alive, NEW k \in Families, NEW x, Told(v, k, x) PROVE Known(v, k, x)
  BY <1>1, <1>2 DEF Told, Keeps, State!Copy, Grown
<1>3. ASSUME NEW v \in State!Alive, NEW k \in Families
      PROVE  /\ v \in synced' /\ primary'[k] > psNow => Known(v, k, primary'[k])
             /\ \A i \in DOMAIN outbox'[v] :
                  outbox'[v][i].entries[k] > psNow => Known(v, k, outbox'[v][i].entries[k])
  <2>1. ASSUME v \in A, b.entries[k] >= primary'[k] PROVE Known(v, k, primary'[k])
    BY <1>1, <2>1 DEF Grown
  <2>2. v \in synced' /\ primary'[k] > psNow => Known(v, k, primary'[k])
    <3> HIDE DEF Known
    <3> QED BY <1>2, <1>3, <2>1
  <2>3. ASSUME NEW i \in DOMAIN outbox'[v], outbox'[v][i].entries[k] > psNow
        PROVE  Known(v, k, outbox'[v][i].entries[k])
    <3>1. \E j \in DOMAIN outbox[v] : outbox'[v][i] = outbox[v][j]
      <4>1. v \in Workers
        BY <1>1
      <4>2. CASE v = w
        <5>1. i + 1 \in DOMAIN outbox[v] /\ outbox'[v][i] = outbox[v][i + 1]
          BY <2>3, <4>1, <4>2 DEF Shrunk
        <5> QED BY <5>1
      <4>3. CASE v # w
        BY <2>3, <4>1, <4>3 DEF Shrunk
      <4> QED BY <4>2, <4>3
    <3>2. Told(v, k, outbox'[v][i].entries[k])
      BY <1>3, <2>3, <3>1 DEF MirrorInv, RevocationsTold
    <3> HIDE DEF Known
    <3> QED BY <1>2, <3>2
  <2> HIDE DEF Known
  <2> QED BY <2>2, <2>3
<1> QED BY <1>1, <1>3 DEF RevocationsTold, Told, Keeps, State!Copy


\* Value v of address k is the primary's after a step, as in Matches.
MatchesThen(w, k, v) == v = primary'[k] \/ (v <= psNow /\ (primary'[k] <= psNow \/ w \notin synced'))

\* The last message about an address decides, an older one or a new one.
LEMMA BlocksStay ==
  ASSUME MirrorInv, topic = "sf", NEW w \in Workers, NEW A \in SUBSET State!Alive, NEW b,
         Sends(w, A, b), Grown(A, b),
         \A v \in State!Alive, k \in Families :
           IF v \in A /\ k \in State!Named(b) THEN MatchesThen(v, k, b.entries[k])
           ELSE \A x \in Nat : Matches(v, k, x) => MatchesThen(v, k, x)
  PROVE  BlocksTold'
<1>1. /\ UNCHANGED <<topic, psNow, status, mirror, strayed>> /\ (State!Alive)' = State!Alive
      /\ StateTypes /\ \A v \in State!Alive : v \in Workers
  BY DEF MirrorInv, Sends, State!Alive
<1>2. ASSUME NEW v \in State!Alive, NEW k \in Families
      PROVE  /\ \A i \in DOMAIN inbox'[v] :
                  /\ k \in State!Named(inbox'[v][i])
                  /\ \A j \in DOMAIN inbox'[v] : j > i => k \notin State!Named(inbox'[v][j])
                  => MatchesThen(v, k, inbox'[v][i].entries[k])
             /\ (\A i \in DOMAIN inbox'[v] : k \notin State!Named(inbox'[v][i])) =>
                  k \in strayed[v] \/ MatchesThen(v, k, mirror[v][k])
  <2>1. /\ v \in Workers /\ mirror[v][k] \in Nat
        /\ \A i \in DOMAIN inbox[v] : inbox[v][i].entries[k] \in Nat
    BY <1>1, ChannelTypes
  <2>2. /\ \A i \in DOMAIN inbox[v] :
             /\ k \in State!Named(inbox[v][i])
             /\ \A j \in DOMAIN inbox[v] : j > i => k \notin State!Named(inbox[v][j])
             => Matches(v, k, inbox[v][i].entries[k])
        /\ (\A i \in DOMAIN inbox[v] : k \notin State!Named(inbox[v][i])) =>
             k \in strayed[v] \/ Matches(v, k, mirror[v][k])
    BY <1>2 DEF MirrorInv, BlocksTold
  <2>3. \A i \in DOMAIN inbox[v] : i \in DOMAIN inbox'[v] /\ inbox'[v][i] = inbox[v][i]
    BY <2>1 DEF Grown
  <2>4. ASSUME NEW i \in DOMAIN inbox'[v], k \in State!Named(inbox'[v][i]),
               \A j \in DOMAIN inbox'[v] : j > i => k \notin State!Named(inbox'[v][j])
        PROVE  MatchesThen(v, k, inbox'[v][i].entries[k])
    <3>1. CASE v \in A /\ i = End(v)
      <4>1. inbox'[v][i] = b
        BY <3>1 DEF Grown
      <4> QED BY <1>2, <2>4, <3>1, <4>1
    <3>2. CASE i \in DOMAIN inbox[v]
      <4>1. ASSUME v \in A PROVE k \notin State!Named(b)
        <5>1. End(v) \in DOMAIN inbox'[v] /\ inbox'[v][End(v)] = b /\ i < End(v) /\ i \in Nat /\ End(v) \in Nat
          BY <3>2, <4>1 DEF Grown
        <5> QED BY <2>4, <5>1
      <4>2. Matches(v, k, inbox[v][i].entries[k])
        BY <2>2, <2>3, <2>4, <3>2
      <4> QED BY <1>2, <2>1, <2>3, <3>2, <4>1, <4>2
    <3> QED BY <2>1, <3>1, <3>2 DEF Grown
  <2>5. ASSUME \A i \in DOMAIN inbox'[v] : k \notin State!Named(inbox'[v][i])
        PROVE  k \in strayed[v] \/ MatchesThen(v, k, mirror[v][k])
    <3>1. ASSUME v \in A PROVE k \notin State!Named(b)
      <4>1. End(v) \in DOMAIN inbox'[v] /\ inbox'[v][End(v)] = b
        BY <3>1 DEF Grown
      <4> QED BY <2>5, <4>1
    <3>2. k \in strayed[v] \/ Matches(v, k, mirror[v][k])
      BY <2>2, <2>3, <2>5
    <3> QED BY <1>2, <2>1, <3>1, <3>2
  <2> QED BY <2>4, <2>5
<1> QED BY <1>1, <1>2 DEF BlocksTold, Matches, MatchesThen, State!Named
LEMMA FirstMessage ==
  ASSUME MirrorInv, NEW w \in Workers, outbox[w] # <<>>
  PROVE  /\ Head(outbox[w]) \in Messages /\ Sendable(Head(outbox[w]))
         /\ 1 \in DOMAIN outbox[w] /\ Head(outbox[w]) = outbox[w][1]
         /\ \A k \in Families : Head(outbox[w]).entries[k] \in Nat
         /\ Head(outbox[w]).key \in Families
<1>1. StateTypes /\ ChannelsFit
  BY DEF MirrorInv
<1>2. outbox[w] \in Seq(Messages)
  BY <1>1, ChannelTypes
<1>3. 1 \in DOMAIN outbox[w] /\ Head(outbox[w]) = outbox[w][1] /\ Head(outbox[w]) \in Messages
  BY <1>2, Behead
<1>4. Sendable(Head(outbox[w]))
  BY <1>1, <1>3 DEF ChannelsFit
<1> QED BY <1>3, <1>4 DEF Messages, Held

\* The primary passes a revocation on to those that did not make it.
LEMMA OnRevokeKeeps ==
  ASSUME MirrorInv, NEW w \in Workers, State!PrimaryReceive(w), Head(outbox[w]).kind = "revoke"
  PROVE  MirrorInv'
<1> DEFINE m == Head(outbox[w])
           b == [m EXCEPT !.sent = psNow]
           A == State!Alive \ {w}
           r == State!Revoked([held |-> primary, strayed |-> {}], m.key, m.entries[m.key])
<1>1. /\ StateTypes /\ psNow \in Nat /\ outbox[w] # <<>>
      /\ outbox' = [outbox EXCEPT ![w] = Tail(@)] /\ State!Handle(w, m)
      /\ UNCHANGED <<topic, psNow, status, leader, mirror, strayed>>
  BY DEF MirrorInv, StateTypes, StateAssumption, State!PrimaryReceive
<1>2. /\ m \in Messages /\ Sendable(m) /\ 1 \in DOMAIN outbox[w] /\ m = outbox[w][1]
      /\ m.key \in Families /\ \A k \in Families : m.entries[k] \in Nat
  BY <1>1, FirstMessage
<1>3. topic = "auth" /\ NamesOne(m)
  BY <1>2 DEF Sendable
<1>4. /\ b \in Messages /\ b.sent = psNow /\ b.kind = "revoke" /\ b.entries = m.entries /\ b.key = m.key
  BY <1>1, <1>2, ResentIsTyped
<1>5. primary' = r.held /\ State!Broadcast(b, w) /\ synced' = synced
  BY <1>1 DEF State!Handle
<1>6. r \in Copies
  <2>1. [held |-> primary, strayed |-> {}] \in Copies
    BY <1>1 DEF StateTypes, Copies
  <2> QED BY <1>1, <1>2, <2>1, RevokedIsCopy
<1>7. ASSUME NEW k \in Families
      PROVE  primary'[k] \in {0, primary[k]} \/ (k = m.key /\ primary'[k] = m.entries[k])
  <2>1. primary \in Held
    BY <1>1 DEF StateTypes
  <2> HIDE DEF m
  <2> QED BY <1>2, <1>5, <2>1 DEF State!Revoked, State!Larger, Held
<1> HIDE DEF m, r, b
<1>8. Sends(w, A, b)
  <2>1. inbox' = [v \in Workers |-> IF v \in A THEN Append(inbox[v], b) ELSE inbox[v]]
    BY <1>5 DEF State!Broadcast
  <2> QED BY <1>1, <2>1 DEF Sends
<1>9. Broadcastable(b)
  BY <1>3, <1>4 DEF Broadcastable, NamesOne
<1>10. A \in SUBSET State!Alive /\ primary' \in Held /\ synced' \subseteq State!Alive
  BY <1>1, <1>5, <1>6 DEF Copies, StateTypes
<1> HIDE DEF A
<1>11. StateTypes' /\ ChannelsFit' /\ Grown(A, b) /\ Shrunk(w)
  BY <1>4, <1>8, <1>9, <1>10, ChannelsMove
<1>12. ASSUME NEW v \in State!Alive, NEW k \in Families, v \in synced', primary'[k] > psNow
       PROVE  Told(v, k, primary'[k]) \/ (v \in A /\ b.entries[k] >= primary'[k])
  <2>1. CASE primary'[k] = primary[k]
    BY <1>3, <1>5, <1>12, <2>1 DEF MirrorInv, RevocationsTold
  <2>2. CASE k = m.key /\ primary'[k] = m.entries[k]
    <3>1. CASE v = w
      BY <1>2, <1>3, <1>12, <2>2, <3>1 DEF MirrorInv, RevocationsTold
    <3>2. CASE v # w
      BY <1>2, <1>4, <2>2, <3>2 DEF A
    <3> QED BY <3>1, <3>2
  <2> QED BY <1>1, <1>7, <1>12, <2>1, <2>2
<1>13. RevocationsTold'
  BY <1>3, <1>8, <1>10, <1>11, <1>12, ToldStays
<1> QED BY <1>1, <1>3, <1>11, <1>13 DEF MirrorInv, BlocksTold, OutcomesTold

\* The primary counts a strike, and may block the address for all.
LEMMA OnStrikeKeeps ==
  ASSUME MirrorInv, NEW w \in Workers, State!PrimaryReceive(w), Head(outbox[w]).kind = "strike"
  PROVE  MirrorInv'
<1> DEFINE m == Head(outbox[w])
           k == m.key
           x == psNow + Lifetime
           b == State!Message("block", State!Only(k, x), k)
<1>1. /\ StateTypes /\ psNow \in Nat /\ psNow > 0 /\ x \in Nat /\ x > 0 /\ outbox[w] # <<>>
      /\ outbox' = [outbox EXCEPT ![w] = Tail(@)] /\ State!Handle(w, m)
      /\ UNCHANGED <<topic, psNow, status, leader, mirror, strayed>>
  BY MirrorsAssumption DEF MirrorInv, StateTypes, StateAssumption, State!PrimaryReceive
<1>2. m \in Messages /\ Sendable(m) /\ k \in Families
  BY <1>1, FirstMessage
<1>3. topic = "sf" /\ State!OnStrike(k) /\ synced' = synced
  BY <1>1, <1>2 DEF Sendable, State!Handle
<1>4. /\ b \in Messages /\ b.sent = psNow /\ b.kind = "block" /\ b.key = k /\ b.entries[k] = x
      /\ \A j \in Families : j # k => b.entries[j] = 0
  BY <1>1, <1>2, OnlyIsHeld, MessageIsTyped, SMTT(30)
<1> HIDE DEF m, k
<1>5. Broadcastable(b)
  <2> HIDE DEF b
  <2>1. Lifetime \in Nat
    BY MirrorsAssumption
  <2> QED BY <1>1, <1>3, <1>4, <2>1 DEF Broadcastable, Ahead
<1>6. primary \in Held /\ inbox \in [Workers -> Seq(Messages)]
  BY <1>1 DEF StateTypes
<1>7. /\ primary' \in Held
      /\ \A j \in Families : j # k => primary'[j] = primary[j]
      /\ \/ primary' = primary /\ inbox' = inbox
         \/ primary[k] <= psNow /\ primary'[k] = 0 /\ inbox' = inbox
         \/ primary'[k] = x /\ State!Broadcast(b, 0)
  <2>1. k \in Families
    BY <1>2 DEF k
  <2> HIDE DEF b
  <2>2. \/ primary' = primary /\ inbox' = inbox
        \/ primary[k] <= psNow /\ primary' = [primary EXCEPT ![k] = 0] /\ inbox' = inbox
        \/ primary' = [primary EXCEPT ![k] = x] /\ State!Broadcast(b, 0)
    BY <1>3 DEF State!OnStrike, b
  <2> HIDE DEF x
  <2> QED BY <1>1, <1>6, <2>1, <2>2 DEF Held
<1> HIDE DEF b, x
<1>8. PICK A \in SUBSET State!Alive :
        /\ inbox' = [v \in Workers |-> IF v \in A THEN Append(inbox[v], b) ELSE inbox[v]]
        /\ \/ A = {} /\ (primary' = primary \/ (primary[k] <= psNow /\ primary'[k] = 0))
           \/ A = State!Alive /\ primary'[k] = x
  <2>1. CASE inbox' = inbox /\ (primary' = primary \/ (primary[k] <= psNow /\ primary'[k] = 0))
    <3>1. inbox' = [v \in Workers |-> IF v \in {} THEN Append(inbox[v], b) ELSE inbox[v]]
      BY <1>6, <2>1
    <3> QED BY <2>1, <3>1
  <2>2. CASE primary'[k] = x /\ State!Broadcast(b, 0)
    <3>1. \A v \in Workers : v # 0
      BY MirrorsAssumption
    <3>2. inbox' = [v \in Workers |-> IF v \in State!Alive THEN Append(inbox[v], b) ELSE inbox[v]]
      BY <2>2, <3>1 DEF State!Broadcast
    <3> QED BY <2>2, <3>2
  <2> QED BY <1>7, <2>1, <2>2
<1>9. Sends(w, A, b)
  BY <1>1, <1>8 DEF Sends
<1>10. synced' \subseteq State!Alive
  BY <1>1, <1>3 DEF StateTypes
<1>11. StateTypes' /\ ChannelsFit' /\ Grown(A, b) /\ Shrunk(w)
  BY <1>4, <1>5, <1>7, <1>9, <1>10, ChannelsMove
<1>12. ASSUME NEW v \in State!Alive, NEW j \in Families
       PROVE  IF v \in A /\ j \in State!Named(b) THEN MatchesThen(v, j, b.entries[j])
              ELSE \A y \in Nat : Matches(v, j, y) => MatchesThen(v, j, y)
  <2>1. j \in State!Named(b) <=> j = k
    BY <1>1, <1>4 DEF State!Named
  <2>2. primary[j] \in Nat
    BY <1>6 DEF Held
  <2>3. CASE v \in A /\ j = k
    BY <1>4, <1>8, <2>1, <2>3 DEF MatchesThen
  <2>4. CASE j # k
    BY <1>3, <1>7, <2>1, <2>4 DEF Matches, MatchesThen
  <2>5. CASE v \notin A /\ j = k
    <3>1. primary' = primary \/ (primary[k] <= psNow /\ primary'[k] = 0)
      BY <1>8, <2>5
    <3> QED BY <1>1, <1>3, <2>1, <2>2, <2>5, <3>1 DEF Matches, MatchesThen
  <2> QED BY <2>3, <2>4, <2>5
<1>13. BlocksTold'
  BY <1>3, <1>9, <1>11, <1>12, BlocksStay
<1> QED BY <1>1, <1>3, <1>11, <1>13 DEF MirrorInv, RevocationsTold, OutcomesTold

\* The primary lifts a block for all.
LEMMA OnUnblockKeeps ==
  ASSUME MirrorInv, NEW w \in Workers, State!PrimaryReceive(w), Head(outbox[w]).kind = "unblock"
  PROVE  MirrorInv'
<1> DEFINE m == Head(outbox[w])
           k == m.key
           b == State!Message("clear", State!None, k)
           A == State!Alive
<1>1. /\ StateTypes /\ psNow \in Nat /\ outbox[w] # <<>>
      /\ outbox' = [outbox EXCEPT ![w] = Tail(@)] /\ State!Handle(w, m)
      /\ UNCHANGED <<topic, psNow, status, leader, mirror, strayed>>
  BY DEF MirrorInv, StateTypes, StateAssumption, State!PrimaryReceive
<1>2. m \in Messages /\ Sendable(m) /\ k \in Families
  BY <1>1, FirstMessage
<1>3. /\ topic = "sf" /\ synced' = synced
      /\ primary' = [primary EXCEPT ![k] = 0] /\ State!Broadcast(b, 0)
  BY <1>1, <1>2 DEF Sendable, State!Handle
<1>4. b \in Messages /\ b.sent = psNow /\ b.kind = "clear" /\ b.key = k /\ b.entries = State!None
  BY <1>1, <1>2, NoneIsHeld, MessageIsTyped
<1> HIDE DEF m, k, b
<1>5. Broadcastable(b) /\ \A j \in Families : b.entries[j] = 0
  BY <1>3, <1>4, NoneIsHeld DEF Broadcastable
<1>6. /\ primary \in Held /\ primary' \in Held /\ primary'[k] = 0
      /\ \A j \in Families : j # k => primary'[j] = primary[j]
  <2>1. primary \in Held
    BY <1>1 DEF StateTypes
  <2>2. k \in Families
    BY <1>2 DEF k
  <2> QED BY <1>3, <2>1, <2>2 DEF Held
<1>7. Sends(w, A, b)
  <2>1. \A v \in Workers : v # 0
    BY MirrorsAssumption
  <2>2. inbox' = [v \in Workers |-> IF v \in A THEN Append(inbox[v], b) ELSE inbox[v]]
    BY <1>3, <2>1 DEF State!Broadcast
  <2> QED BY <1>1, <2>2 DEF Sends
<1>8. synced' \subseteq State!Alive
  BY <1>1, <1>3 DEF StateTypes
<1>9. StateTypes' /\ ChannelsFit' /\ Grown(A, b) /\ Shrunk(w)
  BY <1>4, <1>5, <1>6, <1>7, <1>8, ChannelsMove
<1>10. ASSUME NEW v \in State!Alive, NEW j \in Families
       PROVE  IF v \in A /\ j \in State!Named(b) THEN MatchesThen(v, j, b.entries[j])
              ELSE \A y \in Nat : Matches(v, j, y) => MatchesThen(v, j, y)
  <2>1. j \in State!Named(b) <=> j = k
    BY <1>4, <1>5 DEF State!Named
  <2> QED BY <1>3, <1>5, <1>6, <2>1 DEF Matches, MatchesThen
<1>11. BlocksTold'
  BY <1>3, <1>7, <1>9, <1>10, BlocksStay
<1> QED BY <1>1, <1>3, <1>9, <1>11 DEF MirrorInv, RevocationsTold, OutcomesTold
\* The primary keeps an outcome and passes it on to those that did not report it.
LEMMA OnRecordKeeps ==
  ASSUME MirrorInv, NEW w \in Workers, State!PrimaryReceive(w), Head(outbox[w]).kind = "record"
  PROVE  MirrorInv'
<1> DEFINE m == Head(outbox[w])
           k == m.key
           x == m.entries[k]
           b == [m EXCEPT !.sent = psNow]
           A == State!Alive \ {w}
<1>1. /\ StateTypes /\ psNow \in Nat /\ outbox[w] # <<>>
      /\ outbox' = [outbox EXCEPT ![w] = Tail(@)] /\ State!Handle(w, m)
      /\ UNCHANGED <<topic, psNow, status, leader, mirror, strayed>>
      /\ (State!Alive)' = State!Alive /\ \A v \in State!Alive : v \in Workers
  BY DEF MirrorInv, StateTypes, StateAssumption, State!PrimaryReceive, State!Alive
<1>2. /\ m \in Messages /\ Sendable(m) /\ 1 \in DOMAIN outbox[w] /\ m = outbox[w][1]
      /\ k \in Families /\ x \in Nat /\ m.kind = "record"
  BY <1>1, FirstMessage
<1>3. topic = "sched" /\ NamesOne(m) /\ x > 0
  BY <1>2 DEF Sendable
<1>4. /\ b \in Messages /\ b.sent = psNow /\ b.kind = "record" /\ b.entries = m.entries /\ b.key = k
      /\ b.entries[k] = x /\ \A j \in Families : j # k => b.entries[j] = 0
  <2>1. /\ b \in Messages /\ b.sent = psNow /\ b.kind = "record" /\ b.entries = m.entries /\ b.key = k
    BY <1>1, <1>2, ResentIsTyped
  <2> HIDE DEF b
  <2> QED BY <1>3, <2>1 DEF NamesOne
<1>5. /\ primary' = [primary EXCEPT ![k] = x] /\ State!Broadcast(b, w) /\ synced' = synced
  BY <1>1, <1>2 DEF State!Handle
<1> HIDE DEF m, b, k, x
<1>6. OneRecorder /\ RecordsRise /\ RecordsTold
  BY <1>3 DEF MirrorInv, OutcomesTold
<1>7. /\ primary' \in Held /\ primary'[k] = x
      /\ \A j \in Families : j # k => primary'[j] = primary[j]
  BY <1>1, <1>2, <1>5 DEF StateTypes, Held
<1>8. Sends(w, A, b)
  <2>1. inbox' = [v \in Workers |-> IF v \in A THEN Append(inbox[v], b) ELSE inbox[v]]
    BY <1>5 DEF State!Broadcast
  <2> QED BY <1>1, <2>1 DEF Sends
<1>9. Broadcastable(b)
  BY <1>3, <1>4 DEF Broadcastable, NamesOne
<1>10. A \in SUBSET State!Alive /\ synced' \subseteq State!Alive
  BY <1>1, <1>5 DEF StateTypes
<1>11. StateTypes' /\ ChannelsFit' /\ Grown(A, b) /\ Shrunk(w)
  BY <1>4, <1>7, <1>8, <1>9, <1>10, ChannelsMove
<1>12. Recorder(w)
  BY <1>2 DEF Recorder
<1>13. ASSUME NEW v \in Workers, v # w, NEW i \in DOMAIN outbox[v], NEW j \in Families
       PROVE  outbox[v][i].entries[j] = 0
  <2>1. outbox[v][i].kind # "record"
    BY <1>6, <1>12, <1>13 DEF OneRecorder, Recorder
  <2>2. Sendable(outbox[v][i])
    BY <1>13 DEF MirrorInv, ChannelsFit
  <2> QED BY <1>3, <2>1, <2>2, NoneIsHeld DEF Sendable
<1>14. ASSUME NEW j \in Families
       PROVE  /\ primary[j] \in Nat /\ primary'[j] \in Nat /\ primary[j] <= primary'[j]
              /\ primary'[j] <= psNow
  <2>1. primary[j] \in Nat /\ primary'[j] \in Nat
    BY <1>1, <1>7 DEF StateTypes, Held
  <2>2. primary[k] <= x /\ x <= psNow /\ primary[j] <= psNow
    BY <1>1, <1>2, <1>3, <1>6 DEF RecordsRise, x
  <2> QED BY <1>1, <1>2, <1>7, <2>1, <2>2
<1>15. OneRecorder'
  <2>1. ASSUME NEW v \in Workers, Recorder(v)' PROVE Recorder(v)
    BY <1>11, <2>1 DEF Recorder, Shrunk
  <2>2. ASSUME NEW v \in Workers, leader = v, NEW i \in DOMAIN inbox'[v]
        PROVE  inbox'[v][i].kind # "record"
    <3>1. v # 0
      BY MirrorsAssumption
    <3>2. v = w
      BY <1>6, <1>12, <2>2, <3>1 DEF OneRecorder
    <3>3. i \in DOMAIN inbox[v] /\ inbox'[v][i] = inbox[v][i]
      BY <1>11, <2>2, <3>2 DEF Grown, A
    <3> QED BY <1>6, <2>2, <3>3 DEF OneRecorder
  <2> QED BY <1>1, <1>6, <2>1, <2>2 DEF OneRecorder
<1>16. RecordsRise'
  <2>1. ASSUME NEW v \in Workers, NEW j \in Families
        PROVE  \A i \in DOMAIN outbox'[v] :
                 /\ outbox'[v][i].entries[j] <= psNow
                 /\ outbox'[v][i].entries[j] = 0 \/ primary'[j] <= outbox'[v][i].entries[j]
                 /\ \A l \in DOMAIN outbox'[v] : i < l =>
                      outbox'[v][l].entries[j] = 0 \/ outbox'[v][i].entries[j] <= outbox'[v][l].entries[j]
    <3>1. CASE v # w
      BY <1>1, <1>11, <1>13, <3>1 DEF Shrunk
    <3>2. CASE v = w
      <4>1. ASSUME NEW i \in DOMAIN outbox'[w]
            PROVE  i \in Nat /\ i + 1 \in DOMAIN outbox[w] /\ outbox'[w][i] = outbox[w][i + 1] /\ 1 < i + 1
        <5>1. i \in Nat /\ i + 1 \in DOMAIN outbox[w] /\ outbox'[w][i] = outbox[w][i + 1]
          BY <1>11 DEF Shrunk
        <5>2. i # 0
          <6>1. outbox'[w] \in Seq(Messages)
            BY <1>11 DEF StateTypes
          <6> QED BY <6>1
        <5> QED BY <5>1, <5>2
      <4>2. ASSUME NEW i \in DOMAIN outbox'[w]
            PROVE  /\ outbox'[w][i].entries[j] <= psNow
                   /\ outbox'[w][i].entries[j] = 0 \/ primary'[j] <= outbox'[w][i].entries[j]
        <5>1. outbox'[w][i].entries[j] = 0 \/ (primary[j] <= outbox'[w][i].entries[j]
                                                /\ outbox[w][1].entries[j] <= outbox'[w][i].entries[j])
          BY <1>2, <1>6, <4>1 DEF RecordsRise
        <5>2. outbox'[w][i].entries[j] <= psNow
          BY <1>6, <4>1 DEF RecordsRise
        <5>3. primary'[j] \in {primary[j], outbox[w][1].entries[j]}
          BY <1>2, <1>7 DEF x
        <5> QED BY <5>1, <5>2, <5>3
      <4>3. ASSUME NEW i \in DOMAIN outbox'[w], NEW l \in DOMAIN outbox'[w], i < l
            PROVE  outbox'[w][l].entries[j] = 0 \/ outbox'[w][i].entries[j] <= outbox'[w][l].entries[j]
        <5>1. i + 1 < l + 1
          BY <4>1, <4>3
        <5> QED BY <1>6, <4>1, <5>1 DEF RecordsRise
      <4> QED BY <3>2, <4>2, <4>3
    <3> QED BY <3>1, <3>2
  <2> QED BY <1>1, <1>6, <1>14, <2>1 DEF RecordsRise
<1>17. ASSUME NEW v \in State!Alive, NEW j \in Families PROVE Latest(v, j, mirror[v][j], 0)'
  <2> DEFINE h == mirror[v][j]
  <2>1. /\ v \in Workers /\ Latest(v, j, h, 0) /\ h \in Nat
        /\ \A i \in DOMAIN inbox[v] : inbox[v][i].entries[j] \in Nat
    BY <1>1, <1>6, ChannelTypes DEF RecordsTold
  <2>2. h <= primary'[j] \/ \E o \in DOMAIN outbox'[v] : h <= outbox'[v][o].entries[j]
    <3>1. CASE h <= primary[j]
      BY <1>14, <2>1, <3>1
    <3>2. CASE \E o \in DOMAIN outbox[v] : h <= outbox[v][o].entries[j]
      <4>1. PICK o \in DOMAIN outbox[v] : h <= outbox[v][o].entries[j]
        BY <3>2
      <4>2. CASE v = w /\ o = 1
        <5>1. h <= b.entries[j]
          BY <1>2, <1>4, <4>1, <4>2
        <5>2. b.entries[j] <= primary'[j] /\ b.entries[j] \in Nat
          BY <1>2, <1>4, <1>7, <1>14
        <5> QED BY <1>14, <2>1, <5>1, <5>2
      <4>3. CASE ~(v = w /\ o = 1)
        BY <1>11, <2>1, <4>1, <4>3 DEF Shrunk
      <4> QED BY <4>2, <4>3
    <3> QED BY <2>1, <3>1, <3>2 DEF Latest
  <2>3. \A o \in DOMAIN outbox'[v] : outbox'[v][o].entries[j] <= h
    <3>1. \A o \in DOMAIN outbox'[v] : \E i \in DOMAIN outbox[v] : outbox'[v][o] = outbox[v][i]
      BY <1>11, <2>1 DEF Shrunk
    <3> QED BY <2>1, <3>1 DEF Latest
  <2>4. ASSUME v \in synced
        PROVE  primary'[j] <= h \/ \E i \in DOMAIN inbox'[v] : 0 < i /\ primary'[j] <= inbox'[v][i].entries[j]
    <3>1. CASE j # k
      <4>1. primary[j] <= h \/ \E i \in DOMAIN inbox[v] : 0 < i /\ primary[j] <= inbox[v][i].entries[j]
        BY <2>1, <2>4 DEF Latest
      <4>2. \A i \in DOMAIN inbox[v] : i \in DOMAIN inbox'[v] /\ inbox'[v][i] = inbox[v][i]
        BY <1>11, <2>1 DEF Grown
      <4> QED BY <1>7, <3>1, <4>1, <4>2
    <3>2. CASE j = k /\ v = w
      BY <1>2, <1>7, <2>1, <3>2 DEF Latest, x
    <3>3. CASE j = k /\ v # w
      <4>1. v \in A
        BY <3>3 DEF A
      <4>2. End(v) \in DOMAIN inbox'[v] /\ inbox'[v][End(v)] = b /\ End(v) > 0
        BY <1>11, <4>1 DEF Grown
      <4> QED BY <1>2, <1>4, <1>7, <3>3, <4>2
    <3> QED BY <3>1, <3>2, <3>3
  <2>5. ASSUME NEW i \in DOMAIN inbox'[v]
        PROVE  /\ inbox'[v][i].entries[j] <= primary'[j]
               /\ inbox'[v][i].kind = "record" /\ inbox'[v][i].entries[j] > 0 =>
                    /\ h <= inbox'[v][i].entries[j]
                    /\ \A l \in DOMAIN inbox'[v] : 0 < l /\ l < i =>
                         inbox'[v][l].entries[j] <= inbox'[v][i].entries[j]
    <3>1. CASE i \in DOMAIN inbox[v]
      <4>1. /\ inbox'[v][i] = inbox[v][i] /\ 0 < i
            /\ \A l \in DOMAIN inbox'[v] : l < i => l \in DOMAIN inbox[v] /\ inbox'[v][l] = inbox[v][l]
        <5>1. inbox[v] \in Seq(Messages)
          BY <1>1, <2>1, ChannelTypes
        <5>2. 0 < i /\ i \in Nat
          BY <3>1, <5>1
        <5> QED BY <1>11, <2>1, <3>1, <5>2 DEF Grown
      <4>2. inbox[v][i].entries[j] <= primary[j]
        BY <2>1, <3>1, <4>1 DEF Latest
      <4> QED BY <1>14, <2>1, <3>1, <4>1, <4>2 DEF Latest
    <3>2. CASE v \in A /\ i = End(v)
      <4>1. inbox'[v][i] = b
        BY <1>11, <3>2 DEF Grown
      <4>2. \A l \in DOMAIN inbox'[v] : l < i => l \in DOMAIN inbox[v] /\ inbox'[v][l] = inbox[v][l]
        <5>1. End(v) \in Nat
          BY <1>11, <3>2 DEF Grown
        <5> QED BY <1>11, <2>1, <3>2, <5>1 DEF Grown
      <4>3. CASE j # k
        BY <1>4, <1>14, <4>1, <4>3
      <4>4. CASE j = k
        <5>1. h <= x
          <6>1. h <= primary[j] \/ h <= 0
            BY <1>13, <2>1, <3>2 DEF Latest, A
          <6> QED BY <1>2, <1>7, <1>14, <2>1, <4>4, <6>1
        <5>2. \A l \in DOMAIN inbox'[v] : 0 < l /\ l < i => inbox'[v][l].entries[j] <= x
          <6>1. \A l \in DOMAIN inbox[v] : 0 < l => inbox[v][l].entries[j] <= primary[j]
            BY <2>1 DEF Latest
          <6>2. primary[j] <= x
            BY <1>7, <1>14, <4>4
          <6> QED BY <1>2, <1>14, <2>1, <4>2, <6>1, <6>2
        <5> QED BY <1>2, <1>4, <1>7, <4>1, <4>4, <5>1, <5>2
      <4> QED BY <4>3, <4>4
    <3> QED BY <1>11, <2>1, <3>1, <3>2 DEF Grown
  <2> QED BY <1>1, <1>5, <2>2, <2>3, <2>4, <2>5 DEF Latest
<1>18. RecordsTold'
  BY <1>1, <1>17 DEF RecordsTold
<1> QED BY <1>1, <1>3, <1>11, <1>15, <1>16, <1>18 DEF MirrorInv, RevocationsTold, BlocksTold, OutcomesTold
\* The primary sends what it keeps to a worker that listens.
LEMMA OnListeningKeeps ==
  ASSUME MirrorInv, NEW w \in Workers, State!PrimaryReceive(w), Head(outbox[w]).kind = "listening"
  PROVE  MirrorInv'
<1> DEFINE m == Head(outbox[w])
           E == [k \in Families |-> IF topic = "sched" \/ primary[k] > psNow THEN primary[k] ELSE 0]
           b == State!Message("sync", E, m.key)
           A == IF E = State!None \/ w \notin State!Alive THEN {} ELSE {w}
<1>1. /\ StateTypes /\ psNow \in Nat /\ outbox[w] # <<>>
      /\ outbox' = [outbox EXCEPT ![w] = Tail(@)] /\ State!Handle(w, m)
      /\ UNCHANGED <<topic, psNow, status, leader, mirror, strayed>>
      /\ (State!Alive)' = State!Alive /\ \A v \in State!Alive : v \in Workers
      /\ primary \in Held /\ \A k \in Families : primary[k] \in Nat
  BY DEF MirrorInv, StateTypes, StateAssumption, State!PrimaryReceive, State!Alive, Held
<1>2. /\ m \in Messages /\ Sendable(m) /\ 1 \in DOMAIN outbox[w] /\ m = outbox[w][1]
      /\ m.key \in Families /\ m.kind = "listening"
  BY <1>1, FirstMessage
<1>3. m.entries = State!None
  BY <1>2 DEF Sendable
<1>4. E \in Held
  BY <1>1 DEF Held
<1>5. b \in Messages /\ b.sent = psNow /\ b.kind = "sync" /\ b.entries = E
  <2> HIDE DEF E, m
  <2> QED BY <1>1, <1>2, <1>4, MessageIsTyped
<1>6. /\ synced' = synced \cup ({w} \cap State!Alive) /\ primary' = primary
      /\ inbox' = IF E = State!None \/ w \notin State!Alive THEN inbox
                  ELSE [inbox EXCEPT ![w] = Append(@, b)]
  BY <1>1, <1>2 DEF State!Handle
<1>7. \A k \in Families : /\ E[k] = IF topic = "sched" \/ primary[k] > psNow THEN primary[k] ELSE 0
                          /\ E = State!None => E[k] = 0
  BY NoneIsHeld
<1> HIDE DEF m, E, b
<1>8. Sends(w, A, b)
  <2>1. inbox' = [v \in Workers |-> IF v \in A THEN Append(inbox[v], b) ELSE inbox[v]]
    BY <1>1, <1>6 DEF StateTypes
  <2> QED BY <1>1, <2>1 DEF Sends
<1>9. Broadcastable(b)
  BY <1>1, <1>5, <1>7 DEF Broadcastable, Ahead, StateTypes, StateAssumption
<1>10. A \in SUBSET State!Alive /\ primary' \in Held /\ synced' \subseteq State!Alive
  BY <1>1, <1>6 DEF StateTypes
<1>11. A = {} \/ A = {w}
  OBVIOUS
<1>12. \A v \in State!Alive : v \in synced' /\ v \notin synced => v = w /\ (A = {w} \/ \A k \in Families : E[k] = 0)
  BY <1>6, <1>7
<1>13. StateTypes' /\ ChannelsFit' /\ Grown(A, b) /\ Shrunk(w)
  BY <1>5, <1>8, <1>9, <1>10, ChannelsMove
<1> HIDE DEF A
<1>14. CASE topic = "auth"
  <2>1. ASSUME NEW v \in State!Alive, NEW k \in Families, v \in synced', primary'[k] > psNow
        PROVE  Told(v, k, primary'[k]) \/ (v \in A /\ b.entries[k] >= primary'[k])
    <3>1. CASE v \in synced
      BY <1>6, <1>14, <2>1, <3>1 DEF MirrorInv, RevocationsTold
    <3>2. CASE v \notin synced
      BY <1>1, <1>5, <1>6, <1>7, <1>12, <2>1, <3>2
    <3> QED BY <3>1, <3>2
  <2>2. RevocationsTold'
    BY <1>8, <1>10, <1>13, <1>14, <2>1, ToldStays
  <2> QED BY <1>1, <1>13, <1>14, <2>2 DEF MirrorInv, BlocksTold, OutcomesTold
<1>15. CASE topic = "sf"
  <2>1. ASSUME NEW v \in State!Alive, NEW k \in Families
        PROVE  IF v \in A /\ k \in State!Named(b) THEN MatchesThen(v, k, b.entries[k])
               ELSE \A y \in Nat : Matches(v, k, y) => MatchesThen(v, k, y)
    <3>1. k \in State!Named(b) <=> primary[k] > psNow
      BY <1>1, <1>5, <1>7, <1>15 DEF State!Named
    <3>2. CASE v \in A /\ k \in State!Named(b)
      BY <1>5, <1>6, <1>7, <3>1, <3>2 DEF MatchesThen
    <3>3. CASE ~(v \in A /\ k \in State!Named(b))
      <4>1. primary[k] <= psNow \/ v \in synced \/ v \notin synced'
        BY <1>1, <1>7, <1>12, <3>1, <3>3
      <4> QED BY <1>6, <3>3, <4>1 DEF Matches, MatchesThen
    <3> QED BY <3>2, <3>3
  <2>2. BlocksTold'
    BY <1>8, <1>10, <1>13, <1>15, <2>1, BlocksStay
  <2> QED BY <1>1, <1>13, <1>15, <2>2 DEF MirrorInv, RevocationsTold, OutcomesTold
<1>16. CASE topic = "sched"
  <2>1. OneRecorder /\ RecordsRise /\ RecordsTold
    BY <1>16 DEF MirrorInv, OutcomesTold
  <2>2. ASSUME NEW v \in Workers, NEW i \in DOMAIN outbox'[v]
        PROVE  \E l \in DOMAIN outbox[v] : outbox'[v][i] = outbox[v][l]
    BY <1>13 DEF Shrunk
  <2>3. OneRecorder'
    <3>1. ASSUME NEW v \in Workers, Recorder(v)' PROVE Recorder(v)
      BY <2>2, <3>1 DEF Recorder
    <3>2. ASSUME NEW v \in Workers, leader = v, NEW i \in DOMAIN inbox'[v]
          PROVE  inbox'[v][i].kind # "record"
      BY <1>5, <1>13, <2>1, <3>2 DEF OneRecorder, Grown
    <3> QED BY <1>1, <2>1, <3>1, <3>2 DEF OneRecorder
  <2>4. RecordsRise'
    <3>1. ASSUME NEW v \in Workers, NEW i \in DOMAIN outbox'[v], NEW l \in DOMAIN outbox'[v], i < l
          PROVE  \E p, q \in DOMAIN outbox[v] : p < q /\ outbox'[v][i] = outbox[v][p] /\ outbox'[v][l] = outbox[v][q]
      <4>1. CASE v = w
        <5>1. i \in Nat /\ l \in Nat /\ i + 1 < l + 1 /\ i + 1 \in DOMAIN outbox[v] /\ l + 1 \in DOMAIN outbox[v]
              /\ outbox'[v][i] = outbox[v][i + 1] /\ outbox'[v][l] = outbox[v][l + 1]
          BY <1>13, <3>1, <4>1 DEF Shrunk
        <5> QED BY <5>1
      <4>2. CASE v # w
        <5>1. i \in DOMAIN outbox[v] /\ l \in DOMAIN outbox[v]
              /\ outbox'[v][i] = outbox[v][i] /\ outbox'[v][l] = outbox[v][l]
          BY <1>13, <4>2 DEF Shrunk
        <5> QED BY <3>1, <5>1
      <4> QED BY <4>1, <4>2
    <3>2. ASSUME NEW v \in Workers, NEW k \in Families, NEW i \in DOMAIN outbox'[v]
          PROVE  /\ outbox'[v][i].entries[k] <= psNow
                 /\ outbox'[v][i].entries[k] = 0 \/ primary[k] <= outbox'[v][i].entries[k]
                 /\ \A l \in DOMAIN outbox'[v] : i < l =>
                      outbox'[v][l].entries[k] = 0 \/ outbox'[v][i].entries[k] <= outbox'[v][l].entries[k]
      <4>1. /\ outbox'[v][i].entries[k] <= psNow
            /\ outbox'[v][i].entries[k] = 0 \/ primary[k] <= outbox'[v][i].entries[k]
        BY <2>1, <2>2 DEF RecordsRise
      <4>2. ASSUME NEW l \in DOMAIN outbox'[v], i < l
            PROVE  outbox'[v][l].entries[k] = 0 \/ outbox'[v][i].entries[k] <= outbox'[v][l].entries[k]
        <5>1. PICK p, q \in DOMAIN outbox[v] :
                p < q /\ outbox'[v][i] = outbox[v][p] /\ outbox'[v][l] = outbox[v][q]
          BY <3>1, <4>2
        <5> QED BY <2>1, <5>1 DEF RecordsRise
      <4> QED BY <4>1, <4>2
    <3> QED BY <1>1, <1>6, <2>1, <3>2 DEF RecordsRise
  <2>5. ASSUME NEW v \in State!Alive, NEW k \in Families PROVE Latest(v, k, mirror[v][k], 0)'
    <3> DEFINE h == mirror[v][k]
    <3>1. /\ v \in Workers /\ Latest(v, k, h, 0) /\ h \in Nat
          /\ E[k] = primary[k]
          /\ \A o \in DOMAIN outbox[v] : outbox[v][o].entries[k] \in Nat
      BY <1>1, <1>7, <1>16, <2>1, ChannelTypes DEF RecordsTold
    <3>2. h <= primary[k] \/ \E o \in DOMAIN outbox'[v] : h <= outbox'[v][o].entries[k]
      <4>1. ASSUME NEW o \in DOMAIN outbox[v], h <= outbox[v][o].entries[k]
            PROVE  h <= primary[k] \/ \E i \in DOMAIN outbox'[v] : h <= outbox'[v][i].entries[k]
        <5>1. CASE v = w /\ o = 1
          <6>1. outbox[v][o].entries[k] = 0
            BY <1>2, <1>3, <5>1, NoneIsHeld
          <6> QED BY <1>1, <3>1, <4>1, <6>1
        <5>2. CASE ~(v = w /\ o = 1)
          BY <1>13, <3>1, <4>1, <5>2 DEF Shrunk
        <5> QED BY <5>1, <5>2
      <4> QED BY <3>1, <4>1 DEF Latest
    <3>3. \A o \in DOMAIN outbox'[v] : outbox'[v][o].entries[k] <= h
      BY <2>2, <3>1 DEF Latest
    <3>4. ASSUME v \in synced'
          PROVE  primary[k] <= h \/ \E i \in DOMAIN inbox'[v] : 0 < i /\ primary[k] <= inbox'[v][i].entries[k]
      <4>1. CASE v \in synced
        BY <1>13, <3>1, <4>1 DEF Latest, Grown
      <4>2. CASE v = w /\ A = {w}
        <5>1. End(v) \in DOMAIN inbox'[v] /\ inbox'[v][End(v)] = b /\ End(v) > 0
          BY <1>13, <4>2 DEF Grown
        <5> QED BY <1>1, <1>5, <3>1, <5>1
      <4>3. CASE \A j \in Families : E[j] = 0
        BY <3>1, <4>3
      <4> QED BY <1>12, <3>4, <4>1, <4>2, <4>3
    <3>5. ASSUME NEW i \in DOMAIN inbox'[v]
          PROVE  /\ inbox'[v][i].entries[k] <= primary[k]
                 /\ inbox'[v][i].kind = "record" /\ inbox'[v][i].entries[k] > 0 =>
                      /\ h <= inbox'[v][i].entries[k]
                      /\ \A l \in DOMAIN inbox'[v] : 0 < l /\ l < i =>
                           inbox'[v][l].entries[k] <= inbox'[v][i].entries[k]
      <4>1. CASE i \in DOMAIN inbox[v]
        <5>1. /\ inbox'[v][i] = inbox[v][i] /\ 0 < i
              /\ \A l \in DOMAIN inbox'[v] : l < i => l \in DOMAIN inbox[v] /\ inbox'[v][l] = inbox[v][l]
          <6>1. inbox[v] \in Seq(Messages)
            BY <1>1, <3>1, ChannelTypes
          <6>2. 0 < i /\ i \in Nat
            BY <4>1, <6>1
          <6> QED BY <1>13, <3>1, <4>1, <6>2 DEF Grown
        <5> QED BY <3>1, <4>1, <5>1 DEF Latest
      <4>2. CASE v \in A /\ i = End(v)
        <5>1. inbox'[v][i] = b
          BY <1>13, <4>2 DEF Grown
        <5> QED BY <1>1, <1>5, <3>1, <5>1
      <4> QED BY <1>13, <3>1, <4>1, <4>2 DEF Grown
    <3> QED BY <1>1, <1>6, <3>2, <3>3, <3>4, <3>5 DEF Latest
  <2>6. RecordsTold'
    BY <1>1, <2>5 DEF RecordsTold
  <2> QED BY <1>1, <1>13, <1>16, <2>3, <2>4, <2>6 DEF MirrorInv, RevocationsTold, BlocksTold, OutcomesTold
<1> QED BY <1>1, <1>14, <1>15, <1>16 DEF StateTypes, StateAssumption
-----------------------------------------------------------------------------
(* PrimaryState: its theorem                                               *)

LEMMA MirrorInvInit == State!Init => MirrorInv
<1> SUFFICES ASSUME State!Init PROVE MirrorInv
  OBVIOUS
<1>1. /\ topic \in {"auth", "sf", "sched"} /\ psNow = 1
      /\ status = [w \in Workers |-> IF w \in Spares THEN "unborn" ELSE "listening"]
      /\ mirror = [w \in Workers |-> State!None] /\ primary = State!None
      /\ outbox = [w \in Workers |-> <<>>] /\ inbox = [w \in Workers |-> <<>>]
      /\ synced = Workers \ Spares /\ strayed = [w \in Workers |-> {}]
  BY DEF State!Init
<1>2. \A w \in Workers : /\ mirror[w] = State!None /\ strayed[w] = {}
                         /\ inbox[w] = <<>> /\ outbox[w] = <<>>
  BY <1>1
<1>3. \A k \in Families : primary[k] = 0 /\ State!None[k] = 0
  BY <1>1, NoneIsHeld
<1>4. StateTypes
  BY <1>1, NoneIsHeld DEF StateTypes, StateAssumption, State!Alive
<1>5. ChannelsFit
  BY <1>2 DEF ChannelsFit
<1>6. RevocationsTold
  BY <1>1, <1>2, <1>3 DEF RevocationsTold, State!Alive
<1>7. BlocksTold
  BY <1>2, <1>3 DEF BlocksTold, State!Alive, Matches
<1>8. OneRecorder
  BY <1>2 DEF OneRecorder, Recorder
<1>9. RecordsRise
  BY <1>1, <1>2, <1>3 DEF RecordsRise
<1>10. RecordsTold
  BY <1>2, <1>3 DEF RecordsTold, Latest, State!Alive
<1> QED BY <1>4, <1>5, <1>6, <1>7, <1>8, <1>9, <1>10 DEF MirrorInv, OutcomesTold

LEMMA MirrorInvStutter == MirrorInv /\ UNCHANGED State!vars => MirrorInv'
<1> SUFFICES ASSUME MirrorInv, UNCHANGED State!vars PROVE MirrorInv'
  OBVIOUS
<1>1. /\ UNCHANGED <<topic, psNow, status, leader, mirror, primary, outbox, inbox, synced, strayed>>
      /\ (State!Alive)' = State!Alive
  BY DEF State!vars, State!Alive
<1>2. StateTypes'
  BY <1>1 DEF MirrorInv, StateTypes, StateAssumption
<1>3. ChannelsFit'
  BY <1>1 DEF MirrorInv, ChannelsFit, Sendable, Broadcastable, NamesOne, Ahead
<1>4. RevocationsTold'
  BY <1>1 DEF MirrorInv, RevocationsTold, Told, Keeps, State!Copy
<1>5. BlocksTold'
  BY <1>1 DEF MirrorInv, BlocksTold, Matches, State!Named
<1>6. OutcomesTold'
  BY <1>1 DEF MirrorInv, OutcomesTold, OneRecorder, Recorder, RecordsRise, RecordsTold, Latest
<1> QED BY <1>2, <1>3, <1>4, <1>5, <1>6 DEF MirrorInv

LEMMA MirrorInvStep == MirrorInv /\ [State!Next]_State!vars => MirrorInv'
<1> SUFFICES ASSUME MirrorInv, State!Next PROVE MirrorInv'
  BY MirrorInvStutter
<1>1. CASE State!Tick
  BY <1>1, TickKeeps
<1>2. ASSUME NEW w \in Workers,
             State!Receive(w) \/ State!Listen(w) \/ State!Exit(w) \/ State!Fork(w) \/ State!PrimaryReceive(w)
      PROVE  MirrorInv'
  <2>1. CASE State!Receive(w)
    BY <2>1, ReceiveKeeps
  <2>2. CASE State!Listen(w)
    <3>1. PICK k \in Families : TRUE
      BY MirrorsAssumption
    <3> QED BY <2>2, <3>1, QuietKeep
  <2>3. CASE State!Exit(w)
    BY <2>3, ExitKeeps
  <2>4. CASE State!Fork(w)
    BY <2>4, ForkKeeps
  <2>5. CASE State!PrimaryReceive(w)
    <3>1. Head(outbox[w]).kind \in {"revoke", "record", "strike", "unblock", "listening"}
      BY <2>5 DEF State!PrimaryReceive, State!Handle
    <3> QED BY <2>5, <3>1, OnRevokeKeeps, OnRecordKeeps, OnStrikeKeeps, OnUnblockKeeps, OnListeningKeeps
  <2> QED BY <1>2, <2>1, <2>2, <2>3, <2>4, <2>5
<1>3. ASSUME NEW w \in Workers, NEW k \in Families,
             State!Revoke(w, k) \/ State!IsRevoked(w, k) \/ State!Record(w, k) \/ State!Strike(w, k)
               \/ State!Unblock(w, k) \/ State!UnblockDegraded(w, k)
      PROVE  MirrorInv'
  BY <1>3, RevokeKeeps, IsRevokedKeeps, RecordKeeps, QuietKeep, UnblockDegradedKeeps
<1> QED BY <1>1, <1>2, <1>3 DEF State!Next

\* A worker that listens agrees with the primary once it has read what is under way to
\* it, whatever is late, and whoever exits, starts or gives up on its own.
THEOREM MirrorsFollow == State!Spec => []State!MirrorsAgree
BY MirrorInvInit, MirrorInvStep, MirrorInvAgrees, PTL DEF State!Spec

LEMMA MirrorSteps == [Next]_vars => [State!Next]_State!vars
<1> SUFFICES ASSUME [Next]_vars, ~State!Next PROVE UNCHANGED State!vars
  OBVIOUS
<1>1. UNCHANGED state
  BY DEF Next, vars
<1> QED BY <1>1 DEF state, State!vars

\* For any workers, keys, lifetimes, thresholds and delays that the validators tolerate,
\* every mirror of the composition agrees with the primary.
THEOREM MirrorsAgreeTheorem == Spec => []MirrorsAgree
<1>1. Init => MirrorInv
  BY MirrorInvInit DEF Init
<1>2. MirrorInv /\ [Next]_vars => MirrorInv'
  BY MirrorInvStep, MirrorSteps
<1>3. MirrorInv => MirrorsAgree
  BY MirrorInvAgrees DEF MirrorsAgree
<1> QED BY <1>1, <1>2, <1>3, PTL DEF Spec

-----------------------------------------------------------------------------
(* RequestCache                                                            *)

Open     == Request!Open
AnyKey   == PageKeys \cup {NoKey}
Fetches  == [at : {"free", "asked", "served"}, key : AnyKey, version : Nat, old : BOOLEAN]
Entries  == [version : Nat, fresh : BOOLEAN, late : BOOLEAN]
Shown    == [key : AnyKey, version : Nat, late : BOOLEAN]
Screens  == [on : BOOLEAN, key : AnyKey, data : Shown, loading : BOOLEAN,
             error : BOOLEAN, waits : Open \cup {0}]

PageTypes ==
  /\ dataAt \in [PageKeys -> Nat] /\ floor \in [PageKeys -> Nat]
  /\ fetch \in [Open -> Fetches]
  /\ inFlight \in [PageKeys -> Open \cup {0}]
  /\ pageCache \in [PageKeys -> Entries]
  /\ screen \in [Views -> Screens]

\* Request f is under way for key k, which was not invalidated since.
Current(f, k) == fetch[f].at # "free" /\ fetch[f].key = k /\ ~fetch[f].old

\* What a request brings is as new as its key's last invalidation, or known to be old.
AnswersAreRecent ==
  \A f \in Open :
    fetch[f].at # "free" =>
      /\ fetch[f].key \in PageKeys
      /\ fetch[f].at = "served" => fetch[f].old \/ fetch[f].version >= floor[fetch[f].key]

CacheIsRecent ==
  \A k \in PageKeys : pageCache[k].fresh => pageCache[k].version >= floor[k] \/ pageCache[k].late

\* A request that can be joined, or is awaited for the key shown, is current.
AwaitedIsCurrent ==
  /\ \A k \in PageKeys : inFlight[k] # 0 => Current(inFlight[k], k)
  /\ \A v \in Views : screen[v].waits # 0 =>
       /\ fetch[screen[v].waits].at # "free"
       /\ Request!Active(screen[v]) => Current(screen[v].waits, screen[v].key)

ShowsRight(w) ==
  Request!Active(w) /\ ~w.loading /\ ~w.error => Request!OwnData(w) /\ Request!Recent(w)

PageInv ==
  /\ PageTypes
  /\ \A k \in PageKeys : floor[k] <= dataAt[k]
  /\ AnswersAreRecent /\ CacheIsRecent /\ AwaitedIsCurrent
  /\ \A v \in Views : ShowsRight(screen[v])

LEMMA PageInvInit == ASSUME Request!Init PROVE PageInv
<1>1. /\ dataAt = [k \in PageKeys |-> 1] /\ floor = [k \in PageKeys |-> 0]
      /\ fetch = [f \in Open |-> Request!NoFetch] /\ inFlight = [k \in PageKeys |-> 0]
      /\ pageCache = [k \in PageKeys |-> Request!NoEntry] /\ screen = [v \in Views |-> Request!Off]
  BY DEF Request!Init, Open
<1>2. /\ Request!NoFetch \in Fetches /\ Request!NoFetch.at = "free"
      /\ Request!NoEntry \in Entries /\ Request!NoEntry.fresh = FALSE
      /\ Request!Off \in Screens /\ Request!Off.on = FALSE /\ Request!Off.waits = 0
  BY DEF Request!NoFetch, Request!NoEntry, Request!Off, Request!NoData, Fetches, Entries, Screens,
     Shown, AnyKey
<1>3. PageTypes
  BY <1>1, <1>2 DEF PageTypes
<1>4. AnswersAreRecent /\ CacheIsRecent /\ AwaitedIsCurrent
  BY <1>1, <1>2 DEF AnswersAreRecent, CacheIsRecent, AwaitedIsCurrent
<1>5. \A v \in Views : ShowsRight(screen[v])
  BY <1>1, <1>2 DEF ShowsRight, Request!Active
<1>6. \A k \in PageKeys : floor[k] <= dataAt[k]
  BY <1>1
<1> QED BY <1>3, <1>4, <1>5, <1>6 DEF PageInv

\* A request that is asked or joined is current, and what was under way still is.
LEMMA AsksIs ==
  ASSUME PageInv, NEW k \in PageKeys, NEW f \in Open, Request!Joins(k, f), Request!Asks(k, f)
  PROVE  /\ fetch' \in [Open -> Fetches] /\ inFlight' = [inFlight EXCEPT ![k] = f]
         /\ Current(f, k)'
         /\ \A g \in Open : fetch[g].at # "free" => fetch'[g] = fetch[g]
         /\ \A g \in Open : fetch'[g] = fetch[g] \/ (fetch'[g].at = "asked" /\ fetch'[g].key = k)
<1>1. f # 0 /\ fetch \in [Open -> Fetches] /\ inFlight \in [PageKeys -> Open \cup {0}]
  BY PagesAssumption DEF PageInv, PageTypes, Open, Request!Open
<1>2. CASE inFlight[k] = f
  <2>1. fetch' = fetch /\ inFlight' = [inFlight EXCEPT ![k] = f]
    BY <1>2 DEF Request!Asks
  <2>2. Current(f, k)
    BY <1>1, <1>2 DEF PageInv, AwaitedIsCurrent
  <2>3. Current(f, k)'
    BY <2>1, <2>2 DEF Current
  <2> QED BY <1>1, <2>1, <2>3
<1>3. CASE inFlight[k] # f
  <2> DEFINE new == [Request!NoFetch EXCEPT !.at = "asked", !.key = k]
  <2>1. new \in Fetches /\ new.at = "asked" /\ new.key = k /\ new.old = FALSE
    BY DEF Request!NoFetch, Fetches, AnyKey
  <2>2. fetch' = [fetch EXCEPT ![f] = new] /\ inFlight' = [inFlight EXCEPT ![k] = f]
    BY <1>3 DEF Request!Asks
  <2>3. fetch[f].at = "free"
    BY <1>3 DEF Request!Joins
  <2> HIDE DEF new
  <2>4. fetch' \in [Open -> Fetches] /\ fetch'[f] = new /\ \A g \in Open : g # f => fetch'[g] = fetch[g]
    BY <1>1, <2>1, <2>2
  <2>5. Current(f, k)'
    BY <2>1, <2>4 DEF Current
  <2>6. \A g \in Open : fetch[g].at # "free" => fetch'[g] = fetch[g]
    BY <2>3, <2>4
  <2>7. \A g \in Open : fetch'[g] = fetch[g] \/ (fetch'[g].at = "asked" /\ fetch'[g].key = k)
    BY <2>1, <2>4
  <2> QED BY <2>2, <2>4, <2>5, <2>6, <2>7
<1> QED BY <1>2, <1>3

\* execute() on a view in state w.
LEMMA ExecuteKeeps ==
  ASSUME PageInv, NEW v \in Views, NEW w \in Screens, NEW force \in BOOLEAN,
         w.waits # 0 => fetch[w.waits].at # "free",
         Request!Execute(v, w, force), UNCHANGED <<dataAt, owed, pageCache, floor>>
  PROVE  PageInv'
<1>1. PageTypes /\ AnswersAreRecent /\ CacheIsRecent /\ AwaitedIsCurrent
  BY DEF PageInv
<1>2. CacheIsRecent' /\ (\A k \in PageKeys : floor[k] <= dataAt[k])'
  BY DEF CacheIsRecent, PageInv
<1>3. Request!Active(w) => w.key \in PageKeys
  BY DEF Request!Active, Screens, AnyKey
<1>4. ASSUME NEW x \in Screens, screen' = [screen EXCEPT ![v] = x], fetch' \in [Open -> Fetches],
             inFlight' \in [PageKeys -> Open \cup {0}], AnswersAreRecent',
             \A k \in PageKeys : inFlight'[k] # 0 => Current(inFlight[k], k)',
             \A g \in Open : fetch[g].at # "free" => fetch'[g] = fetch[g],
             x.waits # 0 => fetch'[x.waits].at # "free",
             x.waits # 0 /\ Request!Active(x) => Current(x.waits, x.key)',
             ShowsRight(x)
      PROVE  PageInv'
  <2>1. screen' \in [Views -> Screens] /\ screen'[v] = x
        /\ \A u \in Views : u # v => screen'[u] = screen[u]
    BY <1>1, <1>4 DEF PageTypes
  <2>2. PageTypes'
    BY <1>1, <1>4, <2>1 DEF PageTypes
  <2>3. ASSUME NEW u \in Views, screen'[u].waits # 0
        PROVE  /\ fetch'[screen'[u].waits].at # "free"
               /\ Request!Active(screen'[u]) => Current(screen[u].waits, screen[u].key)'
    <3>1. CASE u = v
      BY <1>4, <2>1, <2>3, <3>1 DEF Current
    <3>2. CASE u # v
      <4>1. screen'[u] = screen[u] /\ screen[u] \in Screens
        BY <1>1, <2>1, <3>2 DEF PageTypes
      <4>2. screen[u].waits \in Open
        BY <2>3, <4>1 DEF Screens
      <4>3. fetch[screen[u].waits].at # "free"
            /\ (Request!Active(screen[u]) => Current(screen[u].waits, screen[u].key))
        BY <1>1, <2>3, <4>1 DEF AwaitedIsCurrent
      <4> QED BY <1>4, <4>1, <4>2, <4>3 DEF Current
    <3> QED BY <3>1, <3>2
  <2>4. AwaitedIsCurrent'
    BY <1>4, <2>3 DEF AwaitedIsCurrent
  <2>5. \A u \in Views : ShowsRight(screen[u])'
    <3>1. ASSUME NEW u \in Views PROVE ShowsRight(screen[u])'
      <4>1. ShowsRight(screen'[u])
        BY <1>4, <2>1, <3>1 DEF PageInv
      <4> QED BY <4>1 DEF ShowsRight, Request!OwnData, Request!Recent, Request!Active
    <3> QED BY <3>1
  <2> QED BY <1>2, <1>4, <2>2, <2>4, <2>5 DEF PageInv
<1>5. CASE ~Request!Active(w) /\ screen' = [screen EXCEPT ![v] = w] /\ UNCHANGED <<fetch, inFlight>>
  <2>1. ShowsRight(w)
    BY <1>5 DEF ShowsRight
  <2>2. AnswersAreRecent'
    BY <1>1, <1>5 DEF AnswersAreRecent
  <2>3. \A k \in PageKeys : inFlight'[k] # 0 => Current(inFlight[k], k)'
    BY <1>1, <1>5 DEF AwaitedIsCurrent, Current
  <2> QED BY <1>1, <1>4, <1>5, <2>1, <2>2, <2>3 DEF PageTypes
<1>6. CASE /\ Request!Active(w) /\ pageCache[w.key].fresh
           /\ screen' = [screen EXCEPT ![v] = Request!Shows(w, Request!Cached(w.key))]
           /\ UNCHANGED <<fetch, inFlight>>
  <2> DEFINE x == Request!Shows(w, Request!Cached(w.key))
  <2>1. /\ x \in Screens /\ x.waits = 0 /\ x.key = w.key
        /\ x.data = [key |-> w.key, version |-> pageCache[w.key].version, late |-> pageCache[w.key].late]
    <3>1. Request!Cached(w.key) \in Shown
      BY <1>1, <1>3, <1>6 DEF PageTypes, Entries, Shown, Request!Cached, AnyKey
    <3> QED BY <3>1 DEF Request!Shows, Screens, Request!Cached
  <2>2. ShowsRight(x)
    <3>1. pageCache[w.key].version >= floor[w.key] \/ pageCache[w.key].late
      BY <1>1, <1>3, <1>6 DEF CacheIsRecent
    <3> HIDE DEF x
    <3> QED BY <2>1, <3>1 DEF ShowsRight, Request!OwnData, Request!Recent
  <2>3. AnswersAreRecent'
    BY <1>1, <1>6 DEF AnswersAreRecent
  <2>4. \A k \in PageKeys : inFlight'[k] # 0 => Current(inFlight[k], k)'
    BY <1>1, <1>6 DEF AwaitedIsCurrent, Current
  <2> HIDE DEF x
  <2> QED BY <1>1, <1>4, <1>6, <2>1, <2>2, <2>3, <2>4 DEF PageTypes, x
<1>7. ASSUME Request!Active(w), NEW f \in Open, Request!Joins(w.key, f), Request!Asks(w.key, f),
             screen' = [screen EXCEPT ![v] = Request!Loads(w, f)]
      PROVE  PageInv'
  <2> DEFINE k == w.key
             x == Request!Loads(w, f)
  <2>0. k \in PageKeys
    BY <1>3, <1>7
  <2>1. x \in Screens /\ x.waits = f /\ x.key = k /\ x.loading = TRUE
    BY DEF Request!Loads, Screens
  <2>2. /\ fetch' \in [Open -> Fetches] /\ inFlight' = [inFlight EXCEPT ![k] = f]
        /\ Current(f, k)'
        /\ \A g \in Open : fetch[g].at # "free" => fetch'[g] = fetch[g]
        /\ \A g \in Open : fetch'[g] = fetch[g] \/ (fetch'[g].at = "asked" /\ fetch'[g].key = k)
    BY <1>7, <2>0, AsksIs
  <2>3. ShowsRight(x)
    BY <2>1 DEF ShowsRight
  <2> HIDE DEF x, k
  <2>4. AnswersAreRecent'
    BY <1>1, <2>0, <2>2 DEF AnswersAreRecent
  <2>5. inFlight' \in [PageKeys -> Open \cup {0}]
    BY <1>1, <2>2 DEF PageTypes
  <2>6. ASSUME NEW j \in PageKeys, inFlight'[j] # 0 PROVE Current(inFlight[j], j)'
    <3>1. CASE j = k
      BY <1>1, <2>0, <2>2, <3>1 DEF PageTypes, Current
    <3>2. CASE j # k
      <4>1. inFlight'[j] = inFlight[j] /\ inFlight[j] \in Open
        BY <1>1, <2>2, <2>6, <3>2 DEF PageTypes
      <4>2. Current(inFlight[j], j)
        BY <1>1, <2>6, <4>1 DEF AwaitedIsCurrent
      <4> QED BY <2>2, <4>1, <4>2 DEF Current
    <3> QED BY <3>1, <3>2
  <2>7. fetch'[f].at # "free" /\ Current(x.waits, x.key)'
    <3>1. Current(f, k)' /\ x' = x /\ x.waits = f /\ x.key = k
      BY <2>1, <2>2 DEF x
    <3> QED BY <3>1, <2>1 DEF Current
  <2> QED BY <1>4, <1>7, <2>1, <2>2, <2>3, <2>4, <2>5, <2>6, <2>7 DEF x, k
<1> QED BY <1>5, <1>6, <1>7 DEF Request!Execute, Open

LEMMA ViewKeeps ==
  ASSUME PageInv, NEW v \in Views, NEW k \in AnyKey,
         Request!Mount(v, k) \/ Request!Change(v, k) \/ Request!Refetch(v) \/ Request!Unmount(v)
  PROVE  PageInv'
<1>1. screen \in [Views -> Screens] /\ screen[v] \in Screens /\ pageCache \in [PageKeys -> Entries]
  BY DEF PageInv, PageTypes
<1>2. Request!Off \in Screens /\ Request!Off.on = FALSE /\ Request!Off.waits = 0
  BY DEF Request!Off, Request!NoData, Screens, Shown, AnyKey
<1>3. screen[v].waits # 0 => fetch[screen[v].waits].at # "free"
  BY DEF PageInv, AwaitedIsCurrent
<1>4. CASE Request!Mount(v, k)
  <2> DEFINE hit == k # NoKey /\ pageCache[k] # Request!NoEntry
             w == [Request!Off EXCEPT !.on = TRUE, !.key = k,
                     !.data = IF hit THEN Request!Cached(k) ELSE Request!NoData,
                     !.loading = IF hit THEN ~pageCache[k].fresh ELSE k # NoKey]
  <2>1. Request!Execute(v, w, FALSE) /\ UNCHANGED <<dataAt, owed, pageCache, floor>>
    BY <1>4 DEF Request!Mount
  <2>2. hit => Request!Cached(k) \in Shown /\ pageCache[k].fresh \in BOOLEAN
    BY <1>1 DEF Request!Cached, Entries, Shown, AnyKey
  <2>3. Request!NoData \in Shown
    BY DEF Request!NoData, Shown, AnyKey
  <2>4. w \in Screens /\ w.waits = 0
    BY <1>2, <2>2, <2>3 DEF Screens
  <2> HIDE DEF w
  <2> QED BY <2>1, <2>4, ExecuteKeeps
<1>5. CASE Request!Change(v, k)
  <2> DEFINE w == [screen[v] EXCEPT !.key = k]
  <2>1. w \in Screens /\ w.waits = screen[v].waits
    BY <1>1 DEF Screens
  <2>2. Request!Execute(v, w, FALSE) /\ UNCHANGED <<dataAt, owed, pageCache, floor>>
    BY <1>5 DEF Request!Change
  <2> HIDE DEF w
  <2> QED BY <1>3, <2>1, <2>2, ExecuteKeeps
<1>6. CASE Request!Refetch(v)
  BY <1>1, <1>3, <1>6, ExecuteKeeps DEF Request!Refetch
<1>7. CASE Request!Unmount(v)
  <2>1. /\ screen' \in [Views -> Screens] /\ screen'[v] = Request!Off
        /\ \A u \in Views : u # v => screen'[u] = screen[u]
    BY <1>1, <1>2, <1>7 DEF Request!Unmount
  <2>2. UNCHANGED <<dataAt, owed, fetch, inFlight, pageCache, floor>>
    BY <1>7 DEF Request!Unmount
  <2>3. PageTypes' /\ AnswersAreRecent' /\ CacheIsRecent' /\ (\A j \in PageKeys : floor[j] <= dataAt[j])'
    BY <2>1, <2>2 DEF PageInv, PageTypes, AnswersAreRecent, CacheIsRecent
  <2>4. ~Request!Active(Request!Off)
    BY <1>2 DEF Request!Active
  <2>5. AwaitedIsCurrent'
    <3>1. \A j \in PageKeys : inFlight'[j] # 0 => Current(inFlight[j], j)'
      BY <2>2 DEF PageInv, AwaitedIsCurrent, Current
    <3>2. ASSUME NEW u \in Views, screen'[u].waits # 0
          PROVE  /\ fetch'[screen'[u].waits].at # "free"
                 /\ Request!Active(screen'[u]) => Current(screen[u].waits, screen[u].key)'
      BY <1>2, <2>1, <2>2, <3>2 DEF PageInv, AwaitedIsCurrent, Current
    <3> QED BY <3>1, <3>2 DEF AwaitedIsCurrent
  <2>6. \A u \in Views : ShowsRight(screen[u])'
    BY <2>1, <2>2, <2>4 DEF PageInv, ShowsRight, Request!OwnData, Request!Recent, Request!Active
  <2> QED BY <2>3, <2>5, <2>6 DEF PageInv
<1> QED BY <1>4, <1>5, <1>6, <1>7

LEMMA ServeKeeps == ASSUME PageInv, NEW f \in Open, Request!Serve(f) PROVE PageInv'
<1>1. PageTypes /\ AnswersAreRecent /\ AwaitedIsCurrent
  BY DEF PageInv
<1>2. fetch \in [Open -> Fetches] /\ fetch[f].at = "asked" /\ fetch[f].key \in PageKeys
  BY <1>1 DEF PageTypes, AnswersAreRecent, Request!Serve
<1> DEFINE k == fetch[f].key
           x == [fetch[f] EXCEPT !.at = "served", !.version = dataAt[k]]
<1>3. fetch' = [fetch EXCEPT ![f] = x] /\ UNCHANGED <<dataAt, owed, inFlight, pageCache, screen, floor>>
  BY <1>2 DEF Request!Serve
<1>4. /\ x \in Fetches /\ x.at = "served" /\ x.key = k /\ x.old = fetch[f].old /\ x.version = dataAt[k]
  BY <1>1, <1>2 DEF Fetches, PageTypes
<1>5. fetch' \in [Open -> Fetches] /\ fetch'[f] = x /\ \A g \in Open : g # f => fetch'[g] = fetch[g]
  BY <1>2, <1>3, <1>4
<1>6. floor[k] <= dataAt[k]
  BY <1>2 DEF PageInv
<1> HIDE DEF x, k
<1>7. PageTypes' /\ CacheIsRecent' /\ (\A j \in PageKeys : floor[j] <= dataAt[j])'
  BY <1>3, <1>5 DEF PageInv, PageTypes, CacheIsRecent
<1>8. AnswersAreRecent'
  BY <1>1, <1>2, <1>3, <1>4, <1>5, <1>6 DEF AnswersAreRecent, PageTypes, k
<1>9. \A g \in Open, j \in PageKeys : Current(g, j) => Current(g, j)'
  BY <1>2, <1>4, <1>5 DEF Current, k
<1>10. \A g \in Open : fetch[g].at # "free" => fetch'[g].at # "free"
  BY <1>4, <1>5
<1>11. AwaitedIsCurrent'
  <2>1. ASSUME NEW j \in PageKeys, inFlight'[j] # 0 PROVE Current(inFlight[j], j)'
    BY <1>1, <1>3, <1>9, <2>1 DEF PageTypes, AwaitedIsCurrent, Current
  <2>2. ASSUME NEW u \in Views, screen'[u].waits # 0
        PROVE  /\ fetch'[screen'[u].waits].at # "free"
               /\ Request!Active(screen'[u]) => Current(screen[u].waits, screen[u].key)'
    <3>1. screen'[u] = screen[u] /\ screen[u] \in Screens /\ screen[u].waits \in Open
      BY <1>1, <1>3, <2>2 DEF PageTypes, Screens
    <3>2. Request!Active(screen[u]) => screen[u].key \in PageKeys
      BY <3>1 DEF Request!Active, Screens, AnyKey
    <3> QED BY <1>1, <1>9, <1>10, <2>2, <3>1, <3>2 DEF AwaitedIsCurrent, Current
  <2> QED BY <2>1, <2>2 DEF AwaitedIsCurrent
<1>12. \A u \in Views : ShowsRight(screen[u])'
  BY <1>3 DEF PageInv, ShowsRight, Request!OwnData, Request!Recent, Request!Active
<1> QED BY <1>7, <1>8, <1>11, <1>12 DEF PageInv

\* A request ends: the cache is written or not, whoever awaits it goes on as x says.
LEMMA EndsKeep ==
  ASSUME PageInv, NEW f \in Open, fetch[f].at # "free", NEW x,
         fetch' = [fetch EXCEPT ![f] = Request!NoFetch],
         inFlight' = [inFlight EXCEPT ![fetch[f].key] = 0],
         UNCHANGED <<dataAt, owed, floor>>,
         pageCache' \in [PageKeys -> Entries], CacheIsRecent',
         screen' = [v \in Views |-> IF screen[v].waits = f THEN x[v] ELSE screen[v]],
         \A v \in Views : screen[v].waits = f => x[v] \in Screens /\ x[v].waits = 0 /\ ShowsRight(x[v])
  PROVE  PageInv'
<1>1. PageTypes /\ AnswersAreRecent /\ AwaitedIsCurrent
  BY DEF PageInv
<1>2. Request!NoFetch \in Fetches /\ Request!NoFetch.at = "free"
  BY DEF Request!NoFetch, Fetches, AnyKey
<1>3. fetch' \in [Open -> Fetches] /\ fetch'[f] = Request!NoFetch
      /\ \A g \in Open : g # f => fetch'[g] = fetch[g]
  BY <1>1, <1>2 DEF PageTypes
<1>4. fetch[f].key \in PageKeys
  BY <1>1 DEF AnswersAreRecent
<1>5. /\ inFlight' \in [PageKeys -> Open \cup {0}] /\ inFlight'[fetch[f].key] = 0
      /\ \A j \in PageKeys : j # fetch[f].key => inFlight'[j] = inFlight[j]
  BY <1>1, <1>4 DEF PageTypes
<1>6. screen' \in [Views -> Screens]
  BY <1>1 DEF PageTypes
<1>7. PageTypes' /\ (\A j \in PageKeys : floor[j] <= dataAt[j])'
  BY <1>1, <1>3, <1>5, <1>6 DEF PageTypes, PageInv
<1>8. AnswersAreRecent'
  BY <1>1, <1>2, <1>3 DEF AnswersAreRecent
<1>9. ASSUME NEW j \in PageKeys, inFlight'[j] # 0 PROVE Current(inFlight[j], j)'
  <2>1. j # fetch[f].key /\ inFlight'[j] = inFlight[j] /\ inFlight[j] \in Open
    BY <1>1, <1>5, <1>9 DEF PageTypes
  <2>2. Current(inFlight[j], j)
    BY <1>1, <1>9, <2>1 DEF AwaitedIsCurrent
  <2>3. inFlight[j] # f
    BY <2>1, <2>2 DEF Current
  <2> QED BY <1>3, <2>1, <2>2, <2>3 DEF Current
<1>10. ASSUME NEW u \in Views, screen'[u].waits # 0
       PROVE  /\ fetch'[screen'[u].waits].at # "free"
              /\ Request!Active(screen'[u]) => Current(screen[u].waits, screen[u].key)'
  <2>1. screen'[u] = screen[u] /\ screen[u].waits # f
    BY <1>10
  <2>2. screen[u].waits \in Open
    BY <1>1, <1>10, <2>1 DEF PageTypes, Screens
  <2>3. fetch'[screen[u].waits] = fetch[screen[u].waits]
    BY <1>3, <2>1, <2>2
  <2> QED BY <1>1, <1>10, <2>1, <2>3 DEF AwaitedIsCurrent, Current
<1>11. ASSUME NEW u \in Views PROVE ShowsRight(screen[u])'
  <2>1. ShowsRight(screen'[u])
    BY DEF PageInv
  <2> QED BY <2>1 DEF ShowsRight, Request!OwnData, Request!Recent, Request!Active
<1> QED BY <1>7, <1>8, <1>9, <1>10, <1>11 DEF PageInv, AwaitedIsCurrent

LEMMA AnswerKeeps ==
  ASSUME PageInv, NEW f \in Open, Request!Resolve(f) \/ Request!Reject(f)
  PROVE  PageInv'
<1>1. PageTypes /\ AnswersAreRecent /\ AwaitedIsCurrent /\ CacheIsRecent /\ fetch[f] \in Fetches
  BY DEF PageInv, PageTypes
<1>2. fetch[f].at # "free" /\ fetch[f].key \in PageKeys
  BY <1>1 DEF AnswersAreRecent, Request!Resolve, Request!Reject
<1> DEFINE k == fetch[f].key
           n == fetch[f].version
\* A view that awaits f and is active shows k.
<1>3. \A v \in Views : screen[v].waits = f /\ Request!Active(screen[v]) => screen[v].key = k /\ ~fetch[f].old
  BY <1>1, PagesAssumption DEF AwaitedIsCurrent, Current, Open, Request!Open
<1>4. \A v \in Views : screen[v] \in Screens
  BY <1>1 DEF PageTypes
<1>5. CASE Request!Resolve(f)
  <2> DEFINE shown == [key |-> k, version |-> n, late |-> FALSE]
             entry == [version |-> n, fresh |-> TRUE, late |-> fetch[f].old]
             x == [v \in Views |-> Request!Shows(screen[v], shown)]
  <2>1. shown \in Shown /\ entry \in Entries /\ n \in Nat
    BY <1>1, <1>2 DEF Shown, Entries, Fetches, AnyKey
  <2>2. fetch[f].old \/ n >= floor[k]
    BY <1>1, <1>5 DEF AnswersAreRecent, Request!Resolve
  <2>3. pageCache' = [pageCache EXCEPT ![k] = entry] /\ UNCHANGED <<dataAt, owed, floor>>
    BY <1>5 DEF Request!Resolve
  <2>4. pageCache' \in [PageKeys -> Entries] /\ CacheIsRecent'
    <3>1. pageCache' \in [PageKeys -> Entries] /\ pageCache'[k] = entry
          /\ \A j \in PageKeys : j # k => pageCache'[j] = pageCache[j]
      BY <1>1, <1>2, <2>1, <2>3 DEF PageTypes
    <3>2. entry.version = n /\ entry.late = fetch[f].old
      OBVIOUS
    <3> HIDE DEF entry, k, n
    <3>3. \A j \in PageKeys : pageCache'[j].fresh => pageCache'[j].version >= floor'[j] \/ pageCache'[j].late
      BY <1>1, <2>2, <2>3, <3>1, <3>2 DEF CacheIsRecent
    <3> QED BY <3>1, <3>3 DEF CacheIsRecent
  <2>5. ASSUME NEW v \in Views, screen[v].waits = f
        PROVE  x[v] \in Screens /\ x[v].waits = 0 /\ ShowsRight(x[v])
    <3>1. /\ x[v] = [screen[v] EXCEPT !.data = shown, !.loading = FALSE, !.error = FALSE, !.waits = 0]
      BY DEF Request!Shows
    <3>2. x[v] \in Screens /\ x[v].waits = 0 /\ x[v].key = screen[v].key /\ x[v].on = screen[v].on
          /\ x[v].data = shown
      BY <1>4, <2>1, <3>1 DEF Screens
    <3>3. Request!Active(x[v]) => screen[v].key = k /\ ~fetch[f].old
      BY <1>3, <2>5, <3>2 DEF Request!Active
    <3>4. shown.key = k /\ shown.version = n
      OBVIOUS
    <3> HIDE DEF shown, x, k, n
    <3> QED BY <2>2, <3>2, <3>3, <3>4 DEF ShowsRight, Request!OwnData, Request!Recent
  <2>6. screen' = [v \in Views |-> IF screen[v].waits = f THEN x[v] ELSE screen[v]]
    BY <1>5 DEF Request!Resolve
  <2>7. /\ fetch' = [fetch EXCEPT ![f] = Request!NoFetch]
        /\ inFlight' = [inFlight EXCEPT ![fetch[f].key] = 0]
    BY <1>5 DEF Request!Resolve
  <2> HIDE DEF x
  <2> QED BY <1>2, <2>3, <2>4, <2>5, <2>6, <2>7, EndsKeep
<1>6. CASE Request!Reject(f)
  <2> DEFINE x == [v \in Views |-> [screen[v] EXCEPT !.loading = FALSE, !.error = TRUE, !.waits = 0]]
  <2>1. ASSUME NEW v \in Views, screen[v].waits = f
        PROVE  x[v] \in Screens /\ x[v].waits = 0 /\ ShowsRight(x[v])
    BY <1>4 DEF Screens, ShowsRight
  <2>2. screen' = [v \in Views |-> IF screen[v].waits = f THEN x[v] ELSE screen[v]]
    BY <1>6 DEF Request!Reject
  <2>3. /\ fetch' = [fetch EXCEPT ![f] = Request!NoFetch]
        /\ inFlight' = [inFlight EXCEPT ![fetch[f].key] = 0]
        /\ UNCHANGED <<dataAt, owed, pageCache, floor>>
    BY <1>6 DEF Request!Reject
  <2>4. pageCache' \in [PageKeys -> Entries] /\ CacheIsRecent'
    BY <1>1, <2>3 DEF PageTypes, CacheIsRecent
  <2> HIDE DEF x
  <2> QED BY <1>2, <2>1, <2>2, <2>3, <2>4, EndsKeep
<1> QED BY <1>5, <1>6

LEMMA AgesKeep ==
  ASSUME PageInv, NEW k \in PageKeys, Request!Write(k) \/ Request!Ages(k)
  PROVE  PageInv'
<1>1. PageTypes /\ CacheIsRecent /\ \A j \in PageKeys : floor[j] <= dataAt[j]
  BY DEF PageInv
<1>2. UNCHANGED <<fetch, inFlight, screen, floor>>
  BY DEF Request!Write, Request!Ages
<1>3. /\ dataAt' \in [PageKeys -> Nat]
      /\ \A j \in PageKeys : floor[j] <= dataAt'[j]
  BY <1>1 DEF PageTypes, Request!Write, Request!Ages
<1>4. /\ pageCache' \in [PageKeys -> Entries]
      /\ \A j \in PageKeys : pageCache'[j] = pageCache[j] \/ pageCache'[j].fresh = FALSE
  <2>1. Request!NoEntry \in Entries /\ Request!NoEntry.fresh = FALSE
    BY DEF Request!NoEntry, Entries
  <2>2. [pageCache[k] EXCEPT !.fresh = FALSE] \in Entries
    BY <1>1 DEF PageTypes, Entries
  <2>3. CASE pageCache' = pageCache
    BY <1>1, <2>3 DEF PageTypes
  <2>4. CASE pageCache' = [pageCache EXCEPT ![k] = [pageCache[k] EXCEPT !.fresh = FALSE]]
    BY <1>1, <2>2, <2>4 DEF PageTypes
  <2>5. CASE pageCache' = [pageCache EXCEPT ![k] = Request!NoEntry]
    BY <1>1, <2>1, <2>5 DEF PageTypes
  <2> QED BY <2>3, <2>4, <2>5 DEF Request!Write, Request!Ages
<1>5. PageTypes' /\ CacheIsRecent' /\ (\A j \in PageKeys : floor[j] <= dataAt[j])'
  BY <1>1, <1>2, <1>3, <1>4 DEF PageTypes, CacheIsRecent
<1>6. AnswersAreRecent' /\ AwaitedIsCurrent'
  BY <1>2 DEF PageInv, AnswersAreRecent, AwaitedIsCurrent, Current, Request!Active
<1>7. (\A u \in Views : ShowsRight(screen[u]))'
  BY <1>2 DEF PageInv, ShowsRight, Request!OwnData, Request!Recent, Request!Active
<1> QED BY <1>5, <1>6, <1>7 DEF PageInv

\* No request from before an invalidation is joined or awaited after it.
LEMMA InvalidateKeeps == ASSUME PageInv, NEW k \in PageKeys, Request!Invalidate(k) PROVE PageInv'
<1>1. PageTypes /\ AnswersAreRecent /\ CacheIsRecent /\ AwaitedIsCurrent
  BY DEF PageInv
<1>2. /\ pageCache' = [pageCache EXCEPT ![k] = Request!NoEntry]
      /\ floor' = [floor EXCEPT ![k] = dataAt[k]] /\ dataAt' = dataAt
  BY DEF Request!Invalidate
<1>3. Request!NoEntry \in Entries /\ Request!NoEntry.fresh = FALSE
  BY DEF Request!NoEntry, Entries
<1>4. /\ pageCache' \in [PageKeys -> Entries] /\ CacheIsRecent'
      /\ floor' \in [PageKeys -> Nat] /\ (\A j \in PageKeys : floor[j] <= dataAt[j])'
      /\ \A j \in PageKeys : j # k => floor'[j] = floor[j]
  BY <1>1, <1>2, <1>3 DEF PageTypes, CacheIsRecent, PageInv
<1> DEFINE aged == Request!Aged(k)
<1>5. /\ aged \in [Open -> Fetches]
      /\ \A g \in Open : /\ aged[g].at = fetch[g].at /\ aged[g].key = fetch[g].key
                         /\ aged[g].version = fetch[g].version
                         /\ fetch[g].key = k => aged[g].old
                         /\ fetch[g].key # k => aged[g].old = fetch[g].old
                         /\ aged[g].old \/ ~fetch[g].old
  <2>1. aged = [g \in Open |-> [fetch[g] EXCEPT !.old = @ \/ fetch[g].key = k]]
    BY DEF Request!Aged, Open
  <2>2. \A g \in Open : [fetch[g] EXCEPT !.old = @ \/ fetch[g].key = k] \in Fetches
    BY <1>1 DEF PageTypes, Fetches
  <2>3. \A g \in Open : fetch[g] \in Fetches
    BY <1>1 DEF PageTypes
  <2> QED BY <2>1, <2>2, <2>3 DEF Fetches
<1> HIDE DEF aged
<1>6. \A g \in Open : aged[g].at # "free" =>
        /\ aged[g].key \in PageKeys
        /\ aged[g].at = "served" => aged[g].old \/ aged[g].version >= floor'[aged[g].key]
  BY <1>1, <1>4, <1>5 DEF AnswersAreRecent
<1>7. \A u \in Views : screen[u] \in Screens
  BY <1>1 DEF PageTypes
\* A view that shows another key is not concerned.
<1>8. ASSUME NEW u \in Views, u \notin Request!Subscribers(k), screen'[u] = screen[u]
      PROVE  /\ ShowsRight(screen[u])'
             /\ Request!Active(screen[u]) => screen[u].key \in PageKeys \ {k}
  <2>1. Request!Active(screen[u]) => screen[u].key \in PageKeys \ {k}
    BY <1>7, <1>8 DEF Request!Subscribers, Request!Active, Screens, AnyKey
  <2>2. ShowsRight(screen[u])
    BY DEF PageInv
  <2> QED BY <1>4, <1>8, <2>1, <2>2 DEF ShowsRight, Request!OwnData, Request!Recent, Request!Active
<1>9. CASE /\ Request!Subscribers(k) = {}
           /\ inFlight' = [inFlight EXCEPT ![k] = 0] /\ fetch' = aged /\ screen' = screen
  <2>1. /\ inFlight' \in [PageKeys -> Open \cup {0}] /\ inFlight'[k] = 0
        /\ \A j \in PageKeys : j # k => inFlight'[j] = inFlight[j]
    BY <1>1, <1>9 DEF PageTypes
  <2>2. PageTypes' /\ AnswersAreRecent'
    BY <1>1, <1>2, <1>4, <1>5, <1>6, <1>9, <2>1 DEF PageTypes, AnswersAreRecent
  <2>3. \A g \in Open, j \in PageKeys : j # k /\ Current(g, j) => Current(g, j)'
    BY <1>5, <1>9 DEF Current
  <2>4. ASSUME NEW j \in PageKeys, inFlight'[j] # 0 PROVE Current(inFlight[j], j)'
    <3>1. j # k /\ inFlight'[j] = inFlight[j] /\ inFlight[j] \in Open /\ Current(inFlight[j], j)
      BY <1>1, <2>1, <2>4 DEF PageTypes, AwaitedIsCurrent
    <3> QED BY <2>3, <3>1 DEF Current
  <2>5. ASSUME NEW u \in Views, screen'[u].waits # 0
        PROVE  /\ fetch'[screen'[u].waits].at # "free"
               /\ Request!Active(screen'[u]) => Current(screen[u].waits, screen[u].key)'
    <3>1. screen'[u] = screen[u] /\ screen[u].waits \in Open
      BY <1>7, <1>9, <2>5 DEF Screens
    <3>2. Request!Active(screen[u]) => screen[u].key \in PageKeys \ {k}
      BY <1>8, <1>9
    <3> QED BY <1>1, <1>5, <1>9, <2>3, <2>5, <3>1, <3>2 DEF AwaitedIsCurrent, Current
  <2>6. \A u \in Views : ShowsRight(screen[u])'
    BY <1>8, <1>9
  <2> QED BY <1>4, <2>2, <2>4, <2>5, <2>6 DEF PageInv, AwaitedIsCurrent
<1>10. ASSUME NEW f \in Open, fetch[f].at = "free",
              inFlight' = [inFlight EXCEPT ![k] = f],
              fetch' = [aged EXCEPT ![f] = [Request!NoFetch EXCEPT !.at = "asked", !.key = k]],
              screen' = [v \in Views |-> IF v \in Request!Subscribers(k)
                                         THEN Request!Loads(screen[v], f) ELSE screen[v]]
       PROVE  PageInv'
  <2> DEFINE new == [Request!NoFetch EXCEPT !.at = "asked", !.key = k]
  <2>1. new \in Fetches /\ new.at = "asked" /\ new.key = k /\ new.old = FALSE
    BY DEF Request!NoFetch, Fetches, AnyKey
  <2>2. fetch' = [aged EXCEPT ![f] = new]
    BY <1>10
  <2> HIDE DEF new
  <2>3. fetch' \in [Open -> Fetches] /\ fetch'[f] = new /\ \A g \in Open : g # f => fetch'[g] = aged[g]
    BY <1>5, <2>1, <2>2
  <2>4. /\ inFlight' \in [PageKeys -> Open \cup {0}] /\ inFlight'[k] = f
        /\ \A j \in PageKeys : j # k => inFlight'[j] = inFlight[j]
    BY <1>1, <1>10 DEF PageTypes
  <2>5. \A v \in Views : v \in Request!Subscribers(k) =>
          /\ screen'[v] \in Screens /\ screen'[v].waits = f /\ screen'[v].loading
          /\ screen'[v].key = k
    <3>1. ASSUME NEW v \in Views, v \in Request!Subscribers(k)
          PROVE  /\ screen'[v] \in Screens /\ screen'[v].waits = f /\ screen'[v].loading
                 /\ screen'[v].key = k
      <4>1. screen'[v] = [screen[v] EXCEPT !.loading = TRUE, !.error = FALSE, !.waits = f]
        BY <1>10, <3>1 DEF Request!Loads
      <4>2. screen[v].key = k
        BY <3>1 DEF Request!Subscribers
      <4> QED BY <1>7, <4>1, <4>2 DEF Screens
    <3> QED BY <3>1
  <2>6. \A v \in Views : v \notin Request!Subscribers(k) => screen'[v] = screen[v]
    BY <1>10
  <2>7. screen' \in [Views -> Screens]
    BY <1>7, <1>10, <2>5, <2>6
  <2>8. PageTypes'
    BY <1>1, <1>2, <1>4, <2>3, <2>4, <2>7 DEF PageTypes
  <2>9. AnswersAreRecent'
    BY <1>6, <2>1, <2>3 DEF AnswersAreRecent
  <2>10. \A g \in Open, j \in PageKeys : j # k /\ Current(g, j) => Current(g, j)'
    BY <1>5, <1>10, <2>3 DEF Current
  <2>11. Current(f, k)'
    BY <2>1, <2>3 DEF Current
  <2>12. ASSUME NEW j \in PageKeys, inFlight'[j] # 0 PROVE Current(inFlight[j], j)'
    <3>1. CASE j = k
      BY <2>4, <2>11, <3>1 DEF Current
    <3>2. CASE j # k
      <4>1. inFlight'[j] = inFlight[j] /\ inFlight[j] \in Open /\ Current(inFlight[j], j)
        BY <1>1, <2>4, <2>12, <3>2 DEF PageTypes, AwaitedIsCurrent
      <4> QED BY <2>10, <3>2, <4>1 DEF Current
    <3> QED BY <3>1, <3>2
  <2>13. ASSUME NEW u \in Views, screen'[u].waits # 0
         PROVE  /\ fetch'[screen'[u].waits].at # "free"
                /\ Request!Active(screen'[u]) => Current(screen[u].waits, screen[u].key)'
    <3>1. CASE u \in Request!Subscribers(k)
      <4>1. screen'[u].waits = f /\ screen'[u].key = k
        BY <2>5, <3>1
      <4> QED BY <2>11, <4>1 DEF Current
    <3>2. CASE u \notin Request!Subscribers(k)
      <4>1. screen'[u] = screen[u] /\ screen[u].waits \in Open
        BY <1>7, <2>6, <2>13, <3>2 DEF Screens
      <4>2. Request!Active(screen[u]) => screen[u].key \in PageKeys \ {k}
        BY <1>8, <3>2, <4>1
      <4>3. fetch[screen[u].waits].at # "free"
            /\ (Request!Active(screen[u]) => Current(screen[u].waits, screen[u].key))
        BY <1>1, <2>13, <4>1 DEF AwaitedIsCurrent
      <4>4. fetch'[screen[u].waits].at # "free"
        BY <1>5, <1>10, <2>3, <4>1, <4>3
      <4> QED BY <2>10, <4>1, <4>2, <4>3, <4>4 DEF Current
    <3> QED BY <3>1, <3>2
  <2>14. ASSUME NEW u \in Views PROVE ShowsRight(screen[u])'
    <3>1. CASE u \in Request!Subscribers(k)
      BY <2>5, <3>1 DEF ShowsRight
    <3>2. CASE u \notin Request!Subscribers(k)
      BY <1>8, <2>6, <3>2
    <3> QED BY <3>1, <3>2
  <2> QED BY <1>4, <2>8, <2>9, <2>12, <2>13, <2>14 DEF PageInv, AwaitedIsCurrent
<1> QED BY <1>9, <1>10 DEF Request!Invalidate, aged, Open

LEMMA PageInvStep == ASSUME PageInv, [Request!Next]_Request!vars PROVE PageInv'
<1>1. ASSUME NEW v \in Views, Request!Unmount(v) \/ Request!Refetch(v) PROVE PageInv'
  BY <1>1, ViewKeeps DEF AnyKey
<1>2. ASSUME NEW v \in Views, NEW k \in AnyKey, Request!Mount(v, k) \/ Request!Change(v, k)
      PROVE  PageInv'
  BY <1>2, ViewKeeps
<1>3. ASSUME NEW f \in Open, Request!Serve(f) \/ Request!Resolve(f) \/ Request!Reject(f)
      PROVE  PageInv'
  BY <1>3, ServeKeeps, AnswerKeeps
<1>4. ASSUME NEW k \in PageKeys, Request!Write(k) \/ Request!Invalidate(k) \/ Request!Ages(k)
      PROVE  PageInv'
  BY <1>4, AgesKeep, InvalidateKeeps
<1>5. CASE UNCHANGED Request!vars
  BY <1>5 DEF Request!vars, PageInv, PageTypes, AnswersAreRecent, CacheIsRecent, AwaitedIsCurrent,
     Current, ShowsRight, Request!OwnData, Request!Recent, Request!Active
<1> QED BY <1>1, <1>2, <1>3, <1>4, <1>5 DEF Request!Next, Open, AnyKey

LEMMA PageInvSuffices == PageInv => Request!ScreenIsRight
BY DEF PageInv, ShowsRight, Request!ScreenIsRight

\* The hook by itself: any views, keys and bounds.
THEOREM PagesAreRight == Request!Spec => []Request!ScreenIsRight
<1>1. Request!Init => PageInv
  BY PageInvInit
<1>2. PageInv /\ [Request!Next]_Request!vars => PageInv'
  BY PageInvStep
<1> QED BY <1>1, <1>2, PageInvSuffices, PTL DEF Request!Spec

-----------------------------------------------------------------------------
(* StatusBanner                                                            *)

Truths  == {"ready", "down"}
Evals   == [on : BOOLEAN, saw : Truths \cup {"none"}, hub : BOOLEAN, tabs : SUBSET Tabs]
Hubs    == [last : Truths \cup {"none"}, busy : BOOLEAN, again : BOOLEAN]
TabStores  == [phase : {"idle", "pending", "unavailable", "restarting", "recovered"}, strict : BOOLEAN]
Answers == Truths \cup {"fail", "drain"}
Probes  == [at : {"no", "sent", "waits", "back"}, ans : Answers \cup {"none"},
            stale : BOOLEAN, watch : BOOLEAN]

BannerTypes ==
  /\ db \in Truths /\ eval \in Evals /\ hub \in Hubs /\ clients \subseteq Tabs
  /\ check \in [res : Truths \cup {"none"}, fresh : BOOLEAN] /\ told \in BOOLEAN
  /\ frames \in [Tabs -> Seq(Truths \cup {"shutdown"})]
  /\ tab \in [Tabs -> TabStores] /\ probe \in [Tabs -> Probes] /\ answered \in [Tabs -> BOOLEAN]

\* What a check that is under way knows, and whom a busy hub waits for; streams are
\* those of a worker that runs.
ChecksAreTrue ==
  /\ clients # {} => worker = "up"
  /\ check # Banner!NoCheck => worker = "up"
  /\ check.fresh => check.res = db
  /\ hub.busy => eval.on /\ eval.hub

\* A hub that was told what the database is knows it, or awaits an evaluation that
\* does not see it otherwise, or has one queued behind its own.
HubIsTold ==
  told /\ clients # {} =>
    \/ hub.busy /\ hub.again
    \/ /\ eval.saw \in {"none", db}
       /\ hub.last = db \/ (eval.on /\ eval.hub)

\* To a tab that listens no drain was announced, the last frame under way is the last
\* verdict, and an outage that it has read holds until a probe is answered 200.
Follows(t) ==
  /\ \A i \in DOMAIN frames[t] : frames[t][i] # "shutdown"
  /\ frames[t] # <<>> => frames[t][Len(frames[t])] = hub.last
  /\ frames[t] = <<>> /\ hub.last = "down" => tab[t].strict \/ answered[t]

ProbesAreAnswered == \A t \in Tabs : probe[t].at = "back" => probe[t].ans \in Answers

BannerInv ==
  /\ BannerTypes /\ ChecksAreTrue /\ HubIsTold /\ ProbesAreAnswered
  /\ \A t \in Tabs : tab[t].strict => tab[t].phase \in Banner!Down
  /\ \A t \in clients : Follows(t)
  /\ Banner!DrainIsLast

LEMMA BannerInvInit == ASSUME Banner!Init PROVE BannerInv
<1>1. /\ db = "ready" /\ eval = Banner!NoEval /\ hub = Banner!NoHub /\ clients = {}
      /\ check = Banner!NoCheck /\ told = FALSE /\ frames = [t \in Tabs |-> <<>>]
      /\ tab = [t \in Tabs |-> [phase |-> "idle", strict |-> FALSE]]
      /\ probe = [t \in Tabs |-> Banner!NoProbe] /\ answered = [t \in Tabs |-> FALSE]
  BY DEF Banner!Init
<1>2. /\ Banner!NoEval \in Evals /\ Banner!NoHub \in Hubs /\ Banner!NoHub.busy = FALSE
      /\ Banner!NoCheck \in [res : Truths \cup {"none"}, fresh : BOOLEAN] /\ Banner!NoCheck.fresh = FALSE
      /\ Banner!NoProbe \in Probes /\ Banner!NoProbe.at = "no"
      /\ [phase |-> "idle", strict |-> FALSE] \in TabStores
  BY DEF Banner!NoEval, Banner!NoHub, Banner!NoCheck, Banner!NoProbe, Evals, Hubs, Probes, TabStores
<1>3. frames \in [Tabs -> Seq(Truths \cup {"shutdown"})] /\ \A t \in Tabs : DOMAIN frames[t] = {}
  BY <1>1
<1>4. BannerTypes
  BY <1>1, <1>2, <1>3 DEF BannerTypes, Truths
<1>5. ChecksAreTrue /\ HubIsTold /\ ProbesAreAnswered
  BY <1>1, <1>2 DEF ChecksAreTrue, HubIsTold, ProbesAreAnswered
<1>6. Banner!DrainIsLast
  BY <1>3 DEF Banner!DrainIsLast
<1> QED BY <1>1, <1>4, <1>5, <1>6 DEF BannerInv

\* _requestEvaluate keeps the verdict and what an evaluation saw.
LEMMA RequestIs ==
  ASSUME NEW h \in Hubs, NEW e \in Evals, NEW cs, h.busy => e.on /\ e.hub,
         hub' = Banner!RequestEvaluate(h, e, cs)[1], eval' = Banner!RequestEvaluate(h, e, cs)[2]
  PROVE  /\ hub' \in Hubs /\ eval' \in Evals
         /\ hub'.last = h.last /\ eval'.saw = e.saw /\ eval'.tabs = e.tabs
         /\ hub'.busy => eval'.on /\ eval'.hub
         /\ e.on => eval'.on
         /\ e.hub => eval'.hub
         /\ h.busy => hub'.busy /\ (h.again => hub'.again)
         /\ h.busy /\ cs # {} /\ worker = "up" => hub'.again
         /\ cs # {} /\ worker = "up" => eval'.on /\ eval'.hub
<1>1. CASE cs = {} \/ worker # "up"
  <2>1. hub' = h /\ eval' = e
    BY <1>1 DEF Banner!RequestEvaluate
  <2> QED BY <1>1, <2>1 DEF Hubs, Evals
<1>2. CASE ~(cs = {} \/ worker # "up") /\ h.busy
  <2>1. hub' = [h EXCEPT !.again = TRUE] /\ eval' = e
    BY <1>2 DEF Banner!RequestEvaluate
  <2> QED BY <1>2, <2>1 DEF Hubs, Evals
<1>3. CASE ~(cs = {} \/ worker # "up") /\ ~h.busy
  <2>1. hub' = [h EXCEPT !.busy = TRUE] /\ eval' = [e EXCEPT !.on = TRUE, !.hub = TRUE]
    BY <1>3 DEF Banner!RequestEvaluate
  <2> QED BY <1>3, <2>1 DEF Hubs, Evals
<1> QED BY <1>1, <1>2, <1>3

-----------------------------------------------------------------------------

\* A step that leaves the tabs alone and writes no frame.
LEMMA HubKeeps ==
  ASSUME BannerInv, BannerTypes', ChecksAreTrue', HubIsTold', ProbesAreAnswered',
         UNCHANGED <<frames, tab, answered>>,
         clients' \subseteq clients, clients' = {} \/ hub'.last = hub.last
  PROVE  BannerInv'
<1>1. ASSUME NEW t \in clients' PROVE Follows(t)'
  <2>1. Follows(t) /\ hub'.last = hub.last
    BY <1>1 DEF BannerInv
  <2> QED BY <2>1 DEF Follows
<1>2. (\A t \in Tabs : tab[t].strict => tab[t].phase \in Banner!Down)' /\ Banner!DrainIsLast'
  BY DEF BannerInv, Banner!DrainIsLast, Banner!Down
<1> QED BY <1>1, <1>2 DEF BannerInv

LEMMA ServerKeeps ==
  ASSUME BannerInv,
         \/ Banner!EvalSees \/ Banner!EvalTimer \/ Banner!CheckSees \/ Banner!CheckReports
         \/ Banner!Flips \/ Banner!Gone \/ Banner!Restart
  PROVE  BannerInv'
<1>1. BannerTypes /\ ChecksAreTrue /\ HubIsTold /\ ProbesAreAnswered
  BY DEF BannerInv
<1>2. CASE Banner!EvalSees
  <2>1. eval' = [eval EXCEPT !.saw = db] /\ eval.on
        /\ UNCHANGED <<db, worker, hub, clients, check, told, frames, tab, probe, answered>>
    BY <1>2 DEF Banner!EvalSees
  <2>2. eval' \in Evals /\ eval'.saw = db /\ eval'.on = eval.on /\ eval'.hub = eval.hub
    BY <1>1, <2>1 DEF BannerTypes, Evals
  <2>3. BannerTypes' /\ ChecksAreTrue' /\ HubIsTold' /\ ProbesAreAnswered'
    BY <1>1, <2>1, <2>2 DEF BannerTypes, ChecksAreTrue, HubIsTold, ProbesAreAnswered
  <2> QED BY <2>1, <2>3, HubKeeps
<1>3. CASE Banner!EvalTimer
  <2>1. /\ hub' = Banner!RequestEvaluate(hub, eval, clients)[1]
        /\ eval' = Banner!RequestEvaluate(hub, eval, clients)[2]
        /\ UNCHANGED <<db, worker, clients, check, told, frames, tab, probe, answered>>
    BY <1>3 DEF Banner!EvalTimer, Banner!Evaluates
  <2>2. /\ hub' \in Hubs /\ eval' \in Evals
        /\ hub'.last = hub.last /\ eval'.saw = eval.saw
        /\ hub'.busy => eval'.on /\ eval'.hub
        /\ eval.on => eval'.on
        /\ eval.hub => eval'.hub
        /\ hub.busy => hub'.busy /\ (hub.again => hub'.again)
    BY <1>1, <2>1, RequestIs DEF BannerTypes, ChecksAreTrue
  <2>3. BannerTypes' /\ ChecksAreTrue' /\ HubIsTold' /\ ProbesAreAnswered'
    BY <1>1, <2>1, <2>2 DEF BannerTypes, ChecksAreTrue, HubIsTold, ProbesAreAnswered
  <2> QED BY <2>1, <2>2, <2>3, HubKeeps
<1>4. CASE Banner!CheckSees
  <2>1. check' = [res |-> db, fresh |-> TRUE] /\ worker = "up"
        /\ UNCHANGED <<db, worker, eval, hub, clients, told, frames, tab, probe, answered>>
    BY <1>4 DEF Banner!CheckSees
  <2>2. BannerTypes' /\ ChecksAreTrue' /\ HubIsTold' /\ ProbesAreAnswered'
    BY <1>1, <2>1 DEF BannerTypes, ChecksAreTrue, HubIsTold, ProbesAreAnswered
  <2> QED BY <2>1, <2>2, HubKeeps
<1>5. CASE Banner!CheckReports
  <2>1. check # Banner!NoCheck /\ check' = Banner!NoCheck /\ worker = "up"
        /\ UNCHANGED <<db, worker, clients, frames, tab, probe, answered>>
    BY <1>1, <1>5 DEF Banner!CheckReports, ChecksAreTrue
  <2>2. Banner!NoCheck \in [res : Truths \cup {"none"}, fresh : BOOLEAN] /\ Banner!NoCheck.fresh = FALSE
    BY DEF Banner!NoCheck
  <2>3. CASE clients = {} \/ hub.last = check.res
    <3>1. UNCHANGED <<hub, eval>>
          /\ (told' = told \/ (told' = (told \/ (check.fresh /\ eval.saw \in {"none", db}))
                                /\ hub.last = check.res))
      BY <1>5, <2>3 DEF Banner!CheckReports, Banner!Outdated, Banner!Queued
    <3>2. BannerTypes' /\ ChecksAreTrue' /\ ProbesAreAnswered'
      BY <1>1, <2>1, <2>2, <3>1 DEF BannerTypes, ChecksAreTrue, ProbesAreAnswered
    <3>3. HubIsTold'
      BY <1>1, <2>1, <3>1 DEF BannerTypes, ChecksAreTrue, HubIsTold
    <3> QED BY <2>1, <3>1, <3>2, <3>3, HubKeeps
  <2>4. CASE clients # {} /\ hub.last # check.res
    <3>1. /\ told' = (told \/ (check.fresh /\ (eval.saw \in {"none", db} \/ hub.busy)))
          /\ hub' = Banner!RequestEvaluate(hub, eval, clients)[1]
          /\ eval' = Banner!RequestEvaluate(hub, eval, clients)[2]
      BY <1>5, <2>4 DEF Banner!CheckReports, Banner!Evaluates, Banner!Outdated, Banner!Queued
    <3>2. /\ hub' \in Hubs /\ eval' \in Evals
          /\ hub'.last = hub.last /\ eval'.saw = eval.saw
          /\ hub'.busy => eval'.on /\ eval'.hub
          /\ eval'.on /\ eval'.hub
          /\ hub.busy => hub'.busy /\ hub'.again
      BY <1>1, <2>1, <2>4, <3>1, RequestIs DEF BannerTypes, ChecksAreTrue
    <3>3. BannerTypes' /\ ChecksAreTrue' /\ HubIsTold' /\ ProbesAreAnswered'
      BY <1>1, <2>1, <2>2, <3>1, <3>2 DEF BannerTypes, ChecksAreTrue, HubIsTold, ProbesAreAnswered
    <3> QED BY <2>1, <3>2, <3>3, HubKeeps
  <2> QED BY <2>3, <2>4
<1>6. CASE Banner!Flips
  <2>1. /\ db' \in Truths /\ told' = FALSE
        /\ check' = IF check = Banner!NoCheck THEN check ELSE [check EXCEPT !.fresh = FALSE]
        /\ UNCHANGED <<worker, eval, hub, clients, frames, tab, probe, answered>>
    BY <1>6 DEF Banner!Flips, Truths
  <2>2. check' \in [res : Truths \cup {"none"}, fresh : BOOLEAN] /\ check'.fresh = FALSE
    <3>1. Banner!NoCheck.fresh = FALSE
      BY DEF Banner!NoCheck
    <3>2. check \in [res : Truths \cup {"none"}, fresh : BOOLEAN]
      BY <1>1 DEF BannerTypes
    <3>3. CASE check = Banner!NoCheck
      BY <2>1, <3>1, <3>2, <3>3
    <3>4. CASE check # Banner!NoCheck
      BY <2>1, <3>2, <3>4
    <3> QED BY <3>3, <3>4
  <2>3. check' # Banner!NoCheck => worker = "up"
    BY <1>1, <2>1 DEF ChecksAreTrue
  <2>4. BannerTypes' /\ ChecksAreTrue' /\ HubIsTold' /\ ProbesAreAnswered'
    BY <1>1, <2>1, <2>2, <2>3 DEF BannerTypes, ChecksAreTrue, HubIsTold, ProbesAreAnswered
  <2> QED BY <2>1, <2>4, HubKeeps
<1>7. CASE Banner!Gone
  <2>1. /\ eval' = Banner!NoEval /\ hub' = Banner!NoHub /\ clients' = {} /\ check' = Banner!NoCheck
        /\ probe' = [t \in Tabs |-> IF probe[t].at = "waits"
                                    THEN [probe[t] EXCEPT !.at = "back", !.ans = "fail"] ELSE probe[t]]
        /\ UNCHANGED <<db, told, frames, tab, answered>>
    BY <1>7 DEF Banner!Gone
  <2>2. /\ Banner!NoEval \in Evals /\ Banner!NoHub \in Hubs /\ Banner!NoHub.busy = FALSE
        /\ Banner!NoCheck \in [res : Truths \cup {"none"}, fresh : BOOLEAN] /\ Banner!NoCheck.fresh = FALSE
    BY DEF Banner!NoEval, Banner!NoHub, Banner!NoCheck, Evals, Hubs
  <2>3. probe' \in [Tabs -> Probes] /\ ProbesAreAnswered'
    <3>1. \A t \in Tabs : probe[t] \in Probes
      BY <1>1 DEF BannerTypes
    <3>2. \A t \in Tabs : [probe[t] EXCEPT !.at = "back", !.ans = "fail"] \in Probes
      BY <3>1 DEF Probes, Answers
    <3>3. \A t \in Tabs : probe'[t].at = "back" => probe'[t].ans \in Answers
      BY <1>1, <2>1, <3>1 DEF Probes, Answers, ProbesAreAnswered
    <3> QED BY <2>1, <3>1, <3>2, <3>3 DEF ProbesAreAnswered
  <2>4. BannerTypes' /\ ChecksAreTrue' /\ HubIsTold'
    BY <1>1, <2>1, <2>2, <2>3 DEF BannerTypes, ChecksAreTrue, HubIsTold
  <2> QED BY <2>1, <2>3, <2>4, HubKeeps
<1>8. CASE Banner!Restart
  <2>1. worker' = "up" /\ UNCHANGED <<db, eval, hub, clients, check, told, frames, tab, probe, answered>>
    BY <1>8 DEF Banner!Restart
  <2>2. BannerTypes' /\ ChecksAreTrue' /\ HubIsTold' /\ ProbesAreAnswered'
    BY <1>1, <2>1 DEF BannerTypes, ChecksAreTrue, HubIsTold, ProbesAreAnswered
  <2> QED BY <2>1, <2>2, HubKeeps
<1> QED BY <1>2, <1>3, <1>4, <1>5, <1>6, <1>7, <1>8

-----------------------------------------------------------------------------

\* The database is told of to the tabs: an evaluation ends.
LEMMA EvalEndsKeeps == ASSUME BannerInv, Banner!EvalEnds PROVE BannerInv'
<1>1. BannerTypes /\ ChecksAreTrue /\ HubIsTold /\ ProbesAreAnswered
  BY DEF BannerInv
<1>2. /\ eval.on /\ eval.saw # "none"
      /\ UNCHANGED <<db, worker, clients, check, told, tab, answered>>
      /\ probe' = [t \in Tabs |-> IF t \in eval.tabs /\ probe[t].at = "waits"
                                  THEN [probe[t] EXCEPT !.at = "back", !.ans = eval.saw] ELSE probe[t]]
  BY DEF Banner!EvalEnds
<1>3. eval.saw \in Truths /\ Banner!NoEval \in Evals /\ Banner!NoEval.saw = "none"
      /\ Banner!NoEval.on = FALSE /\ Banner!NoEval.hub = FALSE
  BY <1>1, <1>2 DEF BannerTypes, Evals, Truths, Banner!NoEval
<1>4. probe' \in [Tabs -> Probes] /\ ProbesAreAnswered'
  <2>1. ASSUME NEW t \in Tabs PROVE [probe[t] EXCEPT !.at = "back", !.ans = eval.saw] \in Probes
    <3>1. PICK x \in Probes : x = probe[t]
      BY <1>1 DEF BannerTypes
    <3>2. eval.saw \in Answers \cup {"none"}
      BY <1>3 DEF Answers
    <3>3. [x EXCEPT !.at = "back", !.ans = eval.saw] \in Probes
      BY <3>2 DEF Probes
    <3> QED BY <3>1, <3>3
  <2>2. \A t \in Tabs : probe[t] \in Probes
    BY <1>1 DEF BannerTypes
  <2>3. \A t \in Tabs : probe'[t].at = "back" => probe'[t].ans \in Answers
    BY <1>1, <1>2, <1>3, <2>2 DEF Probes, Answers, ProbesAreAnswered
  <2> QED BY <1>2, <2>1, <2>2, <2>3 DEF ProbesAreAnswered
<1>5. CASE ~eval.hub
  <2>1. eval' = Banner!NoEval /\ UNCHANGED <<hub, frames>>
    BY <1>5 DEF Banner!EvalEnds
  <2>2. BannerTypes' /\ ChecksAreTrue' /\ HubIsTold'
    BY <1>1, <1>2, <1>3, <1>4, <1>5, <2>1 DEF BannerTypes, ChecksAreTrue, HubIsTold
  <2> QED BY <1>2, <1>4, <2>1, <2>2, HubKeeps
<1>6. CASE eval.hub
  <2> DEFINE h == [last |-> eval.saw, busy |-> FALSE, again |-> FALSE]
  <2>1. h \in Hubs /\ h.last = eval.saw /\ h.busy = FALSE
    BY <1>3 DEF Hubs
  <2>2. /\ frames' = [t \in Tabs |-> IF t \in clients /\ Banner!Broadcasts(eval.saw)
                                     THEN Append(frames[t], eval.saw) ELSE frames[t]]
        /\ IF hub.again
           THEN /\ hub' = Banner!RequestEvaluate(h, Banner!NoEval, clients)[1]
                /\ eval' = Banner!RequestEvaluate(h, Banner!NoEval, clients)[2]
           ELSE hub' = h /\ eval' = Banner!NoEval
    BY <1>6 DEF Banner!EvalEnds, Banner!Evaluates
  <2> HIDE DEF h
  <2>3. /\ hub' \in Hubs /\ eval' \in Evals /\ hub'.last = eval.saw /\ eval'.saw = "none"
        /\ hub'.busy => eval'.on /\ eval'.hub
    <3>1. CASE hub.again
      BY <1>3, <2>1, <2>2, <3>1, RequestIs
    <3>2. CASE ~hub.again
      BY <1>3, <2>1, <2>2, <3>2
    <3> QED BY <3>1, <3>2
  <2>4. \A t \in Tabs : frames[t] \in Seq(Truths \cup {"shutdown"})
    BY <1>1 DEF BannerTypes
  <2>5. frames' \in [Tabs -> Seq(Truths \cup {"shutdown"})]
    BY <1>3, <2>2, <2>4
  <2>6. BannerTypes' /\ ChecksAreTrue'
    BY <1>1, <1>2, <1>4, <2>3, <2>5 DEF BannerTypes, ChecksAreTrue
  <2>7. HubIsTold'
    <3>1. CASE hub.again /\ clients # {}
      <4>1. worker = "up"
        BY <1>1, <3>1 DEF ChecksAreTrue
      <4>2. eval'.on /\ eval'.hub
        BY <1>3, <2>1, <2>2, <3>1, <4>1, RequestIs
      <4> QED BY <2>3, <4>2 DEF HubIsTold
    <3>2. CASE clients = {} \/ ~hub.again
      BY <1>1, <1>2, <1>3, <2>3, <3>2 DEF HubIsTold
    <3> QED BY <3>1, <3>2
  <2>8. ASSUME NEW t \in clients PROVE Follows(t)'
    <3>1. t \in Tabs /\ Follows(t) /\ frames[t] \in Seq(Truths \cup {"shutdown"})
      BY <1>1, <2>4, <2>8 DEF BannerInv, BannerTypes
    <3>2. CASE hub.last = eval.saw
      <4>1. frames'[t] = frames[t] /\ hub'.last = hub.last
        BY <2>2, <2>3, <3>1, <3>2 DEF Banner!Broadcasts
      <4> QED BY <1>2, <3>1, <4>1 DEF Follows
    <3>3. CASE hub.last # eval.saw
      <4>1. frames'[t] = Append(frames[t], eval.saw) /\ hub'.last = eval.saw
        BY <2>2, <2>3, <2>8, <3>1, <3>3 DEF Banner!Broadcasts
      <4>2. /\ frames'[t] # <<>> /\ frames'[t][Len(frames'[t])] = eval.saw
            /\ \A i \in DOMAIN frames'[t] : (i \in DOMAIN frames[t] /\ frames'[t][i] = frames[t][i])
                                         \/ frames'[t][i] = eval.saw
        BY <1>3, <3>1, <4>1
      <4>3. \A i \in DOMAIN frames'[t] : frames'[t][i] # "shutdown"
        BY <1>3, <3>1, <4>2 DEF Follows, Truths
      <4> QED BY <4>1, <4>2, <4>3 DEF Follows
    <3> QED BY <3>2, <3>3
  <2>9. Banner!DrainIsLast'
    <3>1. ASSUME NEW t \in Tabs, NEW i \in DOMAIN frames'[t], frames'[t][i] = "shutdown"
          PROVE  i = Len(frames'[t])
      <4>1. CASE t \in clients
        BY <1>2, <2>8, <3>1, <4>1 DEF Follows
      <4>2. CASE t \notin clients
        BY <2>2, <3>1, <4>2 DEF BannerInv, Banner!DrainIsLast
      <4> QED BY <4>1, <4>2
    <3> QED BY <3>1 DEF Banner!DrainIsLast
  <2>10. (\A t \in Tabs : tab[t].strict => tab[t].phase \in Banner!Down)'
    BY <1>2 DEF BannerInv, Banner!Down
  <2>11. \A t \in clients' : Follows(t)'
    BY <1>2, <2>8
  <2> QED BY <1>4, <2>6, <2>7, <2>9, <2>10, <2>11 DEF BannerInv
<1> QED BY <1>5, <1>6

\* A stream ends: by a drain, or by the network.
LEMMA StopKeeps == ASSUME BannerInv, Banner!Stop PROVE BannerInv'
<1>1. BannerTypes /\ ChecksAreTrue /\ HubIsTold /\ ProbesAreAnswered
  BY DEF BannerInv
<1>2. /\ frames' = [t \in Tabs |-> IF t \in clients THEN Append(frames[t], "shutdown") ELSE frames[t]]
      /\ clients' = {} /\ hub' = (IF clients = {} THEN hub ELSE Banner!Without(hub, {}))
      /\ check' = Banner!NoCheck
      /\ UNCHANGED <<db, eval, told, tab, probe, answered>>
  BY DEF Banner!Stop
<1>3. hub' \in Hubs /\ hub'.busy = hub.busy
  BY <1>1, <1>2 DEF BannerTypes, Hubs, Banner!Without
<1>4. Banner!NoCheck \in [res : Truths \cup {"none"}, fresh : BOOLEAN] /\ Banner!NoCheck.fresh = FALSE
  BY DEF Banner!NoCheck
<1>5. \A t \in Tabs : frames[t] \in Seq(Truths \cup {"shutdown"})
  BY <1>1 DEF BannerTypes
<1>6. frames' \in [Tabs -> Seq(Truths \cup {"shutdown"})]
  BY <1>2, <1>5
<1>7. BannerTypes' /\ ChecksAreTrue' /\ HubIsTold' /\ ProbesAreAnswered'
  BY <1>1, <1>2, <1>3, <1>4, <1>6 DEF BannerTypes, ChecksAreTrue, HubIsTold, ProbesAreAnswered
<1>8. Banner!DrainIsLast'
  <2>1. ASSUME NEW t \in Tabs, NEW i \in DOMAIN frames'[t], frames'[t][i] = "shutdown"
        PROVE  i = Len(frames'[t])
    <3>1. CASE t \in clients
      <4>1. frames'[t] = Append(frames[t], "shutdown") /\ Follows(t)
        BY <1>2, <2>1, <3>1 DEF BannerInv
      <4> QED BY <1>5, <2>1, <4>1 DEF Follows
    <3>2. CASE t \notin clients
      BY <1>2, <2>1, <3>2 DEF BannerInv, Banner!DrainIsLast
    <3> QED BY <3>1, <3>2
  <2> QED BY <2>1 DEF Banner!DrainIsLast
<1>9. (\A t \in Tabs : tab[t].strict => tab[t].phase \in Banner!Down)'
  BY <1>2 DEF BannerInv, Banner!Down
<1> QED BY <1>2, <1>7, <1>8, <1>9 DEF BannerInv

LEMMA CutKeeps == ASSUME BannerInv, NEW t \in Tabs, Banner!Cut(t) PROVE BannerInv'
<1>1. BannerTypes /\ ChecksAreTrue /\ HubIsTold /\ ProbesAreAnswered
  BY DEF BannerInv
<1>2. /\ clients' = clients \ {t} /\ hub' = Banner!Without(hub, clients')
      /\ UNCHANGED <<db, worker, eval, check, told, frames, tab, probe, answered>>
  BY DEF Banner!Cut
<1>3. hub' \in Hubs /\ hub'.busy = hub.busy /\ hub'.again = hub.again /\ (clients' = {} \/ hub'.last = hub.last)
  BY <1>1, <1>2 DEF BannerTypes, Hubs, Banner!Without
<1>4. BannerTypes' /\ ChecksAreTrue' /\ HubIsTold' /\ ProbesAreAnswered'
  BY <1>1, <1>2, <1>3 DEF BannerTypes, ChecksAreTrue, HubIsTold, ProbesAreAnswered
<1> QED BY <1>2, <1>3, <1>4, HubKeeps

-----------------------------------------------------------------------------
(* The store of a tab                                                      *)

Fits(s) == s \in TabStores /\ (s.strict => s.phase \in Banner!Down)

\* Only a verdict, or an answered probe, ends an outage that the server told of.
LEMMA ReportsFit ==
  ASSUME NEW s, Fits(s), NEW stale \in BOOLEAN
  PROVE  /\ Fits(Banner!OnShutdown(s)) /\ (s.strict => Banner!OnShutdown(s).strict)
         /\ Fits(Banner!OnNetworkFailure(s)) /\ (s.strict => Banner!OnNetworkFailure(s).strict)
         /\ Fits(Banner!OnOutage(s)) /\ Banner!OnOutage(s).strict
         /\ Fits(Banner!OnOk(s, stale, FALSE)) /\ (s.strict => Banner!OnOk(s, stale, FALSE).strict)
         /\ Fits(Banner!OnOk(s, stale, TRUE))
         /\ Fits(Banner!Goes(s, "unavailable")) /\ (s.strict => Banner!Goes(s, "unavailable").strict)
<1>1. Fits(Banner!OnShutdown(s)) /\ (s.strict => Banner!OnShutdown(s).strict)
  BY DEF Fits, TabStores, Banner!OnShutdown, Banner!Goes, Banner!Down
<1>2. Fits(Banner!OnNetworkFailure(s)) /\ (s.strict => Banner!OnNetworkFailure(s).strict)
  BY DEF Fits, TabStores, Banner!OnNetworkFailure, Banner!Goes, Banner!Down
<1>3. Fits(Banner!OnOutage(s)) /\ Banner!OnOutage(s).strict
  BY DEF Fits, TabStores, Banner!OnOutage, Banner!Down
<1>4. Fits(Banner!OnOk(s, stale, FALSE)) /\ (s.strict => Banner!OnOk(s, stale, FALSE).strict)
  BY DEF Fits, TabStores, Banner!OnOk, Banner!Down
<1>5. Fits(Banner!OnOk(s, stale, TRUE))
  BY DEF Fits, TabStores, Banner!OnOk, Banner!Down
<1>6. Fits(Banner!Goes(s, "unavailable")) /\ (s.strict => Banner!Goes(s, "unavailable").strict)
  BY DEF Fits, TabStores, Banner!Goes, Banner!Down
<1> QED BY <1>1, <1>2, <1>3, <1>4, <1>5, <1>6

\* A step that concerns tab t.
LEMMA TabKeeps ==
  ASSUME BannerInv, NEW t \in Tabs,
         BannerTypes', ChecksAreTrue', HubIsTold', ProbesAreAnswered', hub'.last = hub.last,
         clients' \subseteq clients \cup {t}, Fits(tab[t])', t \in clients' => Follows(t)',
         \A i \in DOMAIN frames'[t] : frames'[t][i] = "shutdown" => i = Len(frames'[t]),
         \A u \in Tabs \ {t} : /\ frames'[u] = frames[u] /\ tab'[u] = tab[u]
                              /\ answered'[u] = answered[u]
  PROVE  BannerInv'
<1>1. ASSUME NEW u \in clients' PROVE Follows(u)'
  <2>1. CASE u = t
    BY <1>1, <2>1
  <2>2. CASE u # t
    <3>1. u \in clients /\ u \in Tabs \ {t} /\ Follows(u)
      BY <1>1, <2>2 DEF BannerInv, BannerTypes
    <3>2. frames'[u] = frames[u] /\ tab'[u] = tab[u] /\ answered'[u] = answered[u]
      BY <3>1
    <3> QED BY <3>1, <3>2 DEF Follows
  <2> QED BY <2>1, <2>2
<1>2. ASSUME NEW u \in Tabs PROVE tab'[u].strict => tab'[u].phase \in Banner!Down
  <2>1. CASE u = t
    BY <2>1 DEF Fits, Banner!Down
  <2>2. CASE u # t
    BY <2>2 DEF BannerInv
  <2> QED BY <2>1, <2>2
<1>3. Banner!DrainIsLast'
  <2>1. ASSUME NEW u \in Tabs, NEW i \in DOMAIN frames'[u], frames'[u][i] = "shutdown"
        PROVE  i = Len(frames'[u])
    <3>1. CASE u = t
      BY <2>1, <3>1
    <3>2. CASE u # t
      BY <2>1, <3>2 DEF BannerInv, Banner!DrainIsLast
    <3> QED BY <3>1, <3>2
  <2> QED BY <2>1 DEF Banner!DrainIsLast
<1>4. (\A u \in Tabs : tab[u].strict => tab[u].phase \in Banner!Down)'
  BY <1>2 DEF Banner!Down
<1> QED BY <1>1, <1>3, <1>4 DEF BannerInv

LEMMA TabFits == ASSUME BannerInv, NEW t \in Tabs PROVE Fits(tab[t])
BY DEF BannerInv, BannerTypes, Fits

\* The probes after a report.
LEMMA ProbesAfter ==
  ASSUME BannerInv, NEW t \in Tabs, NEW new,
         probe' = [probe EXCEPT ![t] = Banner!Aged(@)] \/ probe' = [probe EXCEPT ![t] = Banner!Kept(@, new)]
  PROVE  probe' \in [Tabs -> Probes] /\ ProbesAreAnswered'
<1>1. probe \in [Tabs -> Probes] /\ probe[t] \in Probes
      /\ \A u \in Tabs : probe[u].at = "back" => probe[u].ans \in Answers
  BY DEF BannerInv, BannerTypes, ProbesAreAnswered
<1>2. Banner!NoProbe \in Probes /\ Banner!NoProbe.at = "no"
  BY DEF Banner!NoProbe, Probes
<1>3. /\ Banner!Kept(probe[t], new) \in Probes
      /\ Banner!Kept(probe[t], new).at = "back" => Banner!Kept(probe[t], new).ans \in Answers
  BY <1>1, <1>2 DEF Banner!Kept
<1>4. /\ Banner!Aged(probe[t]) \in Probes
      /\ Banner!Aged(probe[t]).at = "back" => Banner!Aged(probe[t]).ans \in Answers
  <2>1. CASE probe[t] = Banner!NoProbe
    BY <1>2, <2>1 DEF Banner!Aged
  <2>2. CASE probe[t] # Banner!NoProbe
    BY <1>1, <2>2 DEF Banner!Aged, Probes
  <2> QED BY <2>1, <2>2
<1>5. ASSUME NEW p \in Probes, p.at = "back" => p.ans \in Answers, probe' = [probe EXCEPT ![t] = p]
      PROVE  probe' \in [Tabs -> Probes] /\ ProbesAreAnswered'
  <2>1. probe' \in [Tabs -> Probes] /\ \A u \in Tabs : probe'[u].at = "back" => probe'[u].ans \in Answers
    BY <1>1, <1>5
  <2> QED BY <2>1 DEF ProbesAreAnswered
<1> QED BY <1>3, <1>4, <1>5

\* A report that does not end an outage, and what is read of the frames stays.
LEMMA ReportKeeps ==
  ASSUME BannerInv, NEW t \in Tabs, NEW new, Fits(new), tab[t].strict => new.strict,
         Banner!ReportsOther(t, new) \/ (Banner!ReportsShutdown(t) /\ new = Banner!OnShutdown(tab[t])),
         UNCHANGED <<Banner!server, frames>>
  PROVE  BannerInv'
<1>1. BannerTypes /\ ChecksAreTrue /\ HubIsTold /\ ProbesAreAnswered
  BY DEF BannerInv
<1>2. tab' = [tab EXCEPT ![t] = new] /\ answered' = [answered EXCEPT ![t] = @ /\ ~new.strict]
  BY DEF Banner!ReportsOther, Banner!ReportsShutdown, Banner!Reports
<1>3. probe' \in [Tabs -> Probes] /\ ProbesAreAnswered'
  BY ProbesAfter DEF Banner!ReportsOther, Banner!ReportsShutdown
<1>4. UNCHANGED <<db, worker, eval, hub, clients, check, told, frames>>
  BY DEF Banner!server
<1>5. /\ tab' \in [Tabs -> TabStores] /\ tab'[t] = new
      /\ \A u \in Tabs \ {t} : tab'[u] = tab[u]
  BY <1>1, <1>2 DEF BannerTypes, Fits
<1>6. /\ answered' \in [Tabs -> BOOLEAN] /\ (answered'[t] <=> answered[t] /\ ~new.strict)
      /\ \A u \in Tabs \ {t} : answered'[u] = answered[u]
  BY <1>1, <1>2 DEF BannerTypes, Fits, TabStores
<1>7. BannerTypes' /\ ChecksAreTrue' /\ HubIsTold'
  BY <1>1, <1>3, <1>4, <1>5, <1>6 DEF BannerTypes, ChecksAreTrue, HubIsTold
<1>8. t \in clients' => Follows(t)'
  <2>1. ASSUME t \in clients PROVE Follows(t)'
    <3>1. Follows(t) /\ new.strict \in BOOLEAN
      BY <2>1 DEF BannerInv, Fits, TabStores
    <3> QED BY <1>4, <1>5, <1>6, <3>1 DEF Follows
  <2> QED BY <1>4, <2>1
<1>9. \A i \in DOMAIN frames'[t] : frames'[t][i] = "shutdown" => i = Len(frames'[t])
  BY <1>4 DEF BannerInv, Banner!DrainIsLast
<1>10. Fits(tab[t])'
  BY <1>5 DEF Fits, Banner!Down
<1> QED BY <1>3, <1>4, <1>5, <1>6, <1>7, <1>8, <1>9, <1>10, TabKeeps

LEMMA TrafficKeeps ==
  ASSUME BannerInv, NEW t \in Tabs,
         Banner!ShowTimer(t) \/ Banner!Traffic(t) \/ Banner!RecoveryTimer(t)
  PROVE  BannerInv'
<1>1. Fits(tab[t]) /\ FALSE \in BOOLEAN
  BY TabFits
<1>2. CASE Banner!ShowTimer(t)
  BY <1>1, <1>2, ReportsFit, ReportKeeps DEF Banner!ShowTimer
<1>3. CASE Banner!Traffic(t)
  <2>1. UNCHANGED <<Banner!server, frames>>
    BY <1>3 DEF Banner!Traffic
  <2>2. CASE Banner!ReportsOther(t, Banner!OnNetworkFailure(tab[t]))
    BY <1>1, <2>1, <2>2, ReportsFit, ReportKeeps
  <2>3. CASE Banner!ReportsOther(t, Banner!OnOk(tab[t], FALSE, FALSE))
    BY <1>1, <2>1, <2>3, ReportsFit, ReportKeeps
  <2>4. CASE Banner!ReportsOther(t, Banner!OnOutage(tab[t]))
    BY <1>1, <2>1, <2>4, ReportsFit, ReportKeeps
  <2>5. CASE Banner!ReportsShutdown(t)
    BY <1>1, <2>1, <2>5, ReportsFit, ReportKeeps
  <2> QED BY <1>3, <2>2, <2>3, <2>4, <2>5 DEF Banner!Traffic
<1>4. CASE Banner!RecoveryTimer(t)
  <2>1. tab[t].phase = "recovered" /\ tab' = [tab EXCEPT ![t] = [tab[t] EXCEPT !.phase = "idle"]]
        /\ UNCHANGED <<db, worker, eval, hub, clients, check, told, frames, probe, answered>>
    BY <1>4 DEF Banner!RecoveryTimer, Banner!server
  <2>2. tab \in [Tabs -> TabStores] /\ ~tab[t].strict
    BY <1>1, <2>1 DEF BannerInv, BannerTypes, Fits, Banner!Down
  <2>3. [tab[t] EXCEPT !.phase = "idle"] \in TabStores /\ [tab[t] EXCEPT !.phase = "idle"].strict = tab[t].strict
    BY <1>1 DEF Fits, TabStores
  <2>4. tab' \in [Tabs -> TabStores] /\ tab'[t].strict = tab[t].strict
        /\ \A u \in Tabs \ {t} : tab'[u] = tab[u]
    BY <2>1, <2>2, <2>3
  <2>5. BannerTypes' /\ ChecksAreTrue' /\ HubIsTold' /\ ProbesAreAnswered'
    BY <2>1, <2>4 DEF BannerInv, BannerTypes, ChecksAreTrue, HubIsTold, ProbesAreAnswered
  <2>6. Fits(tab[t])'
    BY <2>2, <2>4 DEF Fits, Banner!Down
  <2>7. t \in clients' => Follows(t)'
    BY <2>1, <2>4 DEF BannerInv, Follows
  <2>8. \A i \in DOMAIN frames'[t] : frames'[t][i] = "shutdown" => i = Len(frames'[t])
    BY <2>1 DEF BannerInv, Banner!DrainIsLast
  <2> QED BY <2>1, <2>4, <2>5, <2>6, <2>7, <2>8, TabKeeps
<1> QED BY <1>2, <1>3, <1>4

\* A new stream starts with the last verdict.
LEMMA ConnectKeeps == ASSUME BannerInv, NEW t \in Tabs, Banner!Connect(t) PROVE BannerInv'
<1>1. BannerTypes /\ ChecksAreTrue /\ HubIsTold /\ ProbesAreAnswered
  BY DEF BannerInv
<1>2. UNCHANGED <<db, worker, check, bounds>>
  BY DEF Banner!Connect
<1>3. CASE /\ clients' = clients \cup {t}
           /\ frames' = [frames EXCEPT ![t] = Banner!FirstFrames(hub)]
           /\ told' = (told /\ clients # {}) /\ worker = "up"
           /\ Banner!Evaluates(hub, eval, clients')
           /\ UNCHANGED <<tab, probe, answered>>
  <2>1. /\ hub' = Banner!RequestEvaluate(hub, eval, clients')[1]
        /\ eval' = Banner!RequestEvaluate(hub, eval, clients')[2]
    BY <1>3 DEF Banner!Evaluates
  <2>2. /\ hub' \in Hubs /\ eval' \in Evals
        /\ hub'.last = hub.last /\ eval'.saw = eval.saw
        /\ hub'.busy => eval'.on /\ eval'.hub
        /\ eval.on => eval'.on
        /\ eval.hub => eval'.hub
        /\ hub.busy => hub'.busy /\ (hub.again => hub'.again)
    BY <1>1, <2>1, RequestIs DEF BannerTypes, ChecksAreTrue
  <2> DEFINE first == Banner!FirstFrames(hub)
  <2>3. /\ first \in Seq(Truths \cup {"shutdown"})
        /\ \A i \in DOMAIN first : first[i] # "shutdown"
        /\ first # <<>> => first[Len(first)] = hub.last
        /\ first = <<>> => hub.last = "none"
    <3>1. CASE hub.last = "none"
      BY <3>1 DEF Banner!FirstFrames
    <3>2. CASE hub.last \in Truths
      <4>1. first = <<hub.last>> /\ hub.last # "none" /\ hub.last # "shutdown"
        BY <3>2 DEF Banner!FirstFrames, Truths
      <4> HIDE DEF first
      <4>2. Len(first) = 1 /\ DOMAIN first = {1} /\ first[1] = hub.last
        BY <4>1
      <4>3. first \in Seq(Truths \cup {"shutdown"})
        BY <3>2, <4>1
      <4> QED BY <4>1, <4>2, <4>3
    <3> QED BY <1>1, <3>1, <3>2 DEF BannerTypes, Hubs
  <2>4. frames' = [frames EXCEPT ![t] = first]
    BY <1>3
  <2> HIDE DEF first
  <2>5. /\ frames' \in [Tabs -> Seq(Truths \cup {"shutdown"})] /\ frames'[t] = first
        /\ \A u \in Tabs \ {t} : frames'[u] = frames[u]
    BY <1>1, <2>3, <2>4 DEF BannerTypes
  <2>6. BannerTypes' /\ ChecksAreTrue' /\ HubIsTold' /\ ProbesAreAnswered'
    BY <1>1, <1>2, <1>3, <2>2, <2>5 DEF BannerTypes, ChecksAreTrue, HubIsTold, ProbesAreAnswered
  <2>7. Follows(t)'
    BY <2>2, <2>3, <2>5 DEF Follows
  <2>8. Fits(tab[t])'
    <3>1. Fits(tab'[t])
      BY <1>3, TabFits
    <3> QED BY <3>1 DEF Fits, Banner!Down
  <2>9. \A i \in DOMAIN frames'[t] : frames'[t][i] = "shutdown" => i = Len(frames'[t])
    BY <2>3, <2>5
  <2> QED BY <1>3, <2>2, <2>5, <2>6, <2>7, <2>8, <2>9, TabKeeps
<1>4. CASE UNCHANGED <<hub, eval, clients, told, frames, tab, probe, answered>>
  <2>1. BannerTypes' /\ ChecksAreTrue' /\ HubIsTold' /\ ProbesAreAnswered'
    BY <1>1, <1>2, <1>4 DEF BannerTypes, ChecksAreTrue, HubIsTold, ProbesAreAnswered
  <2> QED BY <1>4, <2>1, HubKeeps
<1>5. CASE /\ Banner!ReportsOther(t, Banner!OnNetworkFailure(tab[t]))
           /\ UNCHANGED <<hub, eval, clients, told, frames, stream>>
  <2>1. UNCHANGED <<Banner!server, frames>>
    BY <1>2, <1>5 DEF Banner!server
  <2>2. Fits(tab[t]) /\ FALSE \in BOOLEAN
    BY TabFits
  <2> QED BY <1>5, <2>1, <2>2, ReportsFit, ReportKeeps
<1> QED BY <1>3, <1>4, <1>5 DEF Banner!Connect

\* What is read of a stream goes into the store; the last frame is the last verdict.
LEMMA FrameKeeps == ASSUME BannerInv, NEW t \in Tabs, Banner!Frame(t) PROVE BannerInv'
<1>1. BannerTypes /\ ChecksAreTrue /\ HubIsTold /\ ProbesAreAnswered /\ Fits(tab[t])
  BY TabFits DEF BannerInv
<1> DEFINE q == frames[t]
<1>2. /\ q \in Seq(Truths \cup {"shutdown"}) /\ q # <<>>
      /\ frames' = [frames EXCEPT ![t] = Tail(q)]
      /\ UNCHANGED <<db, worker, eval, hub, clients, check, told, stream>>
  BY <1>1 DEF BannerTypes, Banner!Frame, Banner!server
<1>3. /\ frames' \in [Tabs -> Seq(Truths \cup {"shutdown"})] /\ frames'[t] = Tail(q)
      /\ \A u \in Tabs \ {t} : frames'[u] = frames[u]
  BY <1>1, <1>2 DEF BannerTypes
<1>4. /\ Head(q) \in Truths \cup {"shutdown"}
      /\ Tail(q) = <<>> => q[Len(q)] = Head(q)
      /\ Tail(q) # <<>> => Tail(q)[Len(Tail(q))] = q[Len(q)]
      /\ \A i \in DOMAIN Tail(q) : i + 1 \in DOMAIN q /\ Tail(q)[i] = q[i + 1]
      /\ Len(Tail(q)) = Len(q) - 1 /\ Head(q) = q[1] /\ 1 \in DOMAIN q
      /\ DOMAIN Tail(q) \subseteq Nat /\ Len(q) \in Nat
  <2> HIDE DEF q
  <2>1. Len(q) \in Nat /\ Len(q) > 0 /\ DOMAIN q = 1..Len(q) /\ Head(q) = q[1]
    BY <1>2
  <2>2. /\ Tail(q) \in Seq(Truths \cup {"shutdown"}) /\ Len(Tail(q)) = Len(q) - 1
        /\ \A i \in 1..(Len(q) - 1) : Tail(q)[i] = q[i + 1]
    BY <1>2
  <2>3. DOMAIN Tail(q) = 1..(Len(q) - 1)
    BY <2>2
  <2>4. Tail(q) = <<>> => Len(q) = 1
    <3>1. Len(<<>>) = 0
      OBVIOUS
    <3> HAVE Tail(q) = <<>>
    <3>2. Len(q) - 1 = 0
      BY <2>2, <3>1, Zenon
    <3> QED BY <2>1, <3>2
  <2>5. Tail(q) # <<>> => Len(q) - 1 \in 1..(Len(q) - 1)
    <3>1. Tail(q) # <<>> => Len(Tail(q)) # 0
      BY <2>2
    <3> QED BY <2>1, <2>2, <3>1
  <2>6. Head(q) \in Truths \cup {"shutdown"}
    BY <1>2, <2>1
  <2> QED BY <2>1, <2>2, <2>3, <2>4, <2>5, <2>6
<1>5. \A i \in DOMAIN frames'[t] : frames'[t][i] = "shutdown" => i = Len(frames'[t])
  <2>1. ASSUME NEW i \in DOMAIN Tail(q), Tail(q)[i] = "shutdown" PROVE i = Len(Tail(q))
    <3>1. i + 1 \in DOMAIN q /\ q[i + 1] = "shutdown"
      BY <1>4, <2>1
    <3>2. i + 1 = Len(q)
      BY <3>1 DEF BannerInv, Banner!DrainIsLast
    <3> HIDE DEF q
    <3> QED BY <1>4, <2>1, <3>2
  <2> QED BY <1>3, <2>1
<1>6. PICK new \in {Banner!OnOk(tab[t], FALSE, TRUE), Banner!OnOutage(tab[t]), Banner!OnShutdown(tab[t])} :
        /\ Banner!ReportsOther(t, new) \/ (Banner!ReportsShutdown(t) /\ new = Banner!OnShutdown(tab[t]))
        /\ Head(q) = "ready" \/ (Head(q) = "down" /\ new = Banner!OnOutage(tab[t])) \/ Head(q) = "shutdown"
  <2>1. CASE Head(q) = "ready"
    BY <2>1 DEF Banner!Frame
  <2>2. CASE Head(q) = "down"
    BY <2>2 DEF Banner!Frame
  <2>3. CASE Head(q) = "shutdown"
    BY <2>3 DEF Banner!Frame
  <2> HIDE DEF q
  <2> QED BY <1>4, <2>1, <2>2, <2>3 DEF Truths
<1>7. Fits(new) /\ (Head(q) = "down" => new.strict)
  <2>1. FALSE \in BOOLEAN
    OBVIOUS
  <2>2. Fits(Banner!OnOk(tab[t], FALSE, TRUE)) /\ Fits(Banner!OnShutdown(tab[t]))
        /\ Fits(Banner!OnOutage(tab[t])) /\ Banner!OnOutage(tab[t]).strict
    BY <1>1, <2>1, ReportsFit
  <2> QED BY <1>6, <2>2
<1>8. tab' = [tab EXCEPT ![t] = new] /\ answered' = [answered EXCEPT ![t] = @ /\ ~new.strict]
  BY <1>6 DEF Banner!ReportsOther, Banner!ReportsShutdown, Banner!Reports
<1>9. probe' \in [Tabs -> Probes] /\ ProbesAreAnswered'
  BY <1>6, ProbesAfter DEF Banner!ReportsOther, Banner!ReportsShutdown
<1>10. /\ tab' \in [Tabs -> TabStores] /\ tab'[t] = new
       /\ \A u \in Tabs \ {t} : tab'[u] = tab[u]
  BY <1>1, <1>7, <1>8 DEF BannerTypes, Fits
<1>11. /\ answered' \in [Tabs -> BOOLEAN]
       /\ \A u \in Tabs \ {t} : answered'[u] = answered[u]
  BY <1>1, <1>7, <1>8 DEF BannerTypes, Fits, TabStores
<1>12. BannerTypes' /\ ChecksAreTrue' /\ HubIsTold'
  BY <1>1, <1>2, <1>3, <1>9, <1>10, <1>11 DEF BannerTypes, ChecksAreTrue, HubIsTold
<1>13. t \in clients' => Follows(t)'
  <2>1. ASSUME t \in clients PROVE Follows(t)'
    <3>1. /\ \A i \in DOMAIN q : q[i] # "shutdown"
          /\ q[Len(q)] = hub.last
      BY <1>2, <2>1 DEF BannerInv, Follows
    <3>2. \A i \in DOMAIN Tail(q) : Tail(q)[i] # "shutdown"
      BY <1>4, <3>1
    <3>3. Tail(q) # <<>> => Tail(q)[Len(Tail(q))] = hub.last
      BY <1>4, <3>1
    <3>4. Tail(q) = <<>> /\ hub.last = "down" => new.strict
      BY <1>4, <1>7, <3>1
    <3> QED BY <1>2, <1>3, <1>10, <3>2, <3>3, <3>4 DEF Follows
  <2> QED BY <1>2, <2>1
<1>14. Fits(tab[t])'
  BY <1>7, <1>10 DEF Fits, Banner!Down
<1> QED BY <1>2, <1>3, <1>5, <1>9, <1>10, <1>11, <1>12, <1>13, <1>14, TabKeeps

\* A stream is lost, or tried again; probes are sent, arrive and come back.
LEMMA LostKeeps == ASSUME BannerInv, NEW t \in Tabs, Banner!Lost(t) PROVE BannerInv'
<1>1. BannerTypes /\ ChecksAreTrue /\ HubIsTold /\ ProbesAreAnswered /\ Fits(tab[t])
  BY TabFits DEF BannerInv
<1> DEFINE new == Banner!OnNetworkFailure(tab[t])
<1>2. /\ t \notin clients /\ frames' = [frames EXCEPT ![t] = <<>>] /\ Banner!ReportsOther(t, new)
      /\ UNCHANGED <<db, worker, eval, hub, clients, check, told>>
  BY DEF Banner!Lost, Banner!server
<1>3. Fits(new)
  <2>1. FALSE \in BOOLEAN
    OBVIOUS
  <2> QED BY <1>1, <2>1, ReportsFit
<1> HIDE DEF new
<1>4. /\ frames' \in [Tabs -> Seq(Truths \cup {"shutdown"})] /\ DOMAIN frames'[t] = {}
      /\ \A u \in Tabs \ {t} : frames'[u] = frames[u]
  <2>1. <<>> \in Seq(Truths \cup {"shutdown"}) /\ DOMAIN <<>> = {}
    OBVIOUS
  <2> QED BY <1>1, <1>2, <2>1 DEF BannerTypes
<1>5. tab' = [tab EXCEPT ![t] = new] /\ answered' = [answered EXCEPT ![t] = @ /\ ~new.strict]
  BY <1>2 DEF Banner!ReportsOther, Banner!Reports
<1>6. probe' \in [Tabs -> Probes] /\ ProbesAreAnswered'
  BY <1>2, ProbesAfter DEF Banner!ReportsOther
<1>7. /\ tab' \in [Tabs -> TabStores] /\ tab'[t] = new
      /\ \A u \in Tabs \ {t} : tab'[u] = tab[u]
  BY <1>1, <1>3, <1>5 DEF BannerTypes, Fits
<1>8. /\ answered' \in [Tabs -> BOOLEAN]
      /\ \A u \in Tabs \ {t} : answered'[u] = answered[u]
  BY <1>1, <1>3, <1>5 DEF BannerTypes, Fits, TabStores
<1>9. BannerTypes' /\ ChecksAreTrue' /\ HubIsTold'
  BY <1>1, <1>2, <1>4, <1>6, <1>7, <1>8 DEF BannerTypes, ChecksAreTrue, HubIsTold
<1>10. Fits(tab[t])'
  BY <1>3, <1>7 DEF Fits, Banner!Down
<1> QED BY <1>2, <1>4, <1>6, <1>7, <1>8, <1>9, <1>10, TabKeeps

LEMMA ProbesKeep ==
  ASSUME BannerInv, NEW t \in Tabs, Banner!Retry(t) \/ Banner!Probe(t) \/ Banner!Arrives(t)
  PROVE  BannerInv'
<1>1. BannerTypes /\ ChecksAreTrue /\ HubIsTold /\ ProbesAreAnswered
      /\ probe \in [Tabs -> Probes] /\ probe[t] \in Probes
  BY DEF BannerInv, BannerTypes
<1>2. Banner!NoProbe \in Probes /\ Banner!NoProbe.at = "no"
  BY DEF Banner!NoProbe, Probes
<1>3. ASSUME NEW p \in Probes, p.at = "back" => p.ans \in Answers, probe' = [probe EXCEPT ![t] = p]
      PROVE  probe' \in [Tabs -> Probes] /\ ProbesAreAnswered'
  <2>1. probe' \in [Tabs -> Probes] /\ \A u \in Tabs : probe'[u].at = "back" => probe'[u].ans \in Answers
    BY <1>1, <1>3 DEF ProbesAreAnswered
  <2> QED BY <2>1 DEF ProbesAreAnswered
<1>4. CASE Banner!Retry(t)
  <2>1. probe' = [probe EXCEPT ![t] = IF probe[t].watch THEN Banner!NoProbe ELSE probe[t]]
        /\ UNCHANGED <<db, worker, eval, hub, clients, check, told, frames, tab, answered>>
    BY <1>4 DEF Banner!Retry, Banner!server
  <2>2. probe' \in [Tabs -> Probes] /\ ProbesAreAnswered'
    BY <1>1, <1>2, <1>3, <2>1 DEF ProbesAreAnswered
  <2>3. BannerTypes' /\ ChecksAreTrue' /\ HubIsTold'
    BY <1>1, <2>1, <2>2 DEF BannerTypes, ChecksAreTrue, HubIsTold
  <2> QED BY <2>1, <2>2, <2>3, HubKeeps
<1>5. CASE Banner!Probe(t)
  <2>1. PICK watch \in BOOLEAN : probe' = [probe EXCEPT ![t] = [Banner!NoProbe EXCEPT !.at = "sent", !.watch = watch]]
    BY <1>5 DEF Banner!Probe
  <2>2. UNCHANGED <<db, worker, eval, hub, clients, check, told, frames, tab, answered>>
    BY <1>5 DEF Banner!Probe, Banner!server
  <2> DEFINE p == [Banner!NoProbe EXCEPT !.at = "sent", !.watch = watch]
  <2>3. p \in Probes /\ p.at = "sent"
    BY DEF Banner!NoProbe, Probes
  <2>4. probe' = [probe EXCEPT ![t] = p]
    BY <2>1
  <2> HIDE DEF p
  <2>5. probe' \in [Tabs -> Probes] /\ ProbesAreAnswered'
    BY <1>3, <2>3, <2>4
  <2>6. BannerTypes' /\ ChecksAreTrue' /\ HubIsTold'
    BY <1>1, <2>2, <2>5 DEF BannerTypes, ChecksAreTrue, HubIsTold
  <2> QED BY <2>2, <2>5, <2>6, HubKeeps
<1>6. CASE Banner!Arrives(t)
  <2>1. UNCHANGED <<db, worker, hub, clients, check, told, frames, tab, answered>>
    BY <1>6 DEF Banner!Arrives
  <2>2. /\ eval' \in Evals /\ eval'.saw = eval.saw /\ eval'.hub = eval.hub
        /\ eval.on => eval'.on
        /\ probe' \in [Tabs -> Probes] /\ ProbesAreAnswered'
    <3>1. CASE worker = "up"
      <4>1. eval' = [eval EXCEPT !.on = TRUE, !.tabs = eval.tabs \cup {t}]
            /\ probe' = [probe EXCEPT ![t] = [probe[t] EXCEPT !.at = "waits"]]
        BY <1>6, <3>1 DEF Banner!Arrives
      <4>2. eval' \in Evals /\ eval'.saw = eval.saw /\ eval'.hub = eval.hub /\ eval'.on
        BY <1>1, <4>1 DEF BannerTypes, Evals
      <4>3. [probe[t] EXCEPT !.at = "waits"] \in Probes /\ [probe[t] EXCEPT !.at = "waits"].at = "waits"
        BY <1>1 DEF Probes
      <4> QED BY <1>3, <4>1, <4>2, <4>3
    <3>2. CASE worker # "up"
      <4> DEFINE a == IF worker = "gone" THEN "fail" ELSE "drain"
                 p == [probe[t] EXCEPT !.at = "back", !.ans = a]
      <4>1. eval' = eval /\ probe' = [probe EXCEPT ![t] = p]
        BY <1>6, <3>2 DEF Banner!Arrives
      <4>2. a \in Answers
        BY DEF Answers
      <4>3. p \in Probes /\ p.ans = a
        BY <1>1, <4>2 DEF Probes
      <4> HIDE DEF p, a
      <4> QED BY <1>1, <1>3, <4>1, <4>2, <4>3 DEF BannerTypes
    <3> QED BY <3>1, <3>2
  <2>3. BannerTypes' /\ ChecksAreTrue' /\ HubIsTold'
    BY <1>1, <2>1, <2>2 DEF BannerTypes, ChecksAreTrue, HubIsTold
  <2> QED BY <2>1, <2>2, <2>3, HubKeeps
<1> QED BY <1>4, <1>5, <1>6

\* An answer ends an outage that the server told of only if it is a 200, and then the
\* tab has been answered.
LEMMA BackKeeps == ASSUME BannerInv, NEW t \in Tabs, Banner!Back(t) PROVE BannerInv'
<1>1. /\ BannerTypes /\ ChecksAreTrue /\ HubIsTold /\ ProbesAreAnswered /\ Fits(tab[t])
      /\ probe \in [Tabs -> Probes] /\ probe[t] \in Probes
  BY TabFits DEF BannerInv, BannerTypes
<1>2. Banner!NoProbe \in Probes /\ Banner!NoProbe.at = "no"
  BY DEF Banner!NoProbe, Probes
<1> DEFINE p == probe[t]
           new == IF p.watch THEN Banner!WatchReports(t, p.ans) ELSE Banner!LoopReports(t, p.ans, p.stale)
<1>3. /\ p.at = "back" /\ p.ans \in Answers /\ p.stale \in BOOLEAN
      /\ tab' = [tab EXCEPT ![t] = new]
      /\ answered' = [answered EXCEPT ![t] =
           (tab[t].phase \in Banner!Down /\ new.phase = "recovered") \/ (@ /\ ~new.strict)]
      /\ probe' = [probe EXCEPT ![t] = Banner!NoProbe]
      /\ UNCHANGED <<db, worker, eval, hub, clients, check, told, frames>>
  BY <1>1 DEF Banner!Back, Banner!server, ProbesAreAnswered, Probes
<1>4. probe' \in [Tabs -> Probes] /\ ProbesAreAnswered'
  <2>1. probe' \in [Tabs -> Probes] /\ \A u \in Tabs : probe'[u].at = "back" => probe'[u].ans \in Answers
    BY <1>1, <1>2, <1>3 DEF ProbesAreAnswered
  <2> QED BY <2>1 DEF ProbesAreAnswered
<1>5. /\ Fits(new)
      /\ tab[t].strict => new.strict \/ (tab[t].phase \in Banner!Down /\ new.phase = "recovered")
  <2>1. /\ Fits(Banner!OnShutdown(tab[t])) /\ (tab[t].strict => Banner!OnShutdown(tab[t]).strict)
        /\ Fits(Banner!OnNetworkFailure(tab[t])) /\ (tab[t].strict => Banner!OnNetworkFailure(tab[t]).strict)
        /\ Fits(Banner!OnOutage(tab[t])) /\ Banner!OnOutage(tab[t]).strict
        /\ Fits(Banner!OnOk(tab[t], p.stale, TRUE))
    BY <1>1, <1>3, ReportsFit
  <2>2. tab[t].strict => \/ Banner!OnOk(tab[t], p.stale, TRUE).strict
                         \/ tab[t].phase \in Banner!Down /\ Banner!OnOk(tab[t], p.stale, TRUE).phase = "recovered"
    BY <1>1, <1>3 DEF Fits, TabStores, Banner!OnOk, Banner!Down
  <2>3. new \in {tab[t], Banner!OnShutdown(tab[t]), Banner!OnNetworkFailure(tab[t]), Banner!OnOutage(tab[t]),
                 Banner!OnOk(tab[t], p.stale, TRUE)}
    <3>1. CASE p.watch
      <4>1. CASE tab[t].phase # "idle" \/ p.ans = "ready"
        BY <3>1, <4>1 DEF Banner!WatchReports
      <4>2. CASE tab[t].phase = "idle" /\ p.ans \in {"down", "fail", "drain"}
        BY <3>1, <4>2 DEF Banner!WatchReports
      <4> QED BY <1>3, <4>1, <4>2 DEF Answers, Truths
    <3>2. CASE ~p.watch
      BY <1>3, <3>2 DEF Banner!LoopReports, Answers, Truths
    <3> QED BY <3>1, <3>2
  <2> HIDE DEF new
  <2> QED BY <1>1, <2>1, <2>2, <2>3
<1>6. tab[t].strict \in BOOLEAN /\ new.strict \in BOOLEAN /\ answered \in [Tabs -> BOOLEAN]
  BY <1>1, <1>5 DEF Fits, TabStores, BannerTypes
<1> HIDE DEF new
<1>7. /\ tab' \in [Tabs -> TabStores] /\ tab'[t] = new
      /\ \A u \in Tabs \ {t} : tab'[u] = tab[u]
  BY <1>1, <1>3, <1>5 DEF BannerTypes, Fits
<1>8. /\ answered' \in [Tabs -> BOOLEAN]
      /\ (tab[t].phase \in Banner!Down /\ new.phase = "recovered") => answered'[t]
      /\ answered[t] /\ ~new.strict => answered'[t]
      /\ \A u \in Tabs \ {t} : answered'[u] = answered[u]
  BY <1>3, <1>6
<1>9. BannerTypes' /\ ChecksAreTrue' /\ HubIsTold'
  BY <1>1, <1>3, <1>4, <1>7, <1>8 DEF BannerTypes, ChecksAreTrue, HubIsTold
<1>10. t \in clients' => Follows(t)'
  <2>1. ASSUME t \in clients PROVE Follows(t)'
    <3>1. Follows(t)
      BY <2>1 DEF BannerInv
    <3>2. tab[t].strict \/ answered[t] => new.strict \/ answered'[t]
      BY <1>5, <1>6, <1>8
    <3> QED BY <1>3, <1>7, <3>1, <3>2 DEF Follows
  <2> QED BY <1>3, <2>1
<1>11. Fits(tab[t])'
  BY <1>5, <1>7 DEF Fits, Banner!Down
<1>12. \A i \in DOMAIN frames'[t] : frames'[t][i] = "shutdown" => i = Len(frames'[t])
  BY <1>3 DEF BannerInv, Banner!DrainIsLast
<1> QED BY <1>3, <1>4, <1>7, <1>8, <1>9, <1>10, <1>11, <1>12, TabKeeps

-----------------------------------------------------------------------------

LEMMA BannerInvStep == ASSUME BannerInv, [Banner!Next]_Banner!vars PROVE BannerInv'
<1>1. CASE \/ Banner!EvalSees \/ Banner!EvalTimer \/ Banner!CheckSees \/ Banner!CheckReports
           \/ Banner!Flips \/ Banner!Gone \/ Banner!Restart
  BY <1>1, ServerKeeps
<1>2. CASE Banner!EvalEnds \/ Banner!Stop
  BY <1>2, EvalEndsKeeps, StopKeeps
<1>3. ASSUME NEW t \in Tabs,
             \/ Banner!ShowTimer(t) \/ Banner!RecoveryTimer(t) \/ Banner!Traffic(t)
             \/ Banner!Connect(t) \/ Banner!Frame(t)
      PROVE  BannerInv'
  BY <1>3, TrafficKeeps, ConnectKeeps, FrameKeeps
<1>4. ASSUME NEW t \in Tabs,
             \/ Banner!Retry(t) \/ Banner!Cut(t) \/ Banner!Lost(t)
             \/ Banner!Probe(t) \/ Banner!Arrives(t) \/ Banner!Back(t)
      PROVE  BannerInv'
  BY <1>4, CutKeeps, LostKeeps, ProbesKeep, BackKeeps
<1>5. CASE UNCHANGED Banner!vars
  <2>1. UNCHANGED <<db, worker, eval, hub, clients, check, frames, tab, probe, told, answered>>
    BY <1>5 DEF Banner!vars
  <2>2. BannerTypes' /\ ChecksAreTrue' /\ HubIsTold' /\ ProbesAreAnswered'
    BY <2>1 DEF BannerInv, BannerTypes, ChecksAreTrue, HubIsTold, ProbesAreAnswered
  <2> QED BY <2>1, <2>2, HubKeeps
<1> QED BY <1>1, <1>2, <1>3, <1>4, <1>5 DEF Banner!Next

LEMMA BannerInvSuffices == BannerInv => Banner!BannerIsRight
<1> SUFFICES ASSUME BannerInv PROVE Banner!HubIsCurrent /\ Banner!OutageIsShown
  BY DEF BannerInv, Banner!BannerIsRight
<1>1. ASSUME NEW t \in Tabs, Banner!Quiet(t), told PROVE hub.last = db
  BY <1>1 DEF BannerInv, ChecksAreTrue, HubIsTold, Banner!Quiet
<1>2. ASSUME NEW t \in Tabs, Banner!Quiet(t), told, db = "down", ~answered[t]
      PROVE  tab[t].phase \in Banner!Down
  <2>1. Follows(t) /\ hub.last = "down"
    BY <1>1, <1>2 DEF BannerInv, Banner!Quiet
  <2> QED BY <1>2, <2>1 DEF BannerInv, Follows, Banner!Quiet
<1> QED BY <1>1, <1>2 DEF Banner!HubIsCurrent, Banner!OutageIsShown

\* The banner by itself: any tabs and bounds.
THEOREM BannersAreRight == Banner!Spec => []Banner!BannerIsRight
<1>1. Banner!Init => BannerInv
  BY BannerInvInit
<1>2. BannerInv /\ [Banner!Next]_Banner!vars => BannerInv'
  BY BannerInvStep
<1> QED BY <1>1, <1>2, BannerInvSuffices, PTL DEF Banner!Spec

-----------------------------------------------------------------------------
(* The composition                                                         *)

\* A step of the composition is one of each part, or leaves it alone.
LEMMA PageSteps == [Next]_vars => [Request!Next]_Request!vars
<1> SUFFICES ASSUME [Next]_vars, ~Request!Next PROVE UNCHANGED Request!vars
  OBVIOUS
<1>1. UNCHANGED request
  BY DEF Next, vars
<1> QED BY <1>1 DEF request, Request!vars

LEMMA BannerSteps == [Next]_vars => [Banner!Next]_Banner!vars
<1> SUFFICES ASSUME [Next]_vars, ~Banner!Next PROVE UNCHANGED Banner!vars
  OBVIOUS
<1>1. UNCHANGED banner
  BY DEF Next, vars
<1> QED BY <1>1 DEF banner, Banner!vars

\* No page at rest shows the data of another key or from before an invalidation; a tab
\* with a stream shows an outage that the hub was told of, whatever is late, cut or
\* restarted; no verdict follows a drain: for any views, keys and tabs.
THEOREM ScreensAreRightTheorem == Spec => []ScreensAreRight
<1> DEFINE Inv == PageInv /\ BannerInv
<1>1. Init => Inv
  BY PageInvInit, BannerInvInit DEF Init
<1>2. Inv /\ [Next]_vars => Inv'
  BY PageInvStep, BannerInvStep, PageSteps, BannerSteps
<1>3. Inv => ScreensAreRight
  BY PageInvSuffices, BannerInvSuffices DEF ScreensAreRight
<1> HIDE DEF Inv
<1> QED BY <1>1, <1>2, <1>3, PTL DEF Spec
=============================================================================
