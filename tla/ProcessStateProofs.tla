------------------------- MODULE ProcessStateProofs -------------------------
(***************************************************************************)
(* Proofs about the parts of ProcessState, each for any value of its       *)
(* parameters and then in the composition: the request ids (Snowflake),    *)
(* the connection pool and its breaker (OraclePool), the rate limiter      *)
(* (RateWindow), the record of a run and its shutdown (RunMarker), the     *)
(* alerts (AlertWatch, AlertDigest), the login lockout (LoginLockout), the *)
(* queue of audit rows (AuditBuffer), the log lines and their live tail    *)
(* (LogTail).                                                              *)
(***************************************************************************)
EXTENDS ProcessState, Integers, Sequences, FiniteSetTheorems, TLAPS

-----------------------------------------------------------------------------
(* Snowflake                                                               *)

\* Since the clock was last set back no id is of a later millisecond than the
\* last, and in the last millisecond the tails are those of the sequences used.
IdsInv ==
  /\ Trace!TypeOK /\ clock <= MaxTime
  /\ IsFiniteSet(ids) /\ Cardinality(ids) = issued
  /\ spinning => issued < MaxIds
  /\ \A id \in ids : id.falls <= falls
  /\ \A id \in ids : id.falls = falls => id.time <= last /\ last <= clock
  /\ \A id \in ids : id.falls = falls /\ id.time = last /\ ~spinning =>
       \E s \in 0..sequence : id.tail = Trace!Tail(s, nonce)

\* The counts of the component are those of this module.
LEMMA IdsAreCounted == \A S : Trace!Cardinality(S) = Cardinality(S)
BY DEF Trace!Cardinality, Cardinality

LEMMA Division ==
  ASSUME NEW x \in Nat, NEW n \in Nat, n > 0
  PROVE  /\ x \div n \in Nat /\ x % n \in 0..(n - 1)
         /\ x = n * (x \div n) + (x % n)
<1>1. x \div n \in Nat /\ x = n * (x \div n) + (x % n)
  OBVIOUS
<1>2. x % n \in 0..(n - 1)
  OBVIOUS
<1> QED BY <1>1, <1>2

\* Two numbers that are closer than n leave different remainders.
LEMMA RemaindersDiffer ==
  ASSUME NEW n \in Nat, n > 0, NEW x \in Nat, NEW y \in Nat, x < y, y - x < n
  PROVE  x % n # y % n
<1> SUFFICES ASSUME x % n = y % n PROVE FALSE
  OBVIOUS
<1> DEFINE p == x \div n
           q == y \div n
           r == x % n
<1>1. p \in Nat /\ q \in Nat /\ r \in Nat /\ x = n * p + r /\ y = n * q + r
  BY Division
<1> HIDE DEF p, q, r
<1>2. y - x = n * q - n * p
  BY <1>1
<1>3. CASE q <= p
  <2>1. n * q <= n * p
    BY <1>1, <1>3
  <2> QED BY <2>1, <1>1, <1>2
<1>4. CASE q >= p + 1
  <2>1. n * q >= n * (p + 1)
    BY <1>1, <1>4
  <2>2. n * (p + 1) = n * p + n
    BY <1>1
  <2> QED BY <2>1, <2>2, <1>1, <1>2
<1> QED BY <1>1, <1>3, <1>4

\* Until it wraps, the sequence goes up by one.
LEMMA SequenceGoesOn ==
  ASSUME Trace!TypeOK, Trace!NextSequence # 0
  PROVE  Trace!NextSequence = sequence + 1 /\ sequence + 1 <= MaxSequence
<1> DEFINE n == MaxSequence + 1
<1>1. sequence \in Nat /\ sequence <= MaxSequence /\ MaxSequence \in Nat
  BY SnowflakeAssumption DEF Trace!TypeOK
<1>2. n \in Nat /\ n > 0 /\ n % n = 0
  <2>1. n \in Nat /\ n > 0
    BY <1>1
  <2>2. n % n = 0
    BY <2>1, SMTT(20)
  <2> QED BY <2>1, <2>2
<1>3. sequence + 1 # n
  BY <1>2 DEF Trace!NextSequence
<1>4. sequence + 1 \in Nat /\ sequence + 1 < n
  BY <1>1, <1>3
<1> HIDE DEF n
<1>5. (sequence + 1) % n = sequence + 1
  <2>1. \A x, m \in Nat : x < m => x % m = x
    OBVIOUS
  <2> QED BY <2>1, <1>2, <1>4
<1> QED BY <1>4, <1>5, <1>1 DEF n, Trace!NextSequence

\* A new id keeps the invariant.
LEMMA IssueIsFresh ==
  ASSUME IdsInv, NEW s \in 0..MaxSequence, NEW n \in Trace!Nonces, Trace!Issue(s, n),
         issued < MaxIds,
         \A id \in ids : id.falls = falls => id.time <= clock,
         \A id \in ids : id.falls = falls /\ id.time = clock =>
           /\ \E q \in 0..s : id.tail = Trace!Tail(q, n)
           /\ id.tail # Trace!Tail(s, n)
  PROVE  IdsInv'
<1> DEFINE new == [time |-> clock, tail |-> Trace!Tail(s, n), falls |-> falls]
<1>1. /\ last' = clock /\ sequence' = s /\ nonce' = n /\ ids' = ids \cup {new}
      /\ issued' = issued + 1 /\ spinning' = FALSE /\ clock' = clock /\ falls' = falls
  BY DEF Trace!Issue
<1>2. /\ clock \in Nat /\ MaxTime \in Nat /\ clock <= MaxTime /\ falls \in 0..MaxFalls
      /\ issued \in 0..MaxIds /\ MaxIds \in Nat /\ NonceRange \in Nat /\ MaxFalls \in Nat
      /\ NonceRange > 0 /\ MaxSequence \in Nat
  BY SnowflakeAssumption DEF IdsInv, Trace!TypeOK, Trace!None
<1>3. Trace!Tail(s, n) \in Trace!Nonces
  <2>1. s + n \in Nat
    BY <1>2 DEF Trace!Nonces
  <2> QED BY <2>1, <1>2, Division DEF Trace!Tail, Trace!Nonces
<1>4. new \notin ids
  OBVIOUS
<1>5. IsFiniteSet(ids') /\ Cardinality(ids') = issued'
  BY <1>1, <1>4, FS_AddElement DEF IdsInv
<1>6. Trace!TypeOK'
  <2>1. new \in [time : 0..MaxTime, tail : Trace!Nonces, falls : 0..MaxFalls]
    BY <1>2, <1>3
  <2>2. clock \in 0..Trace!None
    BY <1>2 DEF Trace!None
  <2>3. Trace!None' = Trace!None /\ Trace!Nonces' = Trace!Nonces
    BY DEF Trace!None, Trace!Nonces
  <2>4. ids' \subseteq [time : 0..MaxTime, tail : Trace!Nonces, falls : 0..MaxFalls]
    BY <1>1, <2>1 DEF IdsInv, Trace!TypeOK
  <2>5. issued' \in 0..MaxIds
    BY <1>1, <1>2
  <2> HIDE DEF new
  <2> QED BY <1>1, <1>2, <2>2, <2>3, <2>4, <2>5 DEF Trace!TypeOK
<1>7. \A id \in ids' : id = new \/ id \in ids
  BY <1>1
<1>8. new.time = clock /\ new.tail = Trace!Tail(s, n) /\ new.falls = falls
  OBVIOUS
<1> HIDE DEF new
<1>9. \A id \in ids' : id.falls <= falls'
  BY <1>1, <1>2, <1>7, <1>8 DEF IdsInv
<1>10. \A id \in ids' : id.falls = falls' => id.time <= last' /\ last' <= clock'
  BY <1>1, <1>2, <1>7, <1>8 DEF IdsInv
<1>11. ASSUME NEW id \in ids', id.falls = falls', id.time = last'
       PROVE  \E q \in 0..sequence' : id.tail = Trace!Tail(q, nonce)'
  <2>1. \A q : Trace!Tail(q, nonce)' = Trace!Tail(q, n)
    BY <1>1 DEF Trace!Tail
  <2>2. s \in 0..s
    BY <1>2
  <2> QED BY <1>1, <1>7, <1>8, <1>11, <2>1, <2>2
<1> QED BY <1>1, <1>2, <1>5, <1>6, <1>9, <1>10, <1>11 DEF IdsInv

LEMMA IdsInvInit == Trace!Init => IdsInv
<1> SUFFICES ASSUME Trace!Init PROVE IdsInv
  OBVIOUS
<1>1. Cardinality({}) = 0 /\ IsFiniteSet({})
  BY FS_EmptySet
<1>2. /\ clock = 0 /\ falls = 0 /\ last = Trace!None /\ sequence = 0
      /\ nonce \in Trace!Nonces /\ spinning = FALSE /\ issued = 0 /\ ids = {}
  BY DEF Trace!Init
<1>3. Trace!None = MaxTime + 1 /\ MaxTime \in Nat /\ MaxFalls \in Nat
      /\ MaxSequence \in Nat /\ MaxIds \in Nat
  BY SnowflakeAssumption DEF Trace!None
<1>4. Trace!TypeOK
  <2>1. {clock, last} \subseteq 0..Trace!None /\ falls \in 0..MaxFalls
        /\ sequence \in 0..MaxSequence /\ issued \in 0..MaxIds
    BY <1>2, <1>3
  <2>2. ids \subseteq [time : 0..MaxTime, tail : Trace!Nonces, falls : 0..MaxFalls]
    BY <1>2
  <2> QED BY <1>2, <2>1, <2>2 DEF Trace!TypeOK
<1> QED BY <1>1, <1>2, <1>3, <1>4 DEF IdsInv

LEMMA IdsInvStep == IdsInv /\ [Trace!Next]_Trace!vars => IdsInv'
<1> SUFFICES ASSUME IdsInv, [Trace!Next]_Trace!vars PROVE IdsInv'
  OBVIOUS
<1>1. /\ {MaxSequence, NonceRange, MaxTime, MaxFalls, MaxIds} \subseteq Nat
      /\ MaxSequence < NonceRange
      /\ clock \in Nat /\ last \in Nat /\ falls \in Nat /\ sequence \in Nat /\ issued \in Nat
      /\ clock <= MaxTime /\ issued <= MaxIds /\ sequence <= MaxSequence
      /\ nonce \in Trace!Nonces /\ nonce \in Nat
      /\ \A id \in ids : id.time \in Nat /\ id.falls \in Nat
  BY SnowflakeAssumption DEF IdsInv, Trace!TypeOK, Trace!None, Trace!Nonces
<1>2. CASE Trace!NewMillisecond
  <2>1. PICK n \in Trace!Nonces : Trace!Issue(0, n)
    BY <1>2 DEF Trace!NewMillisecond
  <2>2. clock # last /\ issued < MaxIds
    BY <1>2 DEF Trace!NewMillisecond, Trace!Enters
  <2>3. \A id \in ids : id.falls = falls => id.time < clock
    BY <1>1, <2>2 DEF IdsInv
  <2>4. 0 \in 0..MaxSequence
    BY <1>1
  <2>5. \A id \in ids : id.falls = falls => id.time <= clock /\ id.time # clock
    BY <1>1, <2>3
  <2> QED BY <2>1, <2>2, <2>4, <2>5, IssueIsFresh
<1>3. CASE Trace!SameMillisecond
  <2>1. /\ clock = last /\ Trace!NextSequence # 0 /\ issued < MaxIds /\ ~spinning
        /\ Trace!Issue(Trace!NextSequence, nonce)
    BY <1>3 DEF Trace!SameMillisecond, Trace!Enters
  <2>2. Trace!NextSequence = sequence + 1 /\ sequence + 1 <= MaxSequence
    BY <2>1, SequenceGoesOn DEF IdsInv
  <2>3. sequence + 1 \in 0..MaxSequence /\ Trace!Issue(sequence + 1, nonce)
    BY <1>1, <2>1, <2>2
  <2>4. \A id \in ids : id.falls = falls => id.time <= clock
    BY <2>1 DEF IdsInv
  <2>5. ASSUME NEW id \in ids, id.falls = falls, id.time = clock
        PROVE  /\ \E q \in 0..(sequence + 1) : id.tail = Trace!Tail(q, nonce)
               /\ id.tail # Trace!Tail(sequence + 1, nonce)
    <3>1. PICK q \in 0..sequence : id.tail = Trace!Tail(q, nonce)
      BY <2>1, <2>5 DEF IdsInv
    <3>2. q \in 0..(sequence + 1)
      BY <1>1
    <3>3. /\ q + nonce \in Nat /\ sequence + 1 + nonce \in Nat
          /\ q + nonce < sequence + 1 + nonce
          /\ (sequence + 1 + nonce) - (q + nonce) < NonceRange
          /\ NonceRange \in Nat /\ NonceRange > 0
      BY <1>1, <2>2
    <3>4. Trace!Tail(q, nonce) # Trace!Tail(sequence + 1, nonce)
      BY <3>3, RemaindersDiffer DEF Trace!Tail
    <3> QED BY <3>1, <3>2, <3>4
  <2> QED BY <1>1, <2>1, <2>3, <2>4, <2>5, IssueIsFresh
<1>4. CASE Trace!Exhausted
  <2>1. /\ sequence' = 0 /\ spinning' = TRUE /\ issued < MaxIds
        /\ clock' = clock /\ falls' = falls /\ last' = last /\ nonce' = nonce
        /\ issued' = issued /\ ids' = ids
    BY <1>4 DEF Trace!Exhausted, Trace!Enters
  <2>2. Trace!TypeOK'
    BY <2>1, <1>1 DEF IdsInv, Trace!TypeOK, Trace!None, Trace!Nonces
  <2> QED BY <2>1, <2>2 DEF IdsInv
<1>5. CASE Trace!SpinEnds
  <2>1. clock > last /\ issued < MaxIds /\ Trace!Issue(0, nonce)
    BY <1>5 DEF Trace!SpinEnds, Trace!SpinOver, IdsInv
  <2>2. 0 \in 0..MaxSequence
    BY <1>1
  <2>3. \A id \in ids : id.falls = falls => id.time <= clock /\ id.time # clock
    BY <1>1, <2>1 DEF IdsInv
  <2> QED BY <1>1, <2>1, <2>2, <2>3, IssueIsFresh
<1>6. CASE Trace!Tick
  <2>1. /\ clock < MaxTime /\ clock' = clock + 1
        /\ falls' = falls /\ last' = last /\ sequence' = sequence /\ nonce' = nonce
        /\ spinning' = spinning /\ issued' = issued /\ ids' = ids
    BY <1>6 DEF Trace!Tick
  <2>2. Trace!TypeOK'
    BY <2>1, <1>1 DEF IdsInv, Trace!TypeOK, Trace!None, Trace!Nonces
  <2>3. clock' <= MaxTime
    BY <2>1, <1>1
  <2>4. \A id \in ids : id.falls = falls => id.time <= last /\ last <= clock'
    BY <2>1, <1>1 DEF IdsInv
  <2>5. \A s : Trace!Tail(s, nonce)' = Trace!Tail(s, nonce)
    BY <2>1 DEF Trace!Tail
  <2> QED BY <2>1, <2>2, <2>3, <2>4, <2>5 DEF IdsInv
<1>7. CASE Trace!SetBack
  <2>1. /\ falls < MaxFalls /\ clock' \in 0..(clock - 1) /\ falls' = falls + 1
        /\ last' = last /\ sequence' = sequence /\ nonce' = nonce
        /\ spinning' = spinning /\ issued' = issued /\ ids' = ids
    BY <1>7 DEF Trace!SetBack
  <2>2. clock' \in Nat /\ clock' <= MaxTime
    BY <2>1, <1>1
  <2>3. Trace!TypeOK'
    BY <2>1, <2>2, <1>1 DEF IdsInv, Trace!TypeOK, Trace!None, Trace!Nonces
  <2>4. \A id \in ids : id.falls <= falls' /\ id.falls # falls'
    BY <2>1, <1>1 DEF IdsInv
  <2> QED BY <2>1, <2>2, <2>3, <2>4 DEF IdsInv
<1>8. CASE UNCHANGED Trace!vars
  <2>1. \A s : Trace!Tail(s, nonce)' = Trace!Tail(s, nonce)
    BY <1>8 DEF Trace!vars, Trace!Tail
  <2> QED BY <1>8, <2>1 DEF Trace!vars, IdsInv, Trace!TypeOK, Trace!None, Trace!Nonces
<1> QED BY <1>2, <1>3, <1>4, <1>5, <1>6, <1>7, <1>8 DEF Trace!Next

LEMMA IdsInvSuffices == IdsInv => Trace!IdsAreFresh
BY IdsAreCounted DEF IdsInv, Trace!IdsAreFresh

\* The generator by itself: for any clock that is set back any number of times.
THEOREM GeneratorIsFresh == Trace!Spec => []Trace!IdsAreFresh
BY IdsInvInit, IdsInvStep, IdsInvSuffices, PTL DEF Trace!Spec

\* A step of the composition is one of the generator, or leaves it alone.
LEMMA TraceSteps == [Next]_vars => [Trace!Next]_Trace!vars
<1> SUFFICES ASSUME [Next]_vars, ~Trace!Next PROVE UNCHANGED Trace!vars
  OBVIOUS
<1>1. UNCHANGED tracing
  BY DEF Next, vars
<1> QED BY <1>1 DEF tracing, Trace!vars

\* No id returns unless the clock was set back in between, however many are drawn
\* in a millisecond: for any limits, as long as a tail has room for the sequence.
THEOREM IdsAreFreshTheorem == Spec => []IdsAreFresh
<1>1. Init => IdsInv
  BY IdsInvInit DEF Init
<1>2. IdsInv /\ [Next]_vars => IdsInv'
  BY IdsInvStep, TraceSteps
<1>3. IdsInv => IdsAreFresh
  BY IdsInvSuffices DEF IdsAreFresh
<1> QED BY <1>1, <1>2, <1>3, PTL DEF Spec

-----------------------------------------------------------------------------
(* OraclePool                                                              *)

CallRecords == [pc : {"idle", "pool", "wait", "sleep", "hold", "passed", "ok", "failed"},
                n : Nat, probe : BOOLEAN]

PoolRequests == [by : Pool!Users, n : Nat]

Pinging == IF check = "ping" THEN 1 ELSE 0

\* Each connection has its holder, each waiting caller its request at the driver,
\* the monitor at most one, and who waits for the pool has a creation under way.
ConnInv ==
  /\ poolCall \in [Callers -> CallRecords] /\ asked \subseteq PoolRequests
  /\ orphans \in Nat /\ check \in {"no", "pool", "get", "ping"}
  /\ inUse = Cardinality(Pool!Holders) + orphans + Pinging
  /\ \A c \in Callers : poolCall[c].pc = "wait" => [by |-> c, n |-> poolCall[c].n] \in asked
  /\ \A q \in asked : q.by = "check" => q.n = 1 /\ check = "get"
  /\ \A c \in Callers : poolCall[c].pc = "pool" => entry = "creating"
  /\ check = "pool" => entry = "creating"

\* The newest of the verdicts kept are as many failures as are counted, or all.
BreakInv ==
  /\ fails \in Nat /\ healthy \in BOOLEAN
  /\ recent \in Seq(BOOLEAN) /\ Len(recent) <= MaxFailures
  /\ fails <= Len(recent) \/ Len(recent) = MaxFailures
  /\ \A i \in 1..Len(recent) : i <= fails => ~recent[i]
  /\ ~healthy => fails >= MaxFailures

(* The breaker.                                                            *)

\* The verdict comes first, the older ones follow up to the limit.
LEMMA SeenFirst ==
  ASSUME BreakInv, NEW ok \in BOOLEAN, Pool!Seen(ok)
  PROVE  /\ recent' \in Seq(BOOLEAN) /\ Len(recent') <= MaxFailures
         /\ Len(recent') = Len(recent) + 1 \/ Len(recent') = MaxFailures
         /\ Len(recent') >= 1 /\ recent'[1] = ok
         /\ \A i \in 2..Len(recent') : i - 1 \in 1..Len(recent) /\ recent'[i] = recent[i - 1]
<1> DEFINE n == IF Len(recent) < MaxFailures THEN Len(recent) + 1 ELSE MaxFailures
           s == <<ok>> \o recent
<1>1. recent \in Seq(BOOLEAN) /\ Len(recent) \in Nat /\ MaxFailures \in Nat /\ MaxFailures >= 1
      /\ Len(recent) <= MaxFailures
  BY PoolAssumption DEF BreakInv
<1>2. n \in Nat /\ n >= 1 /\ n <= MaxFailures /\ n <= Len(recent) + 1
      /\ (n = Len(recent) + 1 \/ n = MaxFailures)
  BY <1>1
<1>3. /\ s \in Seq(BOOLEAN) /\ Len(s) = Len(recent) + 1 /\ s[1] = ok
      /\ \A i \in 2..Len(s) : s[i] = recent[i - 1]
  BY <1>1
<1>4. recent' = SubSeq(s, 1, n)
  BY DEF Pool!Seen
<1> HIDE DEF n, s
<1>5. /\ recent' \in Seq(BOOLEAN) /\ Len(recent') = n
      /\ \A i \in 1..n : recent'[i] = s[i]
  BY <1>1, <1>2, <1>3, <1>4
<1> QED BY <1>1, <1>2, <1>3, <1>5

\* A check that ends, with its verdict.
LEMMA VerdictBreaks ==
  ASSUME BreakInv, NEW ok \in BOOLEAN, Pool!Verdict(ok)
  PROVE  BreakInv'
<1>1. Pool!Seen(ok)
  BY DEF Pool!Verdict
<1>2. /\ recent' \in Seq(BOOLEAN) /\ Len(recent') <= MaxFailures
      /\ Len(recent') = Len(recent) + 1 \/ Len(recent') = MaxFailures
      /\ Len(recent') >= 1 /\ recent'[1] = ok
      /\ \A i \in 2..Len(recent') : i - 1 \in 1..Len(recent) /\ recent'[i] = recent[i - 1]
  BY <1>1, SeenFirst
<1>3. Len(recent') \in Nat /\ Len(recent) \in Nat /\ MaxFailures \in Nat
  BY <1>2, PoolAssumption DEF BreakInv
<1>4. CASE ok
  <2>1. fails' = 0 /\ healthy' = TRUE
    BY <1>4 DEF Pool!Verdict
  <2> QED BY <2>1, <1>2, <1>3 DEF BreakInv
<1>5. CASE ~ok
  <2>1. fails' = fails + 1 /\ (healthy' <=> healthy /\ fails' < MaxFailures) /\ healthy' \in BOOLEAN
    BY <1>5 DEF Pool!Verdict, BreakInv
  <2>2. fails \in Nat
    BY DEF BreakInv
  <2>3. ~healthy' => fails' >= MaxFailures
    BY <2>1, <2>2, <1>3 DEF BreakInv
  <2>4. fails' <= Len(recent') \/ Len(recent') = MaxFailures
    BY <2>1, <2>2, <1>2, <1>3 DEF BreakInv
  <2>5. ASSUME NEW i \in 1..Len(recent'), i <= fails' PROVE ~recent'[i]
    <3>1. CASE i = 1
      BY <3>1, <1>2, <1>5
    <3>2. CASE i # 1
      <4>1. i \in 2..Len(recent')
        BY <3>2, <1>3
      <4>2. i - 1 \in 1..Len(recent) /\ recent'[i] = recent[i - 1]
        BY <4>1, <1>2
      <4>3. i - 1 <= fails
        BY <4>1, <2>1, <2>2, <2>5, <1>3
      <4> QED BY <4>2, <4>3 DEF BreakInv
    <3> QED BY <3>1, <3>2
  <2> QED BY <2>1, <2>2, <2>3, <2>4, <2>5, <1>2 DEF BreakInv
<1> QED BY <1>4, <1>5

LEMMA BreakInvStep == ASSUME BreakInv, [Pool!Next]_Pool!vars PROVE BreakInv'
<1>1. CASE UNCHANGED <<fails, healthy, recent>>
  BY <1>1 DEF BreakInv
<1>2. CASE \E ok \in BOOLEAN : Pool!Verdict(ok)
  BY <1>2, VerdictBreaks
<1>3. CASE Pool!ProbeSuccess /\ Pool!Seen(TRUE)
  <2>1. /\ recent' \in Seq(BOOLEAN) /\ Len(recent') <= MaxFailures
        /\ Len(recent') = Len(recent) + 1 \/ Len(recent') = MaxFailures
        /\ Len(recent') >= 1
    BY <1>3, SeenFirst
  <2>2. fails' = 0 /\ healthy' = TRUE
    BY <1>3 DEF Pool!ProbeSuccess
  <2> QED BY <2>1, <2>2 DEF BreakInv
<1>4. ASSUME NEW c \in Callers, Pool!Evaluated(c) PROVE BreakInv'
  BY <1>1, <1>3, <1>4 DEF Pool!Evaluated
<1>5. ASSUME NEW q \in asked, Pool!Granted(q) \/ Pool!Refused(q) PROVE BreakInv'
  BY <1>1, <1>2, <1>5 DEF Pool!Granted, Pool!Refused
<1>6. ASSUME NEW b \in BOOLEAN, Pool!RunCheck(b) \/ Pool!Pinged(b) PROVE BreakInv'
  BY <1>1, <1>2, <1>6 DEF Pool!RunCheck, Pool!Pinged
<1>7. CASE Pool!Created \/ Pool!CreateFails \/ Pool!Evict
  BY <1>1, <1>2, <1>7 DEF Pool!Created, Pool!CreateFails, Pool!Evict
<1>8. ASSUME NEW c \in Callers, NEW b \in BOOLEAN, Pool!Begin(c, b) \/ Pool!Done(c, b) PROVE BreakInv'
  BY <1>1, <1>8 DEF Pool!Begin, Pool!Done
<1>9. ASSUME NEW c \in Callers, Pool!TimesOut(c) \/ Pool!Again(c) PROVE BreakInv'
  BY <1>1, <1>9 DEF Pool!TimesOut, Pool!Again
<1>10. CASE Pool!OrphanCloses \/ Pool!CloseAll \/ Pool!CloseCreated \/ Pool!PoolCloses \/ Pool!AllClosed
  BY <1>1, <1>10 DEF Pool!OrphanCloses, Pool!CloseAll, Pool!CloseCreated, Pool!PoolCloses, Pool!AllClosed
<1>11. CASE UNCHANGED Pool!vars
  BY <1>1, <1>11 DEF Pool!vars
<1> QED BY <1>4, <1>5, <1>6, <1>7, <1>8, <1>9, <1>10, <1>11 DEF Pool!Next

(* Connections.                                                            *)

LEMMA HoldersFinite ==
  IsFiniteSet(Pool!Holders) /\ Cardinality(Pool!Holders) \in Nat
<1>1. Pool!Holders \subseteq Callers
  BY DEF Pool!Holders
<1> QED BY <1>1, FS_Subset, FS_CardinalityType, PoolAssumption

\* Steps in which nobody gets or gives back a connection, and no new wait
\* begins without its request or its creation.
LEMMA NoneGranted ==
  ASSUME ConnInv,
         poolCall' \in [Callers -> CallRecords], asked' \subseteq PoolRequests,
         inUse' = inUse, orphans' = orphans,
         check' \in {"no", "pool", "get", "ping"}, check' = "ping" <=> check = "ping",
         \A c \in Callers : poolCall'[c].pc = "hold" <=> poolCall[c].pc = "hold",
         \A c \in Callers : poolCall'[c].pc = "wait" => [by |-> c, n |-> poolCall'[c].n] \in asked',
         \A q \in asked' : q.by = "check" => q.n = 1 /\ check' = "get",
         \A c \in Callers : poolCall'[c].pc = "pool" => entry' = "creating",
         check' = "pool" => entry' = "creating"
  PROVE  ConnInv'
<1>1. Pool!Holders' = Pool!Holders
  BY DEF Pool!Holders
<1>2. Pinging' = Pinging
  BY DEF Pinging
<1> QED BY <1>1, <1>2 DEF ConnInv

\* A caller's own step that neither takes nor gives back a connection.
LEMMA CallerStep ==
  ASSUME ConnInv, NEW c \in Callers, NEW x \in CallRecords,
         poolCall' = [poolCall EXCEPT ![c] = x],
         UNCHANGED <<asked, inUse, orphans, check>>,
         entry = "creating" => entry' = "creating",
         x.pc = "hold" <=> poolCall[c].pc = "hold",
         x.pc = "wait" => [by |-> c, n |-> x.n] \in asked,
         x.pc = "pool" => entry' = "creating"
  PROVE  ConnInv'
<1>1. poolCall \in [Callers -> CallRecords]
  BY DEF ConnInv
<1>2. poolCall' \in [Callers -> CallRecords]
      /\ \A d \in Callers : poolCall'[d] = IF d = c THEN x ELSE poolCall[d]
  BY <1>1
<1> QED BY <1>2, NoneGranted DEF ConnInv

\* The caller's record after a failed acquire.
LEMMA MissedRecord ==
  ASSUME ConnInv, NEW c \in Callers, Pool!Missed(c)
  PROVE  \E x \in CallRecords : /\ poolCall' = [poolCall EXCEPT ![c] = x]
                                /\ x.pc \in {"sleep", "failed"} /\ x.n = poolCall[c].n
<1>1. PICK y \in CallRecords : y = poolCall[c]
  BY DEF ConnInv
<1>2. PICK to \in {"sleep", "failed"} : poolCall' = [poolCall EXCEPT ![c].pc = to]
  BY DEF Pool!Missed
<1>3. PICK x : x = [y EXCEPT !.pc = to]
  OBVIOUS
<1>4. x \in CallRecords /\ x.pc = to /\ x.n = y.n
  BY <1>3 DEF CallRecords
<1>5. poolCall' = [poolCall EXCEPT ![c] = x]
  BY <1>1, <1>2, <1>3
<1> QED BY <1>1, <1>4, <1>5

\* What Asks does, for those who have no request at the driver.
LEMMA AsksStep ==
  ASSUME ConnInv, NEW at \in [Callers -> CallRecords], NEW who \in SUBSET Pool!Users,
         Pool!Asks(who, at), UNCHANGED <<inUse, orphans>>,
         \A c \in Callers : at[c].pc = "hold" <=> poolCall[c].pc = "hold",
         \A c \in Callers \cap who : at[c].pc = "pool",
         \A c \in Callers \ who : at[c] = poolCall[c],
         "check" \in who => check \in {"no", "pool"},
         \A c \in Callers \ who : at[c].pc = "pool" => entry' = "creating",
         "check" \in who \/ check # "pool" \/ entry' = "creating"
  PROVE  ConnInv'
<1>1. ASSUME NEW c \in Callers
      PROVE  /\ poolCall'[c] \in CallRecords
             /\ c \in who => poolCall'[c].pc = "wait" /\ poolCall'[c].n = 1
             /\ c \notin who => poolCall'[c] = poolCall[c]
  <2>1. PICK y \in CallRecords : y = at[c]
    OBVIOUS
  <2>2. PICK x : x = [y EXCEPT !.pc = "wait", !.n = 1]
    OBVIOUS
  <2>3. x \in CallRecords /\ x.pc = "wait" /\ x.n = 1
    BY <2>2 DEF CallRecords
  <2>4. poolCall'[c] = IF c \in who THEN x ELSE y
    BY <2>1, <2>2 DEF Pool!Asks
  <2> QED BY <2>1, <2>3, <2>4
<1>2. poolCall' \in [Callers -> CallRecords]
  BY <1>1 DEF Pool!Asks
<1>3. asked' = asked \cup {[by |-> c, n |-> 1] : c \in who}
      /\ check' = IF "check" \in who THEN "get" ELSE check
  BY DEF Pool!Asks
<1>4. asked' \subseteq PoolRequests
  BY <1>3 DEF ConnInv, PoolRequests
<1>5. check' \in {"no", "pool", "get", "ping"} /\ (check' = "ping" <=> check = "ping")
  BY <1>3 DEF ConnInv
<1>6. \A c \in Callers : poolCall'[c].pc = "hold" <=> poolCall[c].pc = "hold"
  BY <1>1
<1>7. ASSUME NEW c \in Callers, poolCall'[c].pc = "wait"
      PROVE  [by |-> c, n |-> poolCall'[c].n] \in asked'
  <2>1. CASE c \in who
    BY <2>1, <1>1, <1>3
  <2>2. CASE c \notin who
    BY <2>2, <1>1, <1>3, <1>7 DEF ConnInv
  <2> QED BY <2>1, <2>2
<1>8. ASSUME NEW q \in asked', q.by = "check"
      PROVE  q.n = 1 /\ check' = "get"
  <2>1. CASE q \in asked
    BY <2>1, <1>3, <1>8 DEF ConnInv
  <2>2. CASE q \in {[by |-> c, n |-> 1] : c \in who}
    BY <2>2, <1>3, <1>8
  <2> QED BY <2>1, <2>2, <1>3, <1>8
<1>9. \A c \in Callers : poolCall'[c].pc = "pool" => entry' = "creating"
  BY <1>1
<1>10. check' = "pool" => entry' = "creating"
  BY <1>3
<1> QED BY <1>2, <1>4, <1>5, <1>6, <1>7, <1>8, <1>9, <1>10, NoneGranted

LEMMA CreatedStep ==
  ASSUME ConnInv, Pool!Created
  PROVE  ConnInv'
<1>1. Pool!Asks(Pool!Waiting, poolCall) /\ UNCHANGED <<inUse, orphans>>
  BY DEF Pool!Created
<1>2. Pool!Waiting \subseteq Pool!Users
  BY DEF Pool!Waiting, Pool!Users
<1>3. /\ \A c \in Callers \cap Pool!Waiting : poolCall[c].pc = "pool"
      /\ \A c \in Callers \ Pool!Waiting : poolCall[c].pc # "pool"
      /\ "check" \in Pool!Waiting <=> check = "pool"
  BY PoolAssumption DEF Pool!Waiting
<1>4. poolCall \in [Callers -> CallRecords]
  BY DEF ConnInv
<1> HIDE DEF Pool!Waiting
<1> QED BY <1>1, <1>2, <1>3, <1>4, AsksStep

LEMMA CreateFailsStep ==
  ASSUME ConnInv, Pool!CreateFails
  PROVE  ConnInv'
<1>1. UNCHANGED <<asked, inUse, orphans>> /\ entry = "creating"
  BY DEF Pool!CreateFails
<1>2. CASE UNCHANGED <<entry, poolCall, check>>
  BY <1>1, <1>2, NoneGranted DEF ConnInv
<1>3. CASE /\ entry' = "rejected"
           /\ poolCall' = [c \in Callers |-> IF poolCall[c].pc = "pool" THEN [poolCall[c] EXCEPT !.pc = "failed"]
                                                              ELSE poolCall[c]]
           /\ IF check = "pool" THEN Pool!Verdict(FALSE) ELSE UNCHANGED <<check, fails, healthy, recent>>
  <2>1. ASSUME NEW c \in Callers
        PROVE  /\ poolCall'[c] \in CallRecords /\ poolCall'[c].pc # "pool"
               /\ poolCall'[c].pc = "hold" <=> poolCall[c].pc = "hold"
               /\ poolCall'[c].pc = "wait" => poolCall'[c] = poolCall[c]
    <3>1. PICK y \in CallRecords : y = poolCall[c]
      BY DEF ConnInv
    <3>2. PICK x : x = [y EXCEPT !.pc = "failed"]
      OBVIOUS
    <3>3. x \in CallRecords /\ x.pc = "failed"
      BY <3>2 DEF CallRecords
    <3>4. poolCall'[c] = IF y.pc = "pool" THEN x ELSE y
      BY <1>3, <3>1, <3>2
    <3> QED BY <3>1, <3>3, <3>4
  <2>2. poolCall' \in [Callers -> CallRecords]
    BY <2>1, <1>3
  <2>3. check' = IF check = "pool" THEN "no" ELSE check
    BY <1>3 DEF Pool!Verdict
  <2>4. \A q \in asked' : q.by = "check" => q.n = 1 /\ check' = "get"
    BY <1>1, <2>3 DEF ConnInv
  <2>5. check' \in {"no", "pool", "get", "ping"} /\ (check' = "ping" <=> check = "ping")
        /\ check' # "pool"
    BY <2>3 DEF ConnInv
  <2>6. \A c \in Callers : poolCall'[c].pc = "wait" => [by |-> c, n |-> poolCall'[c].n] \in asked'
    BY <1>1, <2>1 DEF ConnInv
  <2>7. asked' \subseteq PoolRequests
    BY <1>1 DEF ConnInv
  <2> QED BY <1>1, <2>1, <2>2, <2>4, <2>5, <2>6, <2>7, NoneGranted
<1> QED BY <1>2, <1>3 DEF Pool!CreateFails

LEMMA BeginStep ==
  ASSUME ConnInv, NEW c \in Callers, NEW probe \in BOOLEAN, Pool!Begin(c, probe)
  PROVE  ConnInv'
<1>1. PICK x \in CallRecords : x = [pc |-> "pool", n |-> 0, probe |-> probe]
  BY DEF CallRecords
<1>2. PICK at : at = [poolCall EXCEPT ![c] = x]
  OBVIOUS
<1>3. poolCall \in [Callers -> CallRecords] /\ poolCall[c].pc = "idle"
  BY DEF ConnInv, Pool!Begin
<1>4. at \in [Callers -> CallRecords] /\ at[c] = x /\ \A d \in Callers \ {c} : at[d] = poolCall[d]
  BY <1>2, <1>3
<1>5. x.pc = "pool"
  BY <1>1
<1>6. UNCHANGED <<inUse, orphans>>
  BY DEF Pool!Begin
<1>7. CASE poolCall' = [at EXCEPT ![c].pc = "failed"] /\ UNCHANGED <<entry, asked, check>>
  <2>1. PICK z : z = [x EXCEPT !.pc = "failed"]
    OBVIOUS
  <2>2. z \in CallRecords /\ z.pc = "failed"
    BY <2>1 DEF CallRecords
  <2>3. poolCall' = [poolCall EXCEPT ![c] = z]
    BY <1>2, <1>3, <1>4, <1>7, <2>1
  <2> QED BY <1>3, <1>6, <1>7, <2>2, <2>3, CallerStep
<1>8. CASE Pool!Asks({c}, at) /\ UNCHANGED entry
  <2>1. {c} \in SUBSET Pool!Users /\ "check" \notin {c}
    BY PoolAssumption DEF Pool!Users
  <2>2. \A d \in Callers : at[d].pc = "hold" <=> poolCall[d].pc = "hold"
    BY <1>3, <1>4, <1>5
  <2>3. \A d \in Callers \ {c} : at[d].pc = "pool" => entry' = "creating"
    BY <1>4, <1>8 DEF ConnInv
  <2>4. check # "pool" \/ entry' = "creating"
    BY <1>8 DEF ConnInv
  <2> QED BY <1>4, <1>5, <1>6, <1>8, <2>1, <2>2, <2>3, <2>4, AsksStep
<1>9. CASE entry' = "creating" /\ poolCall' = at /\ UNCHANGED <<asked, check>>
  BY <1>2, <1>3, <1>5, <1>6, <1>9, CallerStep
<1> QED BY <1>1, <1>2, <1>7, <1>8, <1>9 DEF Pool!Begin

\* A timeout, the retry after it, and the evaluation of a probe.
LEMMA WaitEndsStep ==
  ASSUME ConnInv, NEW c \in Callers, Pool!TimesOut(c) \/ Pool!Again(c) \/ Pool!Evaluated(c)
  PROVE  ConnInv'
<1>1. PICK y \in CallRecords : y = poolCall[c]
  BY DEF ConnInv
<1>2. poolCall \in [Callers -> CallRecords]
  BY DEF ConnInv
<1>3. CASE Pool!TimesOut(c)
  <2>1. y.pc = "wait" /\ Pool!Missed(c) /\ UNCHANGED <<entry, asked, inUse, orphans, check>>
    BY <1>1, <1>3 DEF Pool!TimesOut
  <2>2. PICK x \in CallRecords : /\ poolCall' = [poolCall EXCEPT ![c] = x]
                                 /\ x.pc \in {"sleep", "failed"}
    BY <2>1, MissedRecord
  <2> QED BY <1>1, <2>1, <2>2, CallerStep
<1>4. CASE Pool!Evaluated(c)
  <2>1. y.pc = "passed" /\ UNCHANGED <<entry, asked, inUse, orphans, check>>
        /\ poolCall' = [poolCall EXCEPT ![c].pc = "ok"]
    BY <1>1, <1>4 DEF Pool!Evaluated
  <2>2. PICK x : x = [y EXCEPT !.pc = "ok"]
    OBVIOUS
  <2>3. x \in CallRecords /\ x.pc = "ok"
    BY <2>2 DEF CallRecords
  <2>4. poolCall' = [poolCall EXCEPT ![c] = x]
    BY <1>1, <1>2, <2>1, <2>2
  <2> QED BY <1>1, <2>1, <2>3, <2>4, CallerStep
<1>5. CASE Pool!Again(c)
  <2>1. PICK k \in Nat : k = y.n + 1
    BY DEF CallRecords
  <2>2. PICK x : x = [y EXCEPT !.pc = "wait", !.n = k]
    OBVIOUS
  <2>3. x \in CallRecords /\ x.pc = "wait" /\ x.n = k
    BY <2>2 DEF CallRecords
  <2>4. y.pc = "sleep" /\ UNCHANGED <<entry, inUse, orphans, check>>
        /\ asked' = asked \cup {[by |-> c, n |-> k]}
    BY <1>1, <1>5, <2>1 DEF Pool!Again
  <2>5. poolCall' = [poolCall EXCEPT ![c] = x]
    <3>1. [poolCall EXCEPT ![c].pc = "wait", ![c].n = @ + 1] = [poolCall EXCEPT ![c] = x]
      BY <1>1, <1>2, <2>1, <2>2
    <3> QED BY <3>1, <1>5 DEF Pool!Again
  <2>6. poolCall' \in [Callers -> CallRecords]
        /\ \A d \in Callers : poolCall'[d] = IF d = c THEN x ELSE poolCall[d]
    BY <1>2, <2>3, <2>5
  <2>7. asked' \subseteq PoolRequests
    BY <2>4 DEF ConnInv, PoolRequests, Pool!Users
  <2>8. \A d \in Callers : poolCall'[d].pc = "wait" => [by |-> d, n |-> poolCall'[d].n] \in asked'
    BY <2>3, <2>4, <2>6 DEF ConnInv
  <2>9. \A q \in asked' : q.by = "check" => q.n = 1 /\ check' = "get"
    <3>1. c # "check"
      BY PoolAssumption
    <3> QED BY <3>1, <2>4 DEF ConnInv
  <2>10. \A d \in Callers : (poolCall'[d].pc = "hold" <=> poolCall[d].pc = "hold")
           /\ (poolCall'[d].pc = "pool" => entry' = "creating")
    BY <1>1, <2>3, <2>4, <2>6 DEF ConnInv
  <2>11. /\ check' \in {"no", "pool", "get", "ping"} /\ (check' = "ping" <=> check = "ping")
         /\ check' = "pool" => entry' = "creating"
    BY <2>4 DEF ConnInv
  <2> QED BY <2>4, <2>6, <2>7, <2>8, <2>9, <2>10, <2>11, NoneGranted
<1> QED BY <1>3, <1>4, <1>5

\* A grant: to the caller who still waits, to the check, or to nobody.
LEMMA GrantedStep ==
  ASSUME ConnInv, NEW q \in asked, Pool!Granted(q)
  PROVE  ConnInv'
<1>1. /\ asked' = asked \ {q} /\ inUse' = inUse + 1 /\ entry' = entry
      /\ orphans' = IF Pool!Holds(q) THEN orphans ELSE orphans + 1
      /\ poolCall' = IF q.by # "check" /\ Pool!Holds(q) THEN [poolCall EXCEPT ![q.by].pc = "hold"] ELSE poolCall
      /\ check' = IF q.by = "check" THEN "ping" ELSE check
  BY DEF Pool!Granted
<1>2. /\ poolCall \in [Callers -> CallRecords] /\ asked \subseteq PoolRequests /\ orphans \in Nat
      /\ check \in {"no", "pool", "get", "ping"}
      /\ inUse = Cardinality(Pool!Holders) + orphans + Pinging
  BY DEF ConnInv
<1>3. q \in PoolRequests
  BY <1>2
<1>4. asked' \subseteq PoolRequests
  BY <1>1, <1>2
<1>5. IsFiniteSet(Pool!Holders) /\ Cardinality(Pool!Holders) \in Nat
  BY HoldersFinite
<1>6. Pinging \in {0, 1}
  BY DEF Pinging
<1>7. CASE q.by = "check"
  <2>1. check = "get" /\ q.n = 1
    BY <1>7 DEF ConnInv
  <2>2. Pool!Holds(q)
    BY <1>7, <2>1 DEF Pool!Holds
  <2>3. poolCall' = poolCall /\ orphans' = orphans /\ check' = "ping"
    BY <1>1, <1>7, <2>2
  <2>4. Pool!Holders' = Pool!Holders
    BY <2>3 DEF Pool!Holders
  <2>5. Pinging = 0 /\ Pinging' = 1
    BY <2>1, <2>3 DEF Pinging
  <2>6. inUse' = Cardinality(Pool!Holders') + orphans' + Pinging'
    BY <1>1, <1>2, <1>5, <2>3, <2>4, <2>5
  <2>7. \A p \in asked' : p.by # "check"
    <3>1. ASSUME NEW p \in asked, p.by = "check" PROVE p = q
      <4>1. p \in PoolRequests /\ p.n = 1
        BY <3>1, <1>2 DEF ConnInv
      <4> QED BY <4>1, <1>3, <1>7, <2>1, <3>1 DEF PoolRequests
    <3> QED BY <3>1, <1>1
  <2>8. \A c \in Callers : poolCall'[c].pc = "wait" => [by |-> c, n |-> poolCall'[c].n] \in asked'
    <3>1. ASSUME NEW c \in Callers PROVE [by |-> c, n |-> poolCall[c].n] # q
      BY <1>7, PoolAssumption
    <3> QED BY <3>1, <1>1, <2>3 DEF ConnInv
  <2>9. \A c \in Callers : poolCall'[c].pc = "pool" => entry' = "creating"
    BY <1>1, <2>3 DEF ConnInv
  <2> QED BY <1>2, <1>4, <2>3, <2>6, <2>7, <2>8, <2>9 DEF ConnInv
<1>8. CASE q.by # "check" /\ Pool!Holds(q)
  <2>1. PICK c \in Callers : c = q.by
    BY <1>3, <1>8 DEF PoolRequests, Pool!Users
  <2>2. PICK y \in CallRecords : y = poolCall[c]
    BY <1>2
  <2>3. y.pc = "wait" /\ y.n = q.n
    BY <1>8, <2>1, <2>2 DEF Pool!Holds
  <2>4. PICK x : x = [y EXCEPT !.pc = "hold"]
    OBVIOUS
  <2>5. x \in CallRecords /\ x.pc = "hold"
    BY <2>4 DEF CallRecords
  <2>6. poolCall' = [poolCall EXCEPT ![c] = x]
    BY <1>1, <1>2, <1>8, <2>1, <2>2, <2>4
  <2>7. poolCall' \in [Callers -> CallRecords]
        /\ \A d \in Callers : poolCall'[d] = IF d = c THEN x ELSE poolCall[d]
    BY <1>2, <2>5, <2>6
  <2>8. Pool!Holders' = Pool!Holders \cup {c} /\ c \notin Pool!Holders
    BY <2>2, <2>3, <2>5, <2>7 DEF Pool!Holders
  <2>9. Cardinality(Pool!Holders') = Cardinality(Pool!Holders) + 1
    BY <1>5, <2>8, FS_AddElement
  <2>10. check' = check /\ orphans' = orphans /\ Pinging' = Pinging
    BY <1>1, <1>8 DEF Pinging
  <2>11. inUse' = Cardinality(Pool!Holders') + orphans' + Pinging'
    BY <1>1, <1>2, <1>5, <1>6, <2>9, <2>10
  <2>12. ASSUME NEW d \in Callers, poolCall'[d].pc = "wait"
         PROVE  [by |-> d, n |-> poolCall'[d].n] \in asked'
    <3>1. d # c
      BY <2>5, <2>7, <2>12
    <3>2. [by |-> d, n |-> poolCall[d].n] \in asked
      BY <3>1, <2>7, <2>12 DEF ConnInv
    <3>3. [by |-> d, n |-> poolCall[d].n] # q
      BY <3>1, <2>1
    <3> QED BY <3>1, <3>2, <3>3, <2>7, <1>1
  <2>13. \A d \in Callers : poolCall'[d].pc = "pool" => entry' = "creating"
    BY <1>1, <2>5, <2>7 DEF ConnInv
  <2>14. \A p \in asked' : p.by = "check" => p.n = 1 /\ check' = "get"
    BY <1>1, <2>10 DEF ConnInv
  <2> QED BY <1>1, <1>2, <1>4, <2>7, <2>10, <2>11, <2>12, <2>13, <2>14 DEF ConnInv
<1>9. CASE q.by # "check" /\ ~Pool!Holds(q)
  <2>1. poolCall' = poolCall /\ check' = check /\ orphans' = orphans + 1
    BY <1>1, <1>9
  <2>2. Pool!Holders' = Pool!Holders /\ Pinging' = Pinging
    BY <2>1 DEF Pool!Holders, Pinging
  <2>3. inUse' = Cardinality(Pool!Holders') + orphans' + Pinging'
    BY <1>1, <1>2, <1>5, <1>6, <2>1, <2>2
  <2>4. ASSUME NEW d \in Callers, poolCall'[d].pc = "wait"
        PROVE  [by |-> d, n |-> poolCall'[d].n] \in asked'
    <3>1. [by |-> d, n |-> poolCall[d].n] \in asked
      BY <2>1, <2>4 DEF ConnInv
    <3>2. [by |-> d, n |-> poolCall[d].n] # q
      BY <1>9, <2>1, <2>4 DEF Pool!Holds
    <3> QED BY <3>1, <3>2, <2>1, <1>1
  <2>5. \A p \in asked' : p.by = "check" => p.n = 1 /\ check' = "get"
    BY <1>1, <2>1 DEF ConnInv
  <2>6. orphans' \in Nat
    BY <1>2, <2>1
  <2>7. /\ \A d \in Callers : poolCall'[d].pc = "pool" => entry' = "creating"
        /\ check' = "pool" => entry' = "creating"
    BY <1>1, <2>1 DEF ConnInv
  <2> QED BY <1>2, <1>4, <2>1, <2>3, <2>4, <2>5, <2>6, <2>7 DEF ConnInv
<1> QED BY <1>7, <1>8, <1>9

\* A request that the driver rejects.
LEMMA RefusedStep ==
  ASSUME ConnInv, NEW q \in asked, Pool!Refused(q)
  PROVE  ConnInv'
<1>1. asked' = asked \ {q} /\ UNCHANGED <<entry, inUse, orphans>>
  BY DEF Pool!Refused
<1>2. poolCall \in [Callers -> CallRecords] /\ asked' \subseteq PoolRequests /\ q \in PoolRequests
  BY <1>1 DEF ConnInv
<1>3. CASE ~Pool!Holds(q) /\ UNCHANGED <<poolCall, check>>
  <2>1. q.by # "check"
    BY <1>3 DEF ConnInv, Pool!Holds
  <2>2. \A d \in Callers : poolCall[d].pc = "wait" => [by |-> d, n |-> poolCall[d].n] # q
    BY <1>3, <2>1 DEF Pool!Holds
  <2>3. \A d \in Callers : poolCall'[d].pc = "wait" => [by |-> d, n |-> poolCall'[d].n] \in asked'
    BY <1>1, <1>3, <2>2 DEF ConnInv
  <2>4. \A p \in asked' : p.by = "check" => p.n = 1 /\ check' = "get"
    BY <1>1, <1>3 DEF ConnInv
  <2> QED BY <1>1, <1>2, <1>3, <2>3, <2>4, NoneGranted DEF ConnInv
<1>4. CASE q.by = "check" /\ Pool!Verdict(FALSE) /\ poolCall' = poolCall
  <2>1. check = "get" /\ check' = "no" /\ q.n = 1
    BY <1>4 DEF ConnInv, Pool!Verdict
  <2>2. \A p \in asked' : p.by # "check"
    <3>1. ASSUME NEW p \in asked, p.by = "check" PROVE p = q
      <4>1. p \in PoolRequests /\ p.n = 1
        BY <3>1 DEF ConnInv
      <4> QED BY <4>1, <1>2, <1>4, <2>1, <3>1 DEF PoolRequests
    <3> QED BY <3>1, <1>1
  <2>3. \A c \in Callers : poolCall'[c].pc = "wait" => [by |-> c, n |-> poolCall'[c].n] \in asked'
    <3>1. ASSUME NEW c \in Callers PROVE [by |-> c, n |-> poolCall[c].n] # q
      BY <1>4, PoolAssumption
    <3> QED BY <3>1, <1>1, <1>4 DEF ConnInv
  <2>4. \A c \in Callers : poolCall'[c].pc = "pool" => entry' = "creating"
    BY <1>1, <1>4 DEF ConnInv
  <2>5. check' \in {"no", "pool", "get", "ping"} /\ (check' = "ping" <=> check = "ping")
        /\ check' # "pool"
    BY <2>1
  <2> QED BY <1>1, <1>2, <1>4, <2>2, <2>3, <2>4, <2>5, NoneGranted
<1>5. CASE q.by # "check" /\ Pool!Holds(q) /\ Pool!Missed(q.by) /\ check' = check
  <2>1. PICK c \in Callers : c = q.by
    BY <1>2, <1>5 DEF PoolRequests, Pool!Users
  <2>2. PICK x \in CallRecords : /\ poolCall' = [poolCall EXCEPT ![c] = x]
                                 /\ x.pc \in {"sleep", "failed"}
    BY <1>5, <2>1, MissedRecord
  <2>3. poolCall' \in [Callers -> CallRecords]
        /\ \A d \in Callers : poolCall'[d] = IF d = c THEN x ELSE poolCall[d]
    BY <1>2, <2>2
  <2>4. poolCall[c].pc = "wait"
    BY <1>5, <2>1 DEF Pool!Holds
  <2>5. ASSUME NEW d \in Callers, poolCall'[d].pc = "wait"
        PROVE  [by |-> d, n |-> poolCall'[d].n] \in asked'
    <3>1. d # c
      BY <2>2, <2>3, <2>5
    <3>2. [by |-> d, n |-> poolCall[d].n] \in asked
      BY <3>1, <2>3, <2>5 DEF ConnInv
    <3>3. [by |-> d, n |-> poolCall[d].n] # q
      BY <3>1, <2>1
    <3> QED BY <3>1, <3>2, <3>3, <2>3, <1>1
  <2>6. \A d \in Callers : (poolCall'[d].pc = "hold" <=> poolCall[d].pc = "hold")
          /\ (poolCall'[d].pc = "pool" => entry' = "creating")
    BY <1>1, <2>2, <2>3, <2>4 DEF ConnInv
  <2>7. \A p \in asked' : p.by = "check" => p.n = 1 /\ check' = "get"
    BY <1>1, <1>5 DEF ConnInv
  <2>8. check' \in {"no", "pool", "get", "ping"} /\ (check' = "pool" => entry' = "creating")
    BY <1>1, <1>5 DEF ConnInv
  <2> QED BY <1>1, <1>2, <1>5, <2>3, <2>5, <2>6, <2>7, <2>8, NoneGranted
<1> QED BY <1>3, <1>4, <1>5 DEF Pool!Refused

\* A connection that is given back.
LEMMA DoneStep ==
  ASSUME ConnInv, NEW c \in Callers, NEW ok \in BOOLEAN, Pool!Done(c, ok)
  PROVE  ConnInv'
<1>1. PICK y \in CallRecords : y = poolCall[c]
  BY DEF ConnInv
<1>2. PICK to \in {"failed", "passed", "ok"} :
        to = IF ~ok THEN "failed" ELSE IF poolCall[c].probe THEN "passed" ELSE "ok"
  OBVIOUS
<1>3. PICK x : x = [y EXCEPT !.pc = to]
  OBVIOUS
<1>4. x \in CallRecords /\ x.pc = to
  BY <1>3 DEF CallRecords
<1>5. poolCall \in [Callers -> CallRecords] /\ orphans \in Nat
      /\ inUse = Cardinality(Pool!Holders) + orphans + Pinging
  BY DEF ConnInv
<1>6. y.pc = "hold" /\ inUse' = inUse - 1 /\ UNCHANGED <<entry, asked, orphans, check>>
      /\ poolCall' = [poolCall EXCEPT ![c].pc = to]
  BY <1>1, <1>2 DEF Pool!Done
<1>7. poolCall' = [poolCall EXCEPT ![c] = x]
  BY <1>1, <1>3, <1>5, <1>6
<1>8. poolCall' \in [Callers -> CallRecords]
      /\ \A d \in Callers : poolCall'[d] = IF d = c THEN x ELSE poolCall[d]
  BY <1>4, <1>5, <1>7
<1>9. Pool!Holders' = Pool!Holders \ {c} /\ c \in Pool!Holders
  BY <1>1, <1>2, <1>4, <1>6, <1>8 DEF Pool!Holders
<1>10. IsFiniteSet(Pool!Holders) /\ Cardinality(Pool!Holders) \in Nat
  BY HoldersFinite
<1>11. Cardinality(Pool!Holders') = Cardinality(Pool!Holders) - 1
  BY <1>9, <1>10, FS_RemoveElement
<1>12. Pinging' = Pinging /\ Pinging \in {0, 1}
  BY <1>6 DEF Pinging
<1>13. inUse' = Cardinality(Pool!Holders') + orphans' + Pinging'
  BY <1>5, <1>6, <1>10, <1>11, <1>12
<1>14. \A d \in Callers :
         /\ poolCall'[d].pc = "wait" => [by |-> d, n |-> poolCall'[d].n] \in asked'
         /\ poolCall'[d].pc = "pool" => entry' = "creating"
  BY <1>2, <1>4, <1>6, <1>8 DEF ConnInv
<1> QED BY <1>6, <1>8, <1>13, <1>14 DEF ConnInv

\* The monitor: a check that starts, and its ping.
LEMMA CheckStep ==
  ASSUME ConnInv, NEW b \in BOOLEAN, Pool!RunCheck(b) \/ Pool!Pinged(b)
  PROVE  ConnInv'
<1>1. poolCall \in [Callers -> CallRecords] /\ orphans \in Nat
      /\ inUse = Cardinality(Pool!Holders) + orphans + Pinging
  BY DEF ConnInv
<1>2. CASE Pool!RunCheck(b)
  <2>1. UNCHANGED <<inUse, orphans>>
    BY <1>2 DEF Pool!RunCheck
  <2>2. CASE UNCHANGED <<entry, poolCall, asked, check>>
    BY <2>1, <2>2, NoneGranted DEF ConnInv
  <2>3. CASE check = "no" /\ Pool!Verdict(FALSE) /\ UNCHANGED <<entry, poolCall, asked>>
    <3>1. check' = check
      BY <2>3 DEF Pool!Verdict
    <3> QED BY <2>1, <2>3, <3>1, NoneGranted DEF ConnInv
  <2>4. CASE check = "no" /\ Pool!Asks({"check"}, poolCall) /\ UNCHANGED entry
    <3>1. {"check"} \in SUBSET Pool!Users /\ \A c \in Callers : c \notin {"check"}
      BY PoolAssumption DEF Pool!Users
    <3>2. \A c \in Callers : poolCall[c].pc = "pool" => entry' = "creating"
      BY <2>4 DEF ConnInv
    <3> QED BY <1>1, <2>1, <2>4, <3>1, <3>2, AsksStep
  <2>5. CASE check = "no" /\ entry' = "creating" /\ check' = "pool" /\ UNCHANGED <<poolCall, asked>>
    <3>1. \A q \in asked : q.by # "check"
      BY <2>5 DEF ConnInv
    <3> QED BY <2>1, <2>5, <3>1, NoneGranted DEF ConnInv
  <2> QED BY <1>2, <2>2, <2>3, <2>4, <2>5 DEF Pool!RunCheck
<1>3. CASE Pool!Pinged(b)
  <2>1. /\ check = "ping" /\ check' = "no" /\ inUse' = inUse - 1
        /\ UNCHANGED <<entry, poolCall, asked, orphans>>
    BY <1>3 DEF Pool!Pinged, Pool!Verdict
  <2>2. Pool!Holders' = Pool!Holders /\ Pinging = 1 /\ Pinging' = 0
    BY <2>1 DEF Pool!Holders, Pinging
  <2>3. Cardinality(Pool!Holders) \in Nat
    BY HoldersFinite
  <2>4. inUse' = Cardinality(Pool!Holders') + orphans' + Pinging'
    BY <1>1, <2>1, <2>2, <2>3
  <2>5. \A q \in asked' : q.by # "check"
    BY <2>1 DEF ConnInv
  <2>6. \A c \in Callers :
          /\ poolCall'[c].pc = "wait" => [by |-> c, n |-> poolCall'[c].n] \in asked'
          /\ poolCall'[c].pc = "pool" => entry' = "creating"
    BY <2>1 DEF ConnInv
  <2> QED BY <1>1, <2>1, <2>4, <2>5, <2>6 DEF ConnInv
<1> QED BY <1>2, <1>3

LEMMA ConnInvStep == ASSUME ConnInv, [Pool!Next]_Pool!vars PROVE ConnInv'
<1>1. CASE Pool!Created \/ Pool!CreateFails
  BY <1>1, CreatedStep, CreateFailsStep
<1>2. CASE Pool!Evict \/ Pool!CloseAll \/ Pool!CloseCreated \/ Pool!PoolCloses \/ Pool!AllClosed \/ UNCHANGED Pool!vars
  <2>1. UNCHANGED <<poolCall, asked, inUse, orphans, check>> /\ (entry = "creating" => entry' = "creating")
    BY <1>2 DEF Pool!Evict, Pool!CloseAll, Pool!CloseCreated, Pool!PoolCloses, Pool!AllClosed, Pool!vars
  <2> QED BY <2>1, NoneGranted DEF ConnInv
<1>3. ASSUME NEW c \in Callers, NEW b \in BOOLEAN, Pool!Begin(c, b) \/ Pool!Done(c, b) PROVE ConnInv'
  BY <1>3, BeginStep, DoneStep
<1>4. ASSUME NEW c \in Callers, Pool!TimesOut(c) \/ Pool!Again(c) \/ Pool!Evaluated(c) PROVE ConnInv'
  BY <1>4, WaitEndsStep
<1>5. ASSUME NEW q \in asked, Pool!Granted(q) \/ Pool!Refused(q) PROVE ConnInv'
  BY <1>5, GrantedStep, RefusedStep
<1>6. CASE Pool!OrphanCloses
  <2>1. /\ orphans > 0 /\ orphans' = orphans - 1 /\ inUse' = inUse - 1
        /\ UNCHANGED <<entry, poolCall, asked, check>>
    BY <1>6 DEF Pool!OrphanCloses
  <2>2. Pool!Holders' = Pool!Holders /\ Pinging' = Pinging /\ Pinging \in {0, 1}
    BY <2>1 DEF Pool!Holders, Pinging
  <2>3. orphans \in Nat /\ Cardinality(Pool!Holders) \in Nat
        /\ inUse = Cardinality(Pool!Holders) + orphans + Pinging
    BY HoldersFinite DEF ConnInv
  <2>4. orphans' \in Nat /\ inUse' = Cardinality(Pool!Holders') + orphans' + Pinging'
    BY <2>1, <2>2, <2>3
  <2> QED BY <2>1, <2>4 DEF ConnInv
<1>7. ASSUME NEW b \in BOOLEAN, Pool!RunCheck(b) \/ Pool!Pinged(b) PROVE ConnInv'
  BY <1>7, CheckStep
<1> QED BY <1>1, <1>2, <1>3, <1>4, <1>5, <1>6, <1>7 DEF Pool!Next

LEMMA PoolInvInit == ASSUME Pool!Init PROVE ConnInv /\ BreakInv
<1>1. /\ entry = "none" /\ poolCall = [c \in Callers |-> Pool!Idle] /\ asked = {} /\ inUse = 0
      /\ orphans = 0 /\ check = "no" /\ fails = 0 /\ healthy = TRUE /\ recent = <<>>
  BY DEF Pool!Init
<1>2. Pool!Idle \in CallRecords /\ Pool!Idle.pc = "idle"
  BY DEF Pool!Idle, CallRecords
<1>3. Pool!Holders = {}
  BY <1>1, <1>2 DEF Pool!Holders
<1>4. inUse = Cardinality(Pool!Holders) + orphans + Pinging
  BY <1>1, <1>3, FS_EmptySet DEF Pinging
<1>5. ConnInv
  BY <1>1, <1>2, <1>4 DEF ConnInv
<1>6. recent \in Seq(BOOLEAN) /\ Len(recent) = 0
  BY <1>1
<1>7. BreakInv
  BY <1>1, <1>6, PoolAssumption DEF BreakInv
<1> QED BY <1>5, <1>7

\* The counts of the component are those of this module.
LEMMA ConnectionsAreCounted == \A S : Pool!Cardinality(S) = Cardinality(S)
BY DEF Pool!Cardinality, Cardinality

LEMMA PoolInvSuffices == ConnInv /\ BreakInv => Pool!PoolIsSound
<1> SUFFICES ASSUME ConnInv, BreakInv PROVE Pool!PoolIsSound
  OBVIOUS
<1>1. Pool!NoConnectionLeaks
  <2>1. Pool!Waiting # {} => entry = "creating"
    BY DEF ConnInv, Pool!Waiting
  <2> QED BY <2>1, ConnectionsAreCounted DEF ConnInv, Pool!NoConnectionLeaks, Pinging
<1>2. Pool!BreakerIsEarned
  <2>1. SUFFICES ASSUME ~healthy
                 PROVE  Len(recent) = MaxFailures /\ \A i \in DOMAIN recent : ~recent[i]
    BY DEF Pool!BreakerIsEarned
  <2>2. fails >= MaxFailures /\ fails \in Nat /\ Len(recent) \in Nat /\ MaxFailures \in Nat
        /\ Len(recent) <= MaxFailures /\ DOMAIN recent = 1..Len(recent)
    BY <2>1, PoolAssumption DEF BreakInv
  <2>5. fails <= Len(recent) \/ Len(recent) = MaxFailures
    BY DEF BreakInv
  <2>6. \A f, m, n \in Nat : f >= m /\ n <= m /\ (f <= n \/ n = m) => n = m
    OBVIOUS
  <2>3. Len(recent) = MaxFailures
    BY <2>2, <2>5, <2>6, Zenon
  <2>4. \A i \in 1..Len(recent) : i <= fails
    BY <2>2
  <2> QED BY <2>2, <2>3, <2>4 DEF BreakInv
<1> QED BY <1>1, <1>2 DEF Pool!PoolIsSound

\* The pool by itself: for any finite set of callers and any of the limits.
THEOREM PoolPartIsSound == Pool!Spec => []Pool!PoolIsSound
<1> DEFINE Inv == ConnInv /\ BreakInv
<1>1. Pool!Init => Inv
  BY PoolInvInit
<1>2. Inv /\ [Pool!Next]_Pool!vars => Inv'
  BY ConnInvStep, BreakInvStep
<1>3. Inv => Pool!PoolIsSound
  BY PoolInvSuffices
<1> HIDE DEF Inv
<1> QED BY <1>1, <1>2, <1>3, PTL DEF Pool!Spec

\* A step of the composition is one of the pool, or leaves it alone.
LEMMA PoolSteps == [Next]_vars => [Pool!Next]_Pool!vars
<1> SUFFICES ASSUME [Next]_vars, ~Pool!Next PROVE UNCHANGED Pool!vars
  OBVIOUS
<1>1. UNCHANGED pool
  BY DEF Next, vars
<1> QED BY <1>1 DEF pool, Pool!vars

\* No connection leaks and nobody waits for a pool that will not come, whatever
\* times out, is retried or granted late, and the breaker is open only after its
\* row of failures: for any callers and limits.
THEOREM PoolIsSoundTheorem == Spec => []PoolIsSound
<1> DEFINE Inv == ConnInv /\ BreakInv
<1>1. Init => Inv
  BY PoolInvInit DEF Init
<1>2. Inv /\ [Next]_vars => Inv'
  BY ConnInvStep, BreakInvStep, PoolSteps
<1>3. Inv => PoolIsSound
  BY PoolInvSuffices DEF PoolIsSound
<1> HIDE DEF Inv
<1> QED BY <1>1, <1>2, <1>3, PTL DEF Spec

-----------------------------------------------------------------------------
(* RateWindow                                                              *)

LEMMA TimesGrows ==
  ASSUME NEW n \in Nat, NEW x \in Nat, NEW y \in Nat, x <= y
  PROVE  n * x <= n * y
OBVIOUS

\* The quotient of x is the number whose multiple of n is at most x, and the next not.
LEMMA QuotientIs ==
  ASSUME NEW x \in Nat, NEW n \in Nat, n > 0, NEW d \in Nat
  PROVE  n * d <= x <=> d <= x \div n
<1> DEFINE p == x \div n
           r == x % n
<1>1. p \in Nat /\ r \in 0..(n - 1) /\ x = n * p + r
  BY Division
<1> HIDE DEF p, r
<1>2. CASE d <= p
  <2>1. n * d <= n * p
    BY <1>1, <1>2, TimesGrows
  <2> QED BY <1>1, <1>2, <2>1 DEF p
<1>3. CASE d >= p + 1
  <2>1. n * (p + 1) <= n * d
    BY <1>1, <1>3, TimesGrows
  <2>2. n * (p + 1) = n * p + n
    BY <1>1
  <2>3. n * d > x
    BY <1>1, <2>1, <2>2
  <2> QED BY <1>1, <1>3, <2>3 DEF p
<1> QED BY <1>1, <1>2, <1>3

\* The bucket of a time, and how far into it the time is.
LEMMA BucketIs ==
  ASSUME NEW b \in Nat, NEW s \in Nat, s < Window
  PROVE  Rate!BucketAt(b * Window + s) = b /\ (b * Window + s) % Window = s
<1> DEFINE t == b * Window + s
           p == t \div Window
           r == t % Window
<1>1. Window \in Nat /\ Window > 0
  BY RateAssumption
<1>2. t \in Nat
  BY <1>1
<1>3. p \in Nat /\ r \in 0..(Window - 1) /\ t = Window * p + r
  BY <1>1, <1>2, Division
<1>4. Window * b <= t
  BY <1>1
<1>5. b <= p
  BY <1>1, <1>2, <1>4, QuotientIs
<1>6. ~(Window * (b + 1) <= t)
  <2>1. Window * (b + 1) = Window * b + Window /\ t = Window * b + s
    BY <1>1
  <2> HIDE DEF t
  <2> QED BY <1>1, <2>1
<1>7. ~(b + 1 <= p)
  BY <1>1, <1>2, <1>6, QuotientIs
<1>8. p = b
  BY <1>3, <1>5, <1>7
<1>9. t = Window * b + s
  BY <1>1
<1> HIDE DEF p, r, t
<1>10. r = s
  BY <1>1, <1>3, <1>8, <1>9
<1> QED BY <1>8, <1>10 DEF p, r, t, Rate!BucketAt

LEMMA TimeIs ==
  ASSUME NEW t \in Nat
  PROVE  /\ Rate!BucketAt(t) \in Nat /\ t % Window \in 0..(Window - 1)
         /\ t = Rate!BucketAt(t) * Window + (t % Window)
<1>1. Window \in Nat /\ Window > 0
  BY RateAssumption
<1>2. /\ t \div Window \in Nat /\ t % Window \in 0..(Window - 1)
      /\ t = Window * (t \div Window) + (t % Window)
  BY <1>1, Division
<1>3. Window * (t \div Window) = (t \div Window) * Window
  BY <1>1, <1>2
<1> QED BY <1>2, <1>3 DEF Rate!BucketAt

LEMMA BucketsGrow ==
  ASSUME NEW t \in Nat, NEW u \in Nat, t <= u
  PROVE  Rate!BucketAt(t) <= Rate!BucketAt(u)
<1>1. Window \in Nat /\ Window > 0 /\ t \div Window \in Nat
  BY RateAssumption, Division
<1>2. Window * (t \div Window) <= t
  BY <1>1, QuotientIs
<1>3. Window * (t \div Window) <= u
  <2> DEFINE m == Window * (t \div Window)
  <2>1. m \in Nat
    BY <1>1
  <2> HIDE DEF m
  <2>2. m <= t
    BY <1>2 DEF m
  <2>3. m <= u
    BY <2>1, <2>2
  <2> QED BY <2>3 DEF m
<1> QED BY <1>1, <1>3, QuotientIs DEF Rate!BucketAt

Counters == [Rate!Owners -> [Rate!Buckets -> Nat]]
Hits     == [state : {"new", "refused", "running", "failed", "succeeded", "refunded"},
             owner : Rate!Owners, bucket : Rate!Buckets]
Holding  == {"running", "failed", "succeeded"}
Now      == Rate!BucketAt(rwNow)

\* Nothing is counted in a later bucket, and no live one has more than the limit.
CountsFit(C) ==
  /\ C \in Counters
  /\ \A o \in Rate!Owners, b \in Rate!Buckets :
       /\ b > Now => C[o][b] = 0
       /\ b >= Now - 1 => C[o][b] <= Limit

RateInv ==
  /\ rwNow \in Nat /\ rwNow <= RateTime
  /\ request \in [Requests -> Hits]
  /\ CountsFit(counts)
  /\ \A o \in Rate!Owners, b \in Rate!Buckets :
       b >= Now - 1 => Cardinality(Rate!Held(o, b)) <= counts[o][b]

\* The counts of the component are those of this module.
LEMMA HitsAreCounted == \A S : Rate!Cardinality(S) = Cardinality(S)
BY DEF Rate!Cardinality, Cardinality

LEMMA NowIs ==
  ASSUME RateInv
  PROVE  /\ Now \in Nat /\ Now \in Rate!Buckets /\ Now + 1 \in Rate!Buckets
         /\ Rate!Buckets \subseteq Nat
<1>1. Window \in Nat /\ Window > 0 /\ RateTime \in Nat /\ RateTime \div Window \in Nat
  BY RateAssumption, Division
<1>2. Now \in Nat /\ Now <= RateTime \div Window
  BY <1>1, TimeIs, BucketsGrow DEF RateInv, Now, Rate!BucketAt
<1> QED BY <1>1, <1>2 DEF Rate!Buckets

LEMMA HeldFinite == ASSUME NEW o, NEW b PROVE IsFiniteSet(Rate!Held(o, b)) /\ Cardinality(Rate!Held(o, b)) \in Nat
<1>1. Rate!Held(o, b) \subseteq Requests
  BY DEF Rate!Held
<1> QED BY <1>1, RateAssumption, FS_Subset, FS_CardinalityType

LEMMA RateInvInit == ASSUME Rate!Init PROVE RateInv
<1>1. rwNow = 0 /\ counts = [o \in Rate!Owners |-> [b \in Rate!Buckets |-> 0]]
      /\ request = [r \in Requests |-> Rate!New]
  BY DEF Rate!Init
<1>2. Limit \in Nat /\ RateTime \in Nat /\ RateTime \div Window \in Nat
  BY RateAssumption, Division
<1>3. Rate!New \in Hits /\ Rate!New.state = "new"
  BY <1>2 DEF Rate!New, Hits, Rate!Owners, Rate!Buckets
<1>4. \A o, b : Rate!Held(o, b) = {}
  BY <1>1, <1>3 DEF Rate!Held
<1>5. CountsFit(counts)
  BY <1>1, <1>2 DEF CountsFit, Counters
<1>6. \A o \in Rate!Owners, b \in Rate!Buckets : Cardinality(Rate!Held(o, b)) <= counts[o][b]
  BY <1>1, <1>4, FS_EmptySet
<1> QED BY <1>1, <1>2, <1>3, <1>5, <1>6 DEF RateInv

\* A hit that is not refused finds room in the bucket of now.
LEMMA CountedFits ==
  ASSUME RateInv, NEW C, CountsFit(C), NEW o \in Rate!Owners, ~Rate!Refuses(C[o], rwNow)
  PROVE  /\ CountsFit(Rate!Counted(C, o))
         /\ Rate!Counted(C, o)[o][Now] = C[o][Now] + 1
         /\ \A q \in Rate!Owners, b \in Rate!Buckets :
              Rate!Counted(C, o)[q][b] = IF q = o /\ b = Now THEN C[o][Now] + 1 ELSE C[q][b]
<1>1. Now \in Rate!Buckets /\ Now \in Nat /\ Rate!Buckets \subseteq Nat
  BY NowIs
<1>2. C \in Counters /\ C[o] \in [Rate!Buckets -> Nat] /\ C[o][Now] \in Nat
  BY <1>1 DEF CountsFit, Counters
<1>3. C[o][Now] < Limit
  <2> DEFINE p == Rate!CountOf(C[o], Now - 1)
             d == Window - (rwNow % Window)
             q == C[o][Now]
  <2>1. p \in Nat
    BY <1>2 DEF Rate!CountOf
  <2>2. d \in Nat /\ Window \in Nat /\ Limit \in Nat
    <3>1. Window \in Nat /\ Limit \in Nat /\ rwNow \in Nat
      BY RateAssumption DEF RateInv
    <3>2. rwNow % Window \in 0..(Window - 1)
      BY <3>1, TimeIs
    <3> QED BY <3>1, <3>2
  <2>3. ~(p * d + q * Window >= Limit * Window)
    BY <1>1 DEF Rate!Refuses, Rate!CountOf, Now
  <2>4. q \in Nat
    BY <1>2
  <2> HIDE DEF p, d, q
  <2>5. CASE q >= Limit
    <3>1. Window * Limit <= Window * q
      BY <2>2, <2>4, <2>5, TimesGrows
    <3>2. p * d \in Nat
      BY <2>1, <2>2
    <3>3. Window * Limit = Limit * Window /\ Window * q = q * Window /\ q * Window \in Nat
          /\ Limit * Window \in Nat
      BY <2>2, <2>4
    <3> QED BY <2>3, <3>1, <3>2, <3>3
  <2> QED BY <2>2, <2>4, <2>5 DEF q
<1>4. \A q \in Rate!Owners, b \in Rate!Buckets :
        Rate!Counted(C, o)[q][b] = IF q = o /\ b = Now THEN C[o][Now] + 1 ELSE C[q][b]
  BY <1>1, <1>2 DEF Rate!Counted, Counters, Now
<1>5. Rate!Counted(C, o) \in Counters
  <2>1. Rate!Counted(C, o) = [C EXCEPT ![o] = [C[o] EXCEPT ![Now] = C[o][Now] + 1]]
    BY DEF Rate!Counted, Now
  <2>2. [C[o] EXCEPT ![Now] = C[o][Now] + 1] \in [Rate!Buckets -> Nat]
    <3> DEFINE line == C[o]
               n == C[o][Now] + 1
    <3>1. line \in [Rate!Buckets -> Nat] /\ n \in Nat
      BY <1>2
    <3> HIDE DEF line, n
    <3>2. [line EXCEPT ![Now] = n] \in [Rate!Buckets -> Nat]
      BY <3>1
    <3> QED BY <3>2 DEF line, n
  <2> QED BY <1>2, <2>1, <2>2 DEF Counters
<1>6. \A q \in Rate!Owners, b \in Rate!Buckets :
        /\ b > Now => Rate!Counted(C, o)[q][b] = 0
        /\ b >= Now - 1 => Rate!Counted(C, o)[q][b] <= Limit
  BY <1>1, <1>2, <1>3, <1>4, RateAssumption DEF CountsFit
<1> QED BY <1>1, <1>4, <1>5, <1>6 DEF CountsFit

\* What is held after request r became x.
LEMMA HeldMoves ==
  ASSUME RateInv, NEW r \in Requests, NEW x \in Hits, request' = [request EXCEPT ![r] = x],
         NEW o, NEW b
  PROVE  /\ x.state \in Holding /\ x.owner = o /\ x.bucket = b => Rate!Held(o, b)' = Rate!Held(o, b) \cup {r}
         /\ ~(x.state \in Holding /\ x.owner = o /\ x.bucket = b) => Rate!Held(o, b)' = Rate!Held(o, b) \ {r}
<1>1. /\ request'[r] = x /\ \A q \in Requests : q # r => request'[q] = request[q]
  BY DEF RateInv
<1> QED BY <1>1 DEF Rate!Held, Holding

LEMMA HeldCount ==
  ASSUME NEW o, NEW b, NEW r
  PROVE  /\ Cardinality(Rate!Held(o, b) \cup {r}) <= Cardinality(Rate!Held(o, b)) + 1
         /\ r \in Rate!Held(o, b) => Cardinality(Rate!Held(o, b) \cup {r}) = Cardinality(Rate!Held(o, b))
         /\ r \in Rate!Held(o, b) =>
              /\ Cardinality(Rate!Held(o, b)) >= 1
              /\ Cardinality(Rate!Held(o, b) \ {r}) = Cardinality(Rate!Held(o, b)) - 1
         /\ r \notin Rate!Held(o, b) => Rate!Held(o, b) \ {r} = Rate!Held(o, b)
<1> DEFINE S == Rate!Held(o, b)
<1>1. IsFiniteSet(S) /\ Cardinality(S) \in Nat
  BY HeldFinite
<1> HIDE DEF S
<1>2. Cardinality(S \cup {r}) = IF r \in S THEN Cardinality(S) ELSE Cardinality(S) + 1
  BY <1>1, FS_AddElement
<1>3. r \in S => Cardinality(S \ {r}) = Cardinality(S) - 1 /\ Cardinality(S \ {r}) \in Nat
  BY <1>1, FS_RemoveElement, FS_CardinalityType
<1>4. r \notin S => S \ {r} = S
  OBVIOUS
<1> QED BY <1>1, <1>2, <1>3, <1>4 DEF S

\* A hit of r that o answers, with the counts C.
LEMMA HitByKeeps ==
  ASSUME RateInv, NEW r \in Requests, request[r].state = "new", NEW o \in Rate!Owners,
         NEW C, CountsFit(C),
         \A q \in Rate!Owners, b \in Rate!Buckets : counts[q][b] <= C[q][b],
         Rate!HitBy(r, o, C), rwNow' = rwNow
  PROVE  RateInv'
<1>1. Now \in Rate!Buckets /\ Now \in Nat /\ Rate!Buckets \subseteq Nat
  BY NowIs
<1> DEFINE ok == ~Rate!Refuses(C[o], rwNow)
           x == [state |-> IF ok THEN "running" ELSE "refused", owner |-> o, bucket |-> Now]
<1>2. x \in Hits /\ x.owner = o /\ x.bucket = Now /\ (ok => x.state \in Holding) /\ (~ok => x.state \notin Holding)
  BY <1>1 DEF Hits, Holding
<1>3. request' = [request EXCEPT ![r] = x]
  BY DEF Rate!HitBy, Rate!Answered, Now
<1>4. counts' = IF ok THEN Rate!Counted(C, o) ELSE C
  BY DEF Rate!HitBy
<1> HIDE DEF x
<1>5. \A q, b : r \notin Rate!Held(q, b)
  BY DEF Rate!Held
<1>6. CountsFit(counts') /\ counts' \in Counters
      /\ \A q \in Rate!Owners, b \in Rate!Buckets :
           /\ counts[q][b] \in Nat /\ counts'[q][b] \in Nat /\ counts[q][b] <= counts'[q][b]
           /\ ok /\ q = o /\ b = Now => counts[q][b] + 1 <= counts'[q][b]
  <2>1. counts \in Counters /\ C \in Counters
    BY DEF RateInv, CountsFit
  <2>2. CASE ok
    <3>1. counts' = Rate!Counted(C, o) /\ ~Rate!Refuses(C[o], rwNow)
      BY <1>4, <2>2
    <3>2. /\ CountsFit(counts')
          /\ \A q \in Rate!Owners, b \in Rate!Buckets :
               counts'[q][b] = IF q = o /\ b = Now THEN C[o][Now] + 1 ELSE C[q][b]
      BY <3>1, CountedFits
    <3> HIDE DEF ok
    <3> QED BY <1>1, <2>1, <3>2 DEF Counters, CountsFit
  <2>3. CASE ~ok
    <3>1. counts' = C
      BY <1>4, <2>3
    <3> QED BY <2>1, <2>3, <3>1 DEF Counters
  <2> QED BY <2>2, <2>3
<1> HIDE DEF ok
<1>7. ASSUME NEW q \in Rate!Owners, NEW b \in Rate!Buckets, b >= Now - 1
      PROVE  Cardinality(Rate!Held(q, b)') <= counts'[q][b]
  <2> DEFINE n == Cardinality(Rate!Held(q, b))
  <2>1. n \in Nat /\ n <= counts[q][b]
    BY <1>7, HeldFinite DEF RateInv
  <2>2. CASE ok /\ q = o /\ b = Now
    <3>1. Rate!Held(q, b)' = Rate!Held(q, b) \cup {r}
      BY <1>2, <1>3, <2>2, HeldMoves
    <3>2. Cardinality(Rate!Held(q, b) \cup {r}) <= n + 1
      BY HeldCount
    <3>3. Cardinality(Rate!Held(q, b) \cup {r}) \in Nat
      BY HeldFinite, FS_AddElement, FS_CardinalityType
    <3>4. Cardinality(Rate!Held(q, b)') \in Nat /\ Cardinality(Rate!Held(q, b)') <= n + 1
      BY <3>1, <3>2, <3>3
    <3> HIDE DEF n
    <3> QED BY <1>6, <2>1, <2>2, <3>4
  <2>3. CASE ~(ok /\ q = o /\ b = Now)
    <3>0. ~(x.state \in Holding /\ x.owner = q /\ x.bucket = b)
      BY <1>2, <2>3
    <3>1. Rate!Held(q, b)' = Rate!Held(q, b) \ {r}
      BY <1>2, <1>3, <3>0, HeldMoves
    <3>2. Cardinality(Rate!Held(q, b)') = n
      BY <1>5, <3>1, HeldCount
    <3> HIDE DEF n
    <3> QED BY <1>6, <2>1, <3>2
  <2> QED BY <2>2, <2>3
<1>8. request' \in [Requests -> Hits]
  BY <1>2, <1>3 DEF RateInv
<1>9. CountsFit(counts)'
  BY <1>6 DEF CountsFit, Now
<1>10. Now' = Now
  BY DEF Now
<1>11. \A q \in Rate!Owners, b \in Rate!Buckets :
         b >= Now' - 1 => Cardinality(Rate!Held(q, b))' <= counts'[q][b]
  BY <1>7, <1>10
<1> QED BY <1>8, <1>9, <1>11 DEF RateInv

LEMMA HitKeeps ==
  ASSUME RateInv, NEW r \in Requests, NEW w \in RateWorkers, Rate!Hit(r, w)
  PROVE  RateInv'
<1>1. /\ request[r].state = "new" /\ rwNow' = rwNow
      /\ w \in Rate!Owners /\ Rate!Primary \in Rate!Owners
  BY DEF Rate!Hit, Rate!Owners
<1>2. /\ CountsFit(counts) /\ counts \in Counters
      /\ \A q \in Rate!Owners, b \in Rate!Buckets : counts[q][b] \in Nat
  BY DEF RateInv, CountsFit, Counters
<1>3. \A q \in Rate!Owners, b \in Rate!Buckets : counts[q][b] <= counts[q][b]
  BY <1>2
<1>4. CASE Rate!HitBy(r, Rate!Primary, counts) \/ Rate!HitBy(r, w, counts)
  BY <1>1, <1>2, <1>3, <1>4, HitByKeeps
<1>5. CASE ~Rate!Refuses(counts[Rate!Primary], rwNow) /\ Rate!HitBy(r, w, Rate!Counted(counts, Rate!Primary))
  <2> DEFINE C == Rate!Counted(counts, Rate!Primary)
  <2>1. /\ CountsFit(C)
        /\ \A q \in Rate!Owners, b \in Rate!Buckets :
             C[q][b] = IF q = Rate!Primary /\ b = Now THEN counts[Rate!Primary][Now] + 1 ELSE counts[q][b]
    BY <1>1, <1>2, <1>5, CountedFits
  <2> HIDE DEF C
  <2>2. \A q \in Rate!Owners, b \in Rate!Buckets : counts[q][b] <= C[q][b]
    BY <1>2, <2>1
  <2> QED BY <1>1, <1>5, <2>1, <2>2, HitByKeeps DEF C
<1> QED BY <1>4, <1>5 DEF Rate!Hit

\* A request ends: it is not given back, or takes back what it holds.
LEMMA EndKeeps ==
  ASSUME RateInv, NEW r \in Requests, Rate!Succeed(r) \/ Rate!Fail(r)
  PROVE  RateInv'
<1>1. /\ request[r].state = "running" /\ request[r] \in Hits /\ rwNow' = rwNow
      /\ Now' = Now
  BY DEF RateInv, Rate!Succeed, Rate!Fail, Now
<1> DEFINE o == request[r].owner
           b == request[r].bucket
<1>2. /\ o \in Rate!Owners /\ b \in Rate!Buckets /\ r \in Rate!Held(o, b)
      /\ \A q, c : r \in Rate!Held(q, c) => q = o /\ c = b
  BY <1>1 DEF Hits, Rate!Held
<1>3. /\ CountsFit(counts) /\ counts \in Counters
      /\ \A q \in Rate!Owners, c \in Rate!Buckets : counts[q][c] \in Nat
  BY DEF RateInv, CountsFit, Counters
<1>4. \A q \in Rate!Owners, c \in Rate!Buckets :
        Cardinality(Rate!Held(q, c)) \in Nat
        /\ (c >= Now - 1 => Cardinality(Rate!Held(q, c)) <= counts[q][c])
  BY HeldFinite DEF RateInv
<1> HIDE DEF o, b
<1>5. CASE \E s \in {"failed", "succeeded"} : Rate!Becomes(r, s) /\ counts' = counts
  <2>1. PICK s \in {"failed", "succeeded"} : Rate!Becomes(r, s)
    BY <1>5
  <2> DEFINE x == [request[r] EXCEPT !.state = s]
  <2>2. x \in Hits /\ x.state \in Holding /\ x.owner = o /\ x.bucket = b
    BY <1>1, <2>1 DEF Hits, Holding, o, b
  <2>3. request' = [request EXCEPT ![r] = x]
    BY <2>1 DEF Rate!Becomes
  <2> HIDE DEF x
  <2>4. ASSUME NEW q \in Rate!Owners, NEW c \in Rate!Buckets
        PROVE  Rate!Held(q, c)' = Rate!Held(q, c)
    <3>1. CASE q = o /\ c = b
      <4>1. x.owner = q /\ x.bucket = c
        BY <2>2, <3>1
      <4>2. Rate!Held(q, c)' = Rate!Held(q, c) \cup {r}
        BY <2>2, <2>3, <4>1, HeldMoves
      <4> QED BY <1>2, <3>1, <4>2
    <3>2. CASE ~(q = o /\ c = b)
      <4>1. Rate!Held(q, c)' = Rate!Held(q, c) \ {r}
        BY <2>2, <2>3, <3>2, HeldMoves
      <4> QED BY <1>2, <3>2, <4>1
    <3> QED BY <3>1, <3>2
  <2>5. request' \in [Requests -> Hits]
    BY <2>2, <2>3 DEF RateInv
  <2>6. CountsFit(counts)'
    BY <1>1, <1>3, <1>5 DEF CountsFit
  <2>7. \A q \in Rate!Owners, c \in Rate!Buckets :
          c >= Now' - 1 => Cardinality(Rate!Held(q, c)') <= counts'[q][c]
    BY <1>1, <1>4, <1>5, <2>4
  <2> QED BY <1>1, <2>5, <2>6, <2>7 DEF RateInv
<1>6. CASE /\ Rate!Becomes(r, "refunded")
           /\ counts' = [counts EXCEPT ![o] = Rate!Refunded(@, b)]
  <2> DEFINE x == [request[r] EXCEPT !.state = "refunded"]
  <2>1. x \in Hits /\ x.state \notin Holding
    BY <1>1 DEF Hits, Holding
  <2>2. request' = [request EXCEPT ![r] = x]
    BY <1>6 DEF Rate!Becomes
  <2> HIDE DEF x
  <2>3. ASSUME NEW q, NEW c PROVE Rate!Held(q, c)' = Rate!Held(q, c) \ {r}
    BY <2>1, <2>2, HeldMoves
  <2>4. request' \in [Requests -> Hits]
    BY <2>1, <2>2 DEF RateInv
  <2>5. Now \in Nat /\ Rate!Buckets \subseteq Nat
    BY NowIs
  <2>6. CASE b < Now - 1 \/ counts[o][b] = 0
    <3>1. counts' = counts
      BY <1>2, <1>3, <1>6, <2>6 DEF Rate!Refunded, Now, Counters
    <3>2. CountsFit(counts)'
      BY <1>1, <1>3, <3>1 DEF CountsFit
    <3>3. ASSUME NEW q \in Rate!Owners, NEW c \in Rate!Buckets, c >= Now - 1
          PROVE  Cardinality(Rate!Held(q, c)') <= counts'[q][c]
      <4>1. r \notin Rate!Held(q, c)
        <5>1. SUFFICES ASSUME q = o, c = b PROVE FALSE
          BY <1>2
        <5>2. Cardinality(Rate!Held(o, b)) >= 1
          BY <1>2, HeldCount
        <5>3. Cardinality(Rate!Held(o, b)) \in Nat /\ Cardinality(Rate!Held(o, b)) <= counts[o][b]
          BY <1>2, <1>4, <3>3, <5>1
        <5>4. counts[o][b] = 0
          BY <1>2, <2>5, <2>6, <3>3, <5>1
        <5> QED BY <5>2, <5>3, <5>4
      <4>2. Rate!Held(q, c)' = Rate!Held(q, c)
        BY <2>3, <4>1
      <4> QED BY <1>4, <3>1, <3>3, <4>2
    <3> QED BY <1>1, <2>4, <3>2, <3>3 DEF RateInv
  <2>7. CASE ~(b < Now - 1 \/ counts[o][b] = 0)
    <3> DEFINE line == [counts[o] EXCEPT ![b] = counts[o][b] - 1]
    <3>1. counts' = [counts EXCEPT ![o] = line]
      BY <1>6, <2>7 DEF Rate!Refunded, Now
    <3>2. /\ line \in [Rate!Buckets -> Nat] /\ line[b] = counts[o][b] - 1
          /\ \A c \in Rate!Buckets : c # b => line[c] = counts[o][c]
      <4> DEFINE old == counts[o]
                 n == counts[o][b] - 1
      <4>1. old \in [Rate!Buckets -> Nat] /\ n \in Nat
        BY <1>2, <1>3, <2>7 DEF Counters
      <4>2. line = [old EXCEPT ![b] = n]
        OBVIOUS
      <4>3. \A c \in Rate!Buckets : c # b => line[c] = old[c]
        BY <1>2, <4>1, <4>2
      <4>4. line[b] = n
        BY <1>2, <4>1, <4>2
      <4> HIDE DEF old, n, line
      <4>5. line \in [Rate!Buckets -> Nat]
        BY <1>2, <4>1, <4>2
      <4> QED BY <4>3, <4>4, <4>5 DEF old, n
    <3> HIDE DEF line
    <3>3. /\ counts' \in Counters
          /\ \A q \in Rate!Owners, c \in Rate!Buckets :
               counts'[q][c] = IF q = o /\ c = b THEN counts[o][b] - 1 ELSE counts[q][c]
      BY <1>2, <1>3, <3>1, <3>2 DEF Counters
    <3>4. \A q \in Rate!Owners, c \in Rate!Buckets :
            /\ c > Now => counts'[q][c] = 0
            /\ c >= Now - 1 => counts'[q][c] <= Limit
      BY <1>2, <1>3, <2>7, <3>3, RateAssumption DEF CountsFit
    <3>5. CountsFit(counts)'
      BY <1>1, <3>3, <3>4 DEF CountsFit
    <3>6. ASSUME NEW q \in Rate!Owners, NEW c \in Rate!Buckets, c >= Now - 1
          PROVE  Cardinality(Rate!Held(q, c)') <= counts'[q][c]
      <4>1. CASE q = o /\ c = b
        <5>1. Cardinality(Rate!Held(o, b) \ {r}) = Cardinality(Rate!Held(o, b)) - 1
          BY <1>2, HeldCount, ZenonT(60)
        <5>2. Cardinality(Rate!Held(q, c)') = Cardinality(Rate!Held(o, b)) - 1
          BY <2>3, <4>1, <5>1
        <5>3. counts'[q][c] = counts[o][b] - 1
          BY <3>3, <4>1
        <5> QED BY <1>2, <1>3, <1>4, <3>6, <4>1, <5>2, <5>3
      <4>2. CASE ~(q = o /\ c = b)
        <5>1. r \notin Rate!Held(q, c)
          BY <1>2, <4>2
        <5>2. Rate!Held(q, c)' = Rate!Held(q, c)
          BY <2>3, <5>1
        <5> QED BY <1>4, <3>3, <3>6, <4>2, <5>2
      <4> QED BY <4>1, <4>2
    <3> QED BY <1>1, <2>4, <3>5, <3>6 DEF RateInv
  <2> QED BY <2>6, <2>7
<1> QED BY <1>5, <1>6 DEF Rate!Succeed, Rate!Fail, o, b

LEMMA TickKeeps == ASSUME RateInv, Rate!Tick PROVE RateInv'
<1>1. rwNow \in Nat /\ rwNow' = rwNow + 1 /\ rwNow < RateTime /\ UNCHANGED <<counts, request>>
  BY DEF RateInv, Rate!Tick
<1>2. Now \in Nat /\ Now' \in Nat /\ Now <= Now'
  <2>1. rwNow + 1 \in Nat /\ rwNow <= rwNow + 1
    BY <1>1
  <2> QED BY <1>1, <2>1, TimeIs, BucketsGrow DEF Now
<1>3. /\ \A b \in Rate!Buckets : b >= Now' - 1 => b >= Now - 1
      /\ \A b \in Rate!Buckets : b > Now' => b > Now
  <2>1. \A m, n, b \in Nat : m <= n => (b >= n - 1 => b >= m - 1) /\ (b > n => b > m)
    OBVIOUS
  <2>2. \A b \in Rate!Buckets : b \in Nat
    BY NowIs
  <2> QED BY <1>2, <2>1, <2>2, Zenon
<1>4. CountsFit(counts)'
  <2>1. counts' = counts /\ CountsFit(counts)
    BY <1>1 DEF RateInv
  <2>2. \A o \in Rate!Owners, b \in Rate!Buckets :
          /\ b > Now' => counts[o][b] = 0
          /\ b >= Now' - 1 => counts[o][b] <= Limit
    BY <1>3, <2>1 DEF CountsFit
  <2> QED BY <2>1, <2>2 DEF CountsFit
<1>5. ASSUME NEW o \in Rate!Owners, NEW b \in Rate!Buckets, b >= Now' - 1
      PROVE  Cardinality(Rate!Held(o, b)') <= counts'[o][b]
  <2>1. b >= Now - 1
    BY <1>3, <1>5
  <2>2. Rate!Held(o, b)' = Rate!Held(o, b)
    BY <1>1 DEF Rate!Held
  <2> QED BY <1>1, <2>1, <2>2 DEF RateInv
<1>6. rwNow' \in Nat /\ rwNow' <= RateTime
  BY <1>1, RateAssumption
<1> QED BY <1>1, <1>4, <1>5, <1>6 DEF RateInv

LEMMA RateInvStep == ASSUME RateInv, [Rate!Next]_Rate!vars PROVE RateInv'
<1>1. CASE Rate!Tick
  BY <1>1, TickKeeps
<1>2. ASSUME NEW r \in Requests, Rate!Succeed(r) \/ Rate!Fail(r) PROVE RateInv'
  BY <1>2, EndKeeps
<1>3. ASSUME NEW r \in Requests, NEW w \in RateWorkers, Rate!Hit(r, w) PROVE RateInv'
  BY <1>3, HitKeeps
<1>4. CASE UNCHANGED Rate!vars
  <2>1. UNCHANGED <<rwNow, counts, request>>
    BY <1>4 DEF Rate!vars
  <2>2. \A o, b : Rate!Held(o, b)' = Rate!Held(o, b)
    BY <2>1 DEF Rate!Held
  <2>3. Now' = Now
    BY <2>1 DEF Now
  <2>4. CountsFit(counts)'
    BY <2>1, <2>3 DEF RateInv, CountsFit
  <2> QED BY <2>1, <2>2, <2>3, <2>4 DEF RateInv
<1> QED BY <1>1, <1>2, <1>3, <1>4 DEF Rate!Next

\* retryAt: by the counts of the bucket of now, none later.
LEMMA RetryIsExact ==
  ASSUME RateInv, NEW o \in Rate!Owners, Rate!Refuses(counts[o], rwNow)
  PROVE  LET t == Rate!RetryAt(counts[o], rwNow)
         IN  /\ t > rwNow /\ ~Rate!Refuses(counts[o], t)
             /\ \A s \in rwNow..(t - 1) : Rate!Refuses(counts[o], s)
<1> DEFINE c == counts[o]
           b == Now
           p == Rate!CountOf(c, b - 1)
           q == Rate!CountOf(c, b)
           r == rwNow % Window
           W == Window
           L == Limit
<1>1. /\ W \in Nat /\ W > 0 /\ L \in Nat /\ L > 0 /\ rwNow \in Nat
      /\ b \in Nat /\ r \in 0..(W - 1) /\ rwNow = b * W + r
  <2>1. W \in Nat /\ W > 0 /\ L \in Nat /\ L > 0 /\ rwNow \in Nat
    BY RateAssumption DEF RateInv
  <2>2. /\ Rate!BucketAt(rwNow) \in Nat /\ rwNow % Window \in 0..(Window - 1)
        /\ rwNow = Rate!BucketAt(rwNow) * Window + (rwNow % Window)
    BY <2>1, TimeIs
  <2> QED BY <2>1, <2>2 DEF Now
<1>2. /\ p \in Nat /\ q \in Nat /\ q <= L
      /\ Rate!CountOf(c, b + 1) = 0 /\ Rate!CountOf(c, b + 2) = 0
  <2>1. c \in [Rate!Buckets -> Nat] /\ b \in Rate!Buckets
        /\ \A d \in Rate!Buckets : (d > b => c[d] = 0) /\ (d >= b - 1 => c[d] <= L)
    BY NowIs DEF RateInv, CountsFit, Counters
  <2>2. b + 1 > b /\ b + 2 > b /\ b >= b - 1
    BY <1>1
  <2> HIDE DEF c, b, L
  <2> QED BY <2>1, <2>2 DEF Rate!CountOf
\* Whether a time of this bucket, or of one that follows, is refused.
<1>3. ASSUME NEW s \in Nat, s < W
      PROVE  /\ Rate!Refuses(c, b * W + s) <=> p * (W - s) + q * W >= L * W
             /\ Rate!Refuses(c, (b + 1) * W + s) <=> q * (W - s) >= L * W
             /\ ~Rate!Refuses(c, (b + 2) * W + s)
  <2>1. \A d \in Nat : Rate!BucketAt(d * W + s) = d /\ (d * W + s) % W = s
    BY <1>3, BucketIs
  <2>2. b \in Nat /\ b + 1 \in Nat /\ b + 2 \in Nat /\ (b + 1) - 1 = b /\ (b + 2) - 1 = b + 1
    BY <1>1
  <2> HIDE DEF c, b, L
  <2>3. Rate!Refuses(c, b * W + s) <=> p * (W - s) + q * W >= L * W
    BY <2>1, <2>2 DEF Rate!Refuses, L
  <2>4. Rate!Refuses(c, (b + 1) * W + s) <=> q * (W - s) + 0 * W >= L * W
    BY <1>2, <2>1, <2>2 DEF Rate!Refuses, L
  <2>5. Rate!Refuses(c, (b + 2) * W + s) <=> 0 * (W - s) + 0 * W >= L * W
    BY <1>2, <2>1, <2>2 DEF Rate!Refuses, L
  <2>6. 0 * W = 0 /\ 0 * (W - s) = 0 /\ L * W > 0 /\ q * (W - s) \in Nat
    BY <1>1, <1>2, <1>3
  <2> QED BY <1>1, <2>3, <2>4, <2>5, <2>6
<1>4. p * (W - r) + q * W >= L * W
  BY <1>1, <1>3
<1> DEFINE t == Rate!RetryAt(c, rwNow)
<1>5. t = IF q < L THEN b * W + W - ((L - q) * W - 1) \div p
          ELSE b * W + W + (W - (L * W - 1) \div q)
  BY DEF Rate!RetryAt, Now
<1> HIDE DEF c, b, p, q, r, W, L, t
<1>6. CASE q < L
  <2> DEFINE M == (L - q) * W
             D == (M - 1) \div p
  <2>1. M \in Nat /\ M > 0 /\ L * W = M + q * W /\ q * W \in Nat
    <3>1. L - q \in Nat /\ L - q >= 1 /\ L = (L - q) + q
      BY <1>1, <1>2, <1>6
    <3>2. \A k \in Nat : k >= 1 => W <= k * W /\ k * W \in Nat /\ (k + q) * W = k * W + q * W
      <4>1. ASSUME NEW k \in Nat, k >= 1 PROVE W <= k * W /\ k * W \in Nat /\ (k + q) * W = k * W + q * W
        <5>1. W * 1 <= W * k
          BY <1>1, <4>1, TimesGrows
        <5> QED BY <1>1, <1>2, <5>1
      <4> QED BY <4>1
    <3>3. W <= M /\ M \in Nat /\ ((L - q) + q) * W = M + q * W
      BY <3>1, <3>2
    <3> QED BY <1>1, <1>2, <3>1, <3>3
  <2> HIDE DEF M
  <2>2. p * (W - r) >= M /\ W - r \in Nat /\ W - r > 0
    <3>1. p * (W - r) \in Nat /\ W - r \in Nat /\ W - r > 0
      BY <1>1, <1>2
    <3> QED BY <1>4, <2>1, <3>1
  <2>3. p > 0
    <3>1. p = 0 => p * (W - r) = 0
      BY <2>2
    <3> QED BY <1>2, <2>1, <2>2, <3>1
  <2>4. D \in Nat /\ \A d \in Nat : p * d >= M <=> d > D
    <3>1. M - 1 \in Nat
      BY <2>1
    <3>2. D \in Nat
      BY <1>2, <2>3, <3>1, Division
    <3>3. ASSUME NEW d \in Nat PROVE p * d >= M <=> d > D
      <4>1. p * d <= M - 1 <=> d <= D
        BY <1>2, <2>3, <3>1, QuotientIs
      <4>2. p * d \in Nat
        BY <1>2
      <4> HIDE DEF D
      <4> QED BY <2>1, <3>2, <4>1, <4>2
    <3> QED BY <3>2, <3>3
  <2>5. t = b * W + W - D /\ b * W \in Nat
    BY <1>1, <1>5, <1>6 DEF M
  <2> HIDE DEF D
  <2>6. W - r > D
    BY <2>2, <2>4
  <2>7. \A s \in Nat : s < W => (Rate!Refuses(c, b * W + s) <=> W - s > D)
    <3>1. ASSUME NEW s \in Nat, s < W PROVE Rate!Refuses(c, b * W + s) <=> W - s > D
      <4>1. W - s \in Nat
        BY <1>1, <3>1
      <4>2. p * (W - s) \in Nat
        BY <1>2, <4>1
      <4>3. Rate!Refuses(c, b * W + s) <=> p * (W - s) + q * W >= M + q * W
        BY <1>3, <2>1, <3>1
      <4>4. p * (W - s) >= M <=> W - s > D
        BY <2>4, <4>1
      <4> QED BY <2>1, <4>2, <4>3, <4>4
    <3> QED BY <3>1
  <2>8. t > rwNow
    BY <1>1, <2>4, <2>5, <2>6
  <2>9. ~Rate!Refuses(c, t)
    <3>1. CASE D > 0
      <4>1. W - D \in Nat /\ W - D < W /\ W - (W - D) = D /\ t = b * W + (W - D)
        BY <1>1, <2>4, <2>5, <2>6, <3>1
      <4>2. Rate!Refuses(c, b * W + (W - D)) <=> W - (W - D) > D
        BY <2>7, <4>1
      <4> QED BY <2>4, <4>1, <4>2
    <3>2. CASE D = 0
      <4>1. t = (b + 1) * W + 0 /\ 0 \in Nat /\ 0 < W /\ W - 0 = W
        BY <1>1, <2>5, <3>2
      <4>2. Rate!Refuses(c, (b + 1) * W + 0) <=> q * W >= L * W
        BY <1>3, <4>1
      <4> QED BY <2>1, <4>1, <4>2
    <3> QED BY <2>4, <3>1, <3>2
  <2>10. ASSUME NEW s \in rwNow..(t - 1) PROVE Rate!Refuses(c, s)
    <3>1. s - b * W \in Nat /\ s - b * W < W /\ W - (s - b * W) > D /\ s = b * W + (s - b * W)
      BY <1>1, <2>4, <2>5, <2>6
    <3>2. Rate!Refuses(c, b * W + (s - b * W)) <=> W - (s - b * W) > D
      BY <2>7, <3>1
    <3> QED BY <3>1, <3>2
  <2> QED BY <2>8, <2>9, <2>10 DEF t, c
<1>7. CASE ~(q < L)
  <2>1. q = L /\ L * W \in Nat /\ L * W > 0 /\ b * W \in Nat /\ (b + 1) * W = b * W + W
        /\ (b + 2) * W = b * W + W + W
    BY <1>1, <1>2, <1>7
  <2>2. (L * W - 1) \div L = W - 1
    <3> DEFINE D == (L * W - 1) \div L
    <3>1. L * W - 1 \in Nat /\ W - 1 \in Nat
      BY <1>1, <2>1
    <3>2. D \in Nat
      BY <1>1, <3>1, Division
    <3>3. (L * (W - 1) <= L * W - 1 <=> W - 1 <= D) /\ (L * W <= L * W - 1 <=> W <= D)
      BY <1>1, <3>1, QuotientIs
    <3>4. L * (W - 1) = L * W - L /\ L * W - L <= L * W - 1
      BY <1>1, <2>1
    <3>5. ~(L * W <= L * W - 1)
      BY <2>1
    <3> HIDE DEF D
    <3>6. W - 1 <= D /\ ~(W <= D)
      BY <3>3, <3>4, <3>5
    <3>7. D = W - 1
      BY <1>1, <3>2, <3>6
    <3> QED BY <3>7 DEF D
  <2>3. t = b * W + W + 1
    BY <1>1, <1>5, <1>7, <2>1, <2>2
  <2>4. ASSUME NEW s \in rwNow..(t - 1) PROVE Rate!Refuses(c, s)
    <3>1. CASE s < b * W + W
      <4>1. s - b * W \in Nat /\ s - b * W < W /\ s = b * W + (s - b * W) /\ W - (s - b * W) \in Nat
        BY <1>1, <2>1, <3>1
      <4>2. p * (W - (s - b * W)) \in Nat
        BY <1>2, <4>1
      <4>3. Rate!Refuses(c, b * W + (s - b * W)) <=> p * (W - (s - b * W)) + q * W >= L * W
        BY <1>3, <4>1
      <4>4. p * (W - (s - b * W)) + q * W >= L * W
        BY <2>1, <4>2
      <4> QED BY <4>1, <4>3, <4>4
    <3>2. CASE s >= b * W + W
      <4>1. s = (b + 1) * W + 0 /\ 0 \in Nat /\ 0 < W /\ W - 0 = W
        BY <1>1, <2>1, <2>3, <3>2
      <4>2. Rate!Refuses(c, (b + 1) * W + 0) <=> q * W >= L * W
        BY <1>3, <4>1
      <4> QED BY <2>1, <4>1, <4>2
    <3> QED BY <1>1, <2>1, <3>1, <3>2
  <2>5. ~Rate!Refuses(c, t)
    <3>1. CASE W > 1
      <4>1. t = (b + 1) * W + 1 /\ 1 \in Nat /\ 1 < W /\ L * (W - 1) = L * W - L
        BY <1>1, <2>1, <2>3, <3>1
      <4>2. Rate!Refuses(c, (b + 1) * W + 1) <=> q * (W - 1) >= L * W
        BY <1>3, <4>1
      <4>3. ~(L * W - L >= L * W)
        BY <1>1, <2>1
      <4> QED BY <2>1, <4>1, <4>2, <4>3
    <3>2. CASE W = 1
      <4>1. t = (b + 2) * W + 0 /\ 0 \in Nat /\ 0 < W
        BY <1>1, <2>1, <2>3, <3>2
      <4> QED BY <1>3, <4>1
    <3> QED BY <1>1, <3>1, <3>2
  <2>6. t > rwNow
    BY <1>1, <2>1, <2>3
  <2> QED BY <2>4, <2>5, <2>6 DEF t, c
<1> QED BY <1>6, <1>7

LEMMA RateInvSuffices == RateInv => Rate!LimitIsExact
<1> SUFFICES ASSUME RateInv PROVE Rate!RetryAtIsExact /\ Rate!RefundsBalance
  BY DEF Rate!LimitIsExact
<1>1. Rate!RetryAtIsExact
  BY RetryIsExact DEF Rate!RetryAtIsExact
<1>2. Rate!RefundsBalance
  BY HitsAreCounted DEF RateInv, CountsFit, Now, Rate!RefundsBalance
<1> QED BY <1>1, <1>2

\* The limiter by itself: any workers, requests and settings.
THEOREM LimiterIsExact == Rate!Spec => []Rate!LimitIsExact
<1>1. Rate!Init => RateInv
  BY RateInvInit
<1>2. RateInv /\ [Rate!Next]_Rate!vars => RateInv'
  BY RateInvStep
<1> QED BY <1>1, <1>2, RateInvSuffices, PTL DEF Rate!Spec

\* A step of the composition is one of the limiter, or leaves it alone.
LEMMA RateSteps == [Next]_vars => [Rate!Next]_Rate!vars
<1> SUFFICES ASSUME [Next]_vars, ~Rate!Next PROVE UNCHANGED Rate!vars
  OBVIOUS
<1>1. UNCHANGED rate
  BY DEF Next, vars
<1> QED BY <1>1 DEF rate, Rate!vars

\* A refused client is admitted at retryAt and at no earlier time, and a refund takes
\* back its own hit and nobody else's, whoever answered it and whatever notice was
\* lost: for any requests, workers, limit and window.
THEOREM LimitIsExactTheorem == Spec => []LimitIsExact
<1>1. Init => RateInv
  BY RateInvInit DEF Init
<1>2. RateInv /\ [Next]_vars => RateInv'
  BY RateInvStep, RateSteps
<1>3. RateInv => LimitIsExact
  BY RateInvSuffices DEF LimitIsExact
<1> QED BY <1>1, <1>2, <1>3, PTL DEF Spec

-----------------------------------------------------------------------------
(* RunMarker                                                               *)

Reasons  == {"-", "SIGNAL", "CRASH", "PRIMARY_DISCONNECT", "FORCED_EXIT", "EXIT"}
States   == {"RUNNING", "STOPPING", "STOPPED"}
OldRuns  == SUBSET (0..(runNumber - 1))
Memories ==
  [state : States, reason : Reasons, unreported : BOOLEAN, raised : {0, 1}, code : {0, 1},
   unclean : OldRuns, lost : OldRuns]
Records ==
  [run : 0..runNumber, rid : 0..rid, state : States, reason : Reasons, code : {0, 1},
   unreported : BOOLEAN, unclean : OldRuns, lost : OldRuns]
Failures == {"no", "write", "unlink"}
Phases == {"serving", "requests", "data", "mails", "flush", "late"}
Stops  ==
  [on : BOOLEAN, code : {0, 1}, crash : {0, 1}, phase : Phases,
   failsafe : {"off", "armed", "fired"}, final : {0, 1}]

MarkerTypes ==
  /\ runNumber \in Nat /\ rid \in Nat /\ up \in BOOLEAN /\ stale \in Failures
  /\ mem \in Memories /\ record \in {Marker!NoRecord, Marker!Torn} \cup Records
  /\ stop \in Stops /\ exited \in 0..2 /\ owed \in OldRuns

\* How far the stop is and what the fields of the marker say of it.
StopAgrees ==
  up => /\ stop.on <=> mem.state # "RUNNING"
        /\ stop.phase \in {"mails", "flush", "late"} <=> mem.state = "STOPPED"
        /\ ~stop.on => stop.phase = "serving" /\ stop.failsafe = "off"
        /\ mem.state = "STOPPED" => saved
        /\ stop.crash = 1 => mem.raised = 1
        /\ stop.crash = 1 /\ mem.state = "STOPPED" => mem.code = 1

\* The file follows the fields, unless a write failed; the record of an earlier run
\* is there only when its removal failed.
OwnFollows ==
  /\ record.rid = rid
  /\ mem.state = "RUNNING" => record.state = "RUNNING"
  /\ record.state = "STOPPED" =>
       IF up THEN mem.state = "STOPPED" ELSE saved \/ (exited = 1 /\ record.code = 1)
RecordFollows ==
  /\ record \in Records /\ record.run = runNumber => OwnFollows
  /\ record \in Records /\ record.run # runNumber => stale = "unlink"
  /\ record.state = "STOPPED" =>
       /\ record.code = 1 => record.reason # "SIGNAL"
       /\ stop.crash = 1 /\ stale = "no" => record.code = 1
  /\ stop.crash = 1 /\ ~up => exited # 0

\* The runs between r and the present one fill the list.
PushedOut(r) == runNumber - 1 - r >= UncleanMax

\* What the file has of the run r, for every boot that reads it.
InFile(r) ==
  \/ r \in record.unclean \cup record.lost
  \/ r = record.run /\ (record.state = "RUNNING" \/ (record.state = "STOPPING" /\ record.rid # rid))

\* What is owed is in the fields, and in the file if there is one.
OwedIsKept ==
  /\ up => \A r \in owed : r \in mem.unclean \cup mem.lost \/ PushedOut(r)
  /\ record \in Records => \A r \in owed : InFile(r) \/ PushedOut(r)
  /\ ~up /\ record \notin Records => owed = {}
  /\ boot.step = "sent" => owed \cap (boot.unclean \cup boot.lost) = {}

RecordInv == MarkerTypes /\ StopAgrees /\ RecordFollows /\ OwedIsKept

LEMMA ReadableIs ==
  ASSUME MarkerTypes
  PROVE  /\ Marker!Readable <=> record \in Records
         /\ record.state = "STOPPED" => record \in Records
BY DEF MarkerTypes, Marker!Readable, Records, States, Marker!NoRecord, Marker!Torn

LEMMA Larger == \A a, b \in {0, 1} : /\ Marker!Max2(a, b) \in {0, 1}
                                     /\ Marker!Max2(a, b) = 1 <=> a = 1 \/ b = 1
BY DEF Marker!Max2

\* What is written of the fields m.
LEMMA CurrentIs ==
  ASSUME runNumber \in Nat, rid \in Nat, NEW m \in Memories
  PROVE  LET r == Marker!Current(m)
         IN  /\ r \in Records /\ r.state = m.state /\ r.run = runNumber /\ r.rid = rid
             /\ m.state = "STOPPED" => r.code = m.code
             /\ m.state = "STOPPED" /\ r.code = 1 => r.reason # "SIGNAL"
             /\ r.unclean = m.unclean /\ r.lost = m.lost
<1> DEFINE plain == Marker!Record(m)
           reason == IF m.reason = "-" THEN "EXIT"
                     ELSE IF m.code > 0 /\ m.reason = "SIGNAL" THEN "CRASH" ELSE m.reason
           full == Marker!StoppedRecord(m)
<1>1. /\ m.state \in States /\ m.reason \in Reasons /\ m.unreported \in BOOLEAN
      /\ m.code \in {0, 1} /\ m.unclean \in OldRuns /\ m.lost \in OldRuns
  BY DEF Memories
<1>2. /\ plain \in Records /\ plain.state = m.state /\ plain.unclean = m.unclean /\ plain.lost = m.lost
      /\ plain.run = runNumber /\ plain.rid = rid
  BY <1>1 DEF Marker!Record, Marker!None, Records, Reasons
<1>3. reason \in Reasons /\ (m.code = 1 => reason # "SIGNAL")
  BY <1>1 DEF Reasons
<1>4. full = [plain EXCEPT !.state = "STOPPED", !.code = m.code, !.reason = reason]
  BY DEF Marker!StoppedRecord, Marker!None
<1>5. Marker!Current(m) = IF m.state = "STOPPED" THEN full ELSE plain
  BY DEF Marker!Current
<1> HIDE DEF reason, plain, full
<1>6. /\ full \in Records /\ full.state = "STOPPED" /\ full.code = m.code /\ full.reason = reason
      /\ full.unclean = plain.unclean /\ full.lost = plain.lost
      /\ full.run = plain.run /\ full.rid = plain.rid
  BY <1>1, <1>2, <1>3, <1>4 DEF Records, States
<1> QED BY <1>2, <1>3, <1>5, <1>6

\* A step of a running process: the fields change, and the file has them after it,
\* or has what it had.
FieldsWritten ==
  \/ record' = Marker!Current(mem') /\ stale' = "no"
  \/ record' = record /\ stale' = (IF stale = "unlink" THEN stale ELSE "write")
  \/ UNCHANGED <<record, stale>> /\ (stop'.crash = stop.crash \/ mem.state # "STOPPED")

LEMMA RunningStep ==
  ASSUME RecordInv, up, up', UNCHANGED <<runNumber, rid, exited>>,
         mem' \in Memories, stop' \in Stops, StopAgrees', FieldsWritten,
         mem.state = "STOPPED" => mem'.state = "STOPPED",
         mem'.state = "RUNNING" => mem.state = "RUNNING",
         owed' \subseteq owed,
         \A r \in owed' : r \in mem'.unclean \cup mem'.lost \/ PushedOut(r),
         boot'.step = "sent" => owed' \cap (boot'.unclean \cup boot'.lost) = {}
  PROVE  RecordInv'
<1> DEFINE c == Marker!Current(mem')
<1>1. /\ c \in Records /\ c.state = mem'.state /\ c.run = runNumber /\ c.rid = rid
      /\ c.state = "STOPPED" => c.code = mem'.code /\ (c.code = 1 => c.reason # "SIGNAL")
      /\ c.unclean = mem'.unclean /\ c.lost = mem'.lost
  <2>1. runNumber \in Nat /\ rid \in Nat /\ mem' \in Memories
    BY DEF RecordInv, MarkerTypes
  <2> QED BY <2>1, CurrentIs
<1>2. \/ record' = c /\ stale' = "no"
      \/ record' = record /\ stale' = (IF stale = "unlink" THEN stale ELSE "write")
      \/ UNCHANGED <<record, stale>> /\ (stop'.crash = stop.crash \/ mem.state # "STOPPED")
  BY DEF FieldsWritten
<1> HIDE DEF c
<1>3. Records' = Records /\ Memories' = Memories /\ Stops' = Stops /\ OldRuns' = OldRuns
      /\ \A r : PushedOut(r)' = PushedOut(r)
  BY DEF Records, Memories, Stops, OldRuns, PushedOut
<1>4. MarkerTypes'
  <2>1. stale' \in Failures /\ record' \in {Marker!NoRecord, Marker!Torn} \cup Records
    BY <1>1, <1>2 DEF MarkerTypes, RecordInv, Failures
  <2> QED BY <1>3, <2>1 DEF MarkerTypes, RecordInv, OldRuns, Marker!NoRecord, Marker!Torn
<1>5. /\ record \in Records /\ record.run = runNumber =>
           /\ record.rid = rid /\ (mem.state = "RUNNING" => record.state = "RUNNING")
           /\ record.state = "STOPPED" => mem.state = "STOPPED"
      /\ record \in Records /\ record.run # runNumber => stale = "unlink"
      /\ record.state = "STOPPED" => record \in Records
  BY ReadableIs DEF RecordInv, RecordFollows, OwnFollows
<1>6. RecordFollows'
  <2>1. record' \in Records /\ record'.run = runNumber => OwnFollows'
    <3>1. CASE record' = c
      BY <1>1, <3>1 DEF OwnFollows
    <3>2. CASE record' = record
      BY <1>5, <3>2 DEF OwnFollows
    <3> QED BY <1>2, <3>1, <3>2
  <2>2. record' \in Records /\ record'.run # runNumber => stale' = "unlink"
    BY <1>1, <1>2, <1>5
  <2>3. record'.state = "STOPPED" /\ record'.code = 1 => record'.reason # "SIGNAL"
    BY <1>1, <1>2 DEF RecordInv, RecordFollows
  <2>4. record'.state = "STOPPED" /\ stop'.crash = 1 /\ stale' = "no" => record'.code = 1
    <3>1. CASE record' = c /\ stale' = "no"
      BY <1>1, <3>1 DEF StopAgrees
    <3>2. CASE stale' # "no"
      BY <3>2
    <3>3. CASE /\ UNCHANGED <<record, stale>>
               /\ stop'.crash = stop.crash \/ mem.state # "STOPPED"
      BY <1>5, <3>3 DEF RecordInv, RecordFollows
    <3> QED BY <1>2, <3>1, <3>2, <3>3
  <2> QED BY <1>3, <2>1, <2>2, <2>3, <2>4 DEF RecordFollows
<1>7. OwedIsKept'
  <2>1. record' \in Records => \A r \in owed' : InFile(r)' \/ PushedOut(r)
    BY <1>1, <1>2 DEF RecordInv, OwedIsKept, InFile
  <2> QED BY <1>3, <2>1 DEF OwedIsKept
<1> QED BY <1>4, <1>6, <1>7 DEF RecordInv

\* What a change of the fields leaves alone.
SameRuns(m, n) == n.unclean = m.unclean /\ n.lost = m.lost

\* What noteStopping and noteExitCodeRaised make n of m.
Stopped(m, n) == n \in Memories /\ n.state = "STOPPING" /\ n.raised = m.raised /\ SameRuns(m, n)
Raises(m, code, n) ==
  /\ n \in Memories /\ n.state = m.state /\ SameRuns(m, n)
  /\ n.raised = 1 <=> code = 1 \/ m.raised = 1
  /\ IF m.state = "STOPPED" THEN n.code = 1 <=> n.raised = 1 ELSE n.code = m.code

LEMMA StoppedCodeIs ==
  ASSUME NEW m \in Memories, NEW code \in {0, 1},
         NEW n, n = Marker!StoppedCode(m, code)
  PROVE  /\ n \in Memories /\ n.state = m.state /\ n.raised = m.raised /\ SameRuns(m, n)
         /\ n.code = 1 <=> code = 1 \/ m.raised = 1
<1> DEFINE x == Marker!Max2(code, m.raised)
<1>1. m.raised \in {0, 1}
  BY DEF Memories
<1>2. x \in {0, 1} /\ (x = 1 <=> code = 1 \/ m.raised = 1)
  BY <1>1, Larger
<1>3. n = [m EXCEPT !.code = x]
  BY DEF Marker!StoppedCode
<1> HIDE DEF x
<1>4. n \in Memories /\ n.code = x /\ n.state = m.state /\ n.raised = m.raised /\ SameRuns(m, n)
  BY <1>2, <1>3 DEF Memories, SameRuns
<1> QED BY <1>2, <1>4

LEMMA RaisedIs ==
  ASSUME NEW m \in Memories, NEW code \in {0, 1}, NEW told \in BOOLEAN,
         NEW reason \in {"-", "PRIMARY_DISCONNECT"},
         NEW n, n = Marker!Raised(m, code, told, reason)
  PROVE  Raises(m, code, n)
<1> DEFINE clean == m.reason = "SIGNAL" /\ m.raised = 0
           why == IF clean /\ reason # "-" THEN reason ELSE m.reason
           new == m.unreported \/ (clean /\ told)
           x == Marker!Max2(m.raised, code)
           r == [m EXCEPT !.reason = why, !.unreported = new, !.raised = x]
<1>1. m.raised \in {0, 1} /\ m.reason \in Reasons /\ m.unreported \in BOOLEAN
  BY DEF Memories
<1>2. x \in {0, 1} /\ (x = 1 <=> code = 1 \/ m.raised = 1)
  BY <1>1, Larger
<1>3. why \in Reasons /\ new \in BOOLEAN
  BY <1>1 DEF Reasons
<1>4. n = IF m.state = "STOPPED" THEN Marker!StoppedCode(r, code) ELSE r
  BY DEF Marker!Raised, Marker!None
<1> HIDE DEF why, new, x
<1>5. r \in Memories /\ r.state = m.state /\ r.raised = x /\ r.code = m.code /\ SameRuns(m, r)
  BY <1>2, <1>3 DEF Memories, SameRuns
<1> HIDE DEF r
<1>6. CASE m.state = "STOPPED"
  BY <1>2, <1>4, <1>5, <1>6, StoppedCodeIs DEF SameRuns, Raises
<1>7. CASE m.state # "STOPPED"
  BY <1>2, <1>4, <1>5, <1>7 DEF SameRuns, Raises
<1> QED BY <1>6, <1>7

LEMMA StoppingIs ==
  ASSUME NEW m \in Memories, NEW code \in {0, 1}, NEW told \in BOOLEAN,
         NEW reason \in {"-", "PRIMARY_DISCONNECT"},
         NEW n, n = Marker!Stopping(m, code, told, reason)
  PROVE  Stopped(m, n)
<1> DEFINE crashed == m.raised > 0
           why == IF ~crashed /\ reason # "-" THEN reason
                  ELSE IF code = 0 /\ ~crashed THEN "SIGNAL" ELSE "CRASH"
           new == m.unreported \/ (told /\ ~crashed)
<1>1. m.raised \in {0, 1} /\ m.unreported \in BOOLEAN
  BY DEF Memories
<1>2. why \in Reasons /\ new \in BOOLEAN
  BY <1>1 DEF Reasons
<1>3. n = [m EXCEPT !.state = "STOPPING", !.reason = why, !.unreported = new]
  BY DEF Marker!Stopping, Marker!None
<1> HIDE DEF why, new
<1>4. n \in Memories /\ n.state = "STOPPING" /\ n.raised = m.raised /\ SameRuns(m, n)
  BY <1>2, <1>3 DEF Memories, States, SameRuns
<1> QED BY <1>4 DEF Stopped

LEMMA UnreportedIs ==
  ASSUME NEW m \in Memories, NEW b \in BOOLEAN,
         NEW n, n = [m EXCEPT !.unreported = @ \/ b]
  PROVE  /\ n \in Memories /\ n.state = m.state /\ n.raised = m.raised /\ n.code = m.code
         /\ SameRuns(m, n)
<1> DEFINE u == m.unreported \/ b
<1>1. u \in BOOLEAN /\ n = [m EXCEPT !.unreported = u]
  BY DEF Memories
<1> HIDE DEF u
<1> QED BY <1>1 DEF Memories, SameRuns

\* gracefulShutdown, of fields that differ from the present ones in no more than
\* what was reported.
LEMMA ShutdownKeeps ==
  ASSUME RecordInv, up, UNCHANGED <<up, runNumber, rid, boot, saved, owed, exited>>,
         NEW m \in Memories, m.state = mem.state, m.raised = mem.raised, m.code = mem.code,
         SameRuns(mem, m), NEW due \in BOOLEAN, NEW code \in {0, 1}, NEW told \in BOOLEAN,
         NEW reason \in {"-", "PRIMARY_DISCONNECT"},
         Marker!Shutdown(m, due, code, told, reason)
  PROVE  RecordInv'
<1>1. /\ mem \in Memories /\ stop \in Stops /\ StopAgrees
      /\ stop.code \in {0, 1} /\ stop.crash \in {0, 1} /\ stop.on \in BOOLEAN
  BY DEF RecordInv, MarkerTypes, Stops
<1>2. CASE ~stop.on
  <2>1. /\ stop' = [stop EXCEPT !.on = TRUE, !.code = code, !.phase = "requests", !.failsafe = "armed"]
        /\ mem' = Marker!Stopping(m, code, told, reason) /\ Marker!Write(Marker!Record(mem'))
    BY <1>2 DEF Marker!Shutdown
  <2>2. mem' \in Memories /\ mem'.state = "STOPPING" /\ mem'.raised = m.raised /\ SameRuns(m, mem')
    <3>1. Stopped(m, mem')
      BY <2>1, StoppingIs
    <3> QED BY <3>1 DEF Stopped
  <2>3. /\ stop' \in Stops /\ stop'.on = TRUE /\ stop'.phase = "requests" /\ stop'.crash = stop.crash
    BY <1>1, <2>1 DEF Stops, Phases
  <2>4. FieldsWritten
    BY <2>1, <2>2 DEF Marker!Write, Marker!Current, FieldsWritten
  <2>5. StopAgrees'
    BY <1>1, <2>1, <2>2, <2>3 DEF StopAgrees
  <2>6. mem.state = "RUNNING"
    BY <1>1, <1>2 DEF StopAgrees
  <2>7. \A r \in owed' : r \in mem'.unclean \cup mem'.lost \/ PushedOut(r)
    BY <2>1, <2>2 DEF RecordInv, OwedIsKept, SameRuns
  <2> QED BY <2>1, <2>2, <2>3, <2>4, <2>5, <2>6, <2>7, RunningStep DEF RecordInv, OwedIsKept
<1>3. CASE stop.on
  <2> DEFINE higher == code > stop.code
             x == Marker!Max2(stop.code, code)
  <2>1. /\ stop' = [stop EXCEPT !.code = x]
        /\ mem' = IF higher THEN Marker!Raised(m, code, told, reason) ELSE m
        /\ Marker!Write(Marker!Current(mem')) \/ Marker!NoWrite
    BY <1>3 DEF Marker!Shutdown
  <2>2. x \in {0, 1}
    BY <1>1, Larger
  <2>3. /\ mem' \in Memories /\ mem'.state = mem.state /\ SameRuns(mem, mem')
        /\ mem.raised = 1 => mem'.raised = 1
        /\ mem.state = "STOPPED" /\ mem.raised = 1 /\ mem.code = 1 => mem'.code = 1
    <3>1. CASE higher
      <4>1. mem' = Marker!Raised(m, code, told, reason)
        BY <2>1, <3>1
      <4>2. Raises(m, code, mem')
        BY <4>1, RaisedIs
      <4> QED BY <4>2 DEF SameRuns, Raises
    <3>2. CASE ~higher
      BY <2>1, <3>2 DEF SameRuns
    <3> QED BY <3>1, <3>2
  <2> HIDE DEF x, higher
  <2>4. /\ stop' \in Stops /\ stop'.on = stop.on /\ stop'.phase = stop.phase /\ stop'.crash = stop.crash
        /\ stop'.failsafe = stop.failsafe
    BY <1>1, <2>1, <2>2 DEF Stops
  <2>5. FieldsWritten
    BY <2>1, <2>4 DEF Marker!Write, Marker!NoWrite, FieldsWritten
  <2>6. StopAgrees'
    BY <1>1, <2>1, <2>3, <2>4 DEF StopAgrees
  <2>7. \A r \in owed' : r \in mem'.unclean \cup mem'.lost \/ PushedOut(r)
    BY <2>1, <2>3 DEF RecordInv, OwedIsKept, SameRuns
  <2> QED BY <2>1, <2>3, <2>4, <2>5, <2>6, <2>7, RunningStep DEF RecordInv, OwedIsKept
<1> QED BY <1>1, <1>2, <1>3

\* The stop's phase and the emails may change with the fields alone.
LEMMA QuietStep ==
  ASSUME RecordInv, up, UNCHANGED <<up, runNumber, rid, mem, record, stale, boot, saved, owed, exited>>,
         stop' \in Stops, stop'.crash = stop.crash, StopAgrees'
  PROVE  RecordInv'
<1>1. FieldsWritten /\ mem \in Memories
  BY DEF FieldsWritten, RecordInv, MarkerTypes
<1>2. Memories' = Memories
  BY DEF Memories, OldRuns
<1>3. \A r \in owed' : r \in mem'.unclean \cup mem'.lost \/ PushedOut(r)
  BY DEF RecordInv, OwedIsKept
<1> QED BY <1>1, <1>2, <1>3, RunningStep DEF RecordInv, OwedIsKept

\* StoppedRecord of any fields.
LEMMA StoppedRecordIs ==
  ASSUME runNumber \in Nat, rid \in Nat, NEW m \in Memories, NEW r, r = Marker!StoppedRecord(m)
  PROVE  /\ r \in Records /\ r.state = "STOPPED" /\ r.code = m.code /\ r.run = runNumber /\ r.rid = rid
         /\ r.code = 1 => r.reason # "SIGNAL"
         /\ r.unclean = m.unclean /\ r.lost = m.lost
<1> DEFINE plain == Marker!Record(m)
           reason == IF m.reason = "-" THEN "EXIT"
                     ELSE IF m.code > 0 /\ m.reason = "SIGNAL" THEN "CRASH" ELSE m.reason
<1>1. /\ m.state \in States /\ m.reason \in Reasons /\ m.unreported \in BOOLEAN
      /\ m.code \in {0, 1} /\ m.unclean \in OldRuns /\ m.lost \in OldRuns
  BY DEF Memories
<1>2. /\ plain \in Records /\ plain.unclean = m.unclean /\ plain.lost = m.lost
      /\ plain.run = runNumber /\ plain.rid = rid
  BY <1>1 DEF Marker!Record, Marker!None, Records, Reasons
<1>3. reason \in Reasons /\ (m.code = 1 => reason # "SIGNAL")
  BY <1>1 DEF Reasons
<1>4. r = [plain EXCEPT !.state = "STOPPED", !.code = m.code, !.reason = reason]
  BY DEF Marker!StoppedRecord, Marker!None
<1> HIDE DEF reason, plain
<1>5. /\ r \in Records /\ r.state = "STOPPED" /\ r.code = m.code /\ r.reason = reason
      /\ r.unclean = plain.unclean /\ r.lost = plain.lost /\ r.run = plain.run /\ r.rid = plain.rid
  BY <1>1, <1>2, <1>3, <1>4 DEF Records, States
<1> QED BY <1>2, <1>3, <1>5

\* The fields and the stop of a process that is gone.
LEMMA GoneIs ==
  ASSUME RecordInv, NEW code, Marker!Ends(code), UNCHANGED <<runNumber, rid>>
  PROVE  /\ up' = FALSE /\ exited' = code /\ mem' \in Memories' /\ mem'.state = mem.state
         /\ stop' \in Stops' /\ stop'.crash = stop.crash /\ boot'.step = "done"
<1>1. mem.state \in States /\ stop.crash \in {0, 1}
  BY DEF RecordInv, MarkerTypes, Memories, Stops
<1>2. Marker!FreshMem({}, {}) \in Memories
  BY DEF Marker!FreshMem, Marker!None, Memories, States, Reasons, OldRuns
<1>3. mem' \in Memories /\ mem'.state = mem.state
  BY <1>1, <1>2 DEF Marker!Ends, Memories
<1>4. stop' \in Stops /\ stop'.crash = stop.crash
  BY <1>1 DEF Marker!Ends, Marker!NoStop, Stops, Phases
<1>5. Memories' = Memories /\ Stops' = Stops
  BY DEF Memories, Stops, OldRuns
<1> QED BY <1>3, <1>4, <1>5 DEF Marker!Ends, Marker!NoBoot

\* process.exit: of a stop that saved the data, or of the failsafe with 1.
LEMMA ExitKeeps ==
  ASSUME RecordInv, up, stop.on, NEW m \in Memories, m.raised = mem.raised, SameRuns(mem, m),
         NEW code \in {0, 1}, stop.crash = 1 => code = 1, mem.state = "STOPPED" \/ code = 1,
         Marker!Exit(m, code)
  PROVE  RecordInv'
<1> DEFINE c == Marker!StoppedCode(m, code)
           rec == Marker!StoppedRecord(c)
<1>1. c \in Memories /\ SameRuns(m, c) /\ (c.code = 1 <=> code = 1 \/ m.raised = 1)
  BY StoppedCodeIs
<1> HIDE DEF c
<1>2. /\ rec \in Records /\ rec.state = "STOPPED" /\ rec.code = c.code
      /\ rec.run = runNumber /\ rec.rid = rid
      /\ rec.code = 1 => rec.reason # "SIGNAL"
      /\ rec.unclean = c.unclean /\ rec.lost = c.lost
  <2>1. runNumber \in Nat /\ rid \in Nat
    BY DEF RecordInv, MarkerTypes
  <2> QED BY <1>1, <2>1, StoppedRecordIs
<1>3. /\ Marker!Ends(code) /\ Marker!Forget /\ UNCHANGED <<runNumber, rid, saved>>
      /\ \/ record' = rec /\ stale' = "no"
         \/ record' = record /\ stale' = (IF stale = "unlink" THEN stale ELSE "write")
  BY DEF Marker!Exit, Marker!Write, c
<1> HIDE DEF rec
<1>4. /\ up' = FALSE /\ exited' = code /\ mem' \in Memories' /\ mem'.state = mem.state
      /\ stop' \in Stops' /\ stop'.crash = stop.crash /\ boot'.step = "done"
  BY <1>3, GoneIs
<1>5. Records' = Records /\ OldRuns' = OldRuns /\ \A r : PushedOut(r)' = PushedOut(r)
  BY <1>3 DEF Records, OldRuns, PushedOut
<1>6. owed' = IF record' \in Records THEN owed ELSE {}
  <2>1. record' \in {Marker!NoRecord, Marker!Torn} \cup Records
    BY <1>2, <1>3 DEF RecordInv, MarkerTypes
  <2>2. record'.state \in {"none", "unreadable"} <=> record' \notin Records
    BY <2>1 DEF Records, States, Marker!NoRecord, Marker!Torn
  <2> QED BY <1>3, <2>2 DEF Marker!Forget
<1>7. MarkerTypes'
  <2>1. owed' \in OldRuns'
    BY <1>5, <1>6 DEF RecordInv, MarkerTypes, OldRuns
  <2>2. record' \in {Marker!NoRecord, Marker!Torn} \cup Records'
    BY <1>2, <1>3, <1>5 DEF RecordInv, MarkerTypes
  <2>3. runNumber' \in Nat /\ rid' \in Nat /\ exited' \in 0..2
    BY <1>3, <1>4 DEF RecordInv, MarkerTypes
  <2>4. up' \in BOOLEAN
    BY <1>4
  <2>5. stale' \in Failures
    BY <1>3 DEF RecordInv, MarkerTypes, Failures
  <2> QED BY <1>4, <2>1, <2>2, <2>3, <2>4, <2>5 DEF MarkerTypes, Marker!NoRecord, Marker!Torn
<1>8. mem.state # "RUNNING" /\ (mem.state = "STOPPED" => saved) /\ stop.crash \in {0, 1}
  BY DEF RecordInv, StopAgrees, MarkerTypes, Stops
<1>9. RecordFollows'
  <2>1. record' \in Records /\ record'.run = runNumber => OwnFollows'
    <3>1. CASE record' = rec
      BY <1>1, <1>2, <1>3, <1>4, <1>8, <3>1 DEF OwnFollows
    <3>2. CASE record' = record
      BY <1>3, <1>4, <1>8, <3>2 DEF RecordInv, RecordFollows, OwnFollows
    <3> QED BY <1>3, <3>1, <3>2
  <2>2. record'.state = "STOPPED" /\ record'.code = 1 => record'.reason # "SIGNAL"
    BY <1>2, <1>3 DEF RecordInv, RecordFollows
  <2>3. stop'.crash = 1 /\ stale' = "no" => record'.code = 1
    BY <1>1, <1>2, <1>3, <1>4
  <2>4. record' \in Records /\ record'.run # runNumber => stale' = "unlink"
    BY <1>2, <1>3 DEF RecordInv, RecordFollows
  <2> QED BY <1>3, <1>4, <1>5, <1>8, <2>1, <2>2, <2>3, <2>4 DEF RecordFollows
<1>10. OwedIsKept'
  <2>1. record' \in Records => \A r \in owed : InFile(r)' \/ PushedOut(r)
    <3>1. CASE record' = rec
      BY <1>1, <1>2, <3>1 DEF RecordInv, OwedIsKept, SameRuns, InFile
    <3>2. CASE record' = record
      BY <1>3, <3>2 DEF RecordInv, OwedIsKept, InFile
    <3> QED BY <1>3, <3>1, <3>2
  <2> QED BY <1>4, <1>5, <1>6, <2>1 DEF OwedIsKept
<1>11. StopAgrees'
  BY <1>4 DEF StopAgrees
<1> QED BY <1>7, <1>9, <1>10, <1>11 DEF RecordInv

LEMMA KillKeeps == ASSUME RecordInv, Marker!Kill PROVE RecordInv'
<1>1. /\ up /\ Marker!Ends(2) /\ Marker!Forget /\ UNCHANGED <<runNumber, rid, stale, saved>>
      /\ record' \in {record, Marker!Torn}
  BY DEF Marker!Kill
<1>2. /\ up' = FALSE /\ exited' = 2 /\ mem' \in Memories' /\ mem'.state = mem.state
      /\ stop' \in Stops' /\ stop'.crash = stop.crash /\ boot'.step = "done"
  BY <1>1, GoneIs
<1>3. Records' = Records /\ OldRuns' = OldRuns /\ \A r : PushedOut(r)' = PushedOut(r)
  BY <1>1 DEF Records, OldRuns, PushedOut
<1>4. Marker!Torn \notin Records /\ Marker!Torn.state = "unreadable"
  BY DEF Marker!Torn, Records, States
<1>5. owed' = IF record' \in Records THEN owed ELSE {}
  <2>1. record' \in {Marker!NoRecord, Marker!Torn} \cup Records
    BY <1>1 DEF RecordInv, MarkerTypes
  <2>2. record'.state \in {"none", "unreadable"} <=> record' \notin Records
    BY <2>1 DEF Records, States, Marker!NoRecord, Marker!Torn
  <2> QED BY <1>1, <2>2 DEF Marker!Forget
<1>6. MarkerTypes'
  <2>1. owed' \in OldRuns'
    BY <1>3, <1>5 DEF RecordInv, MarkerTypes, OldRuns
  <2>2. record' \in {Marker!NoRecord, Marker!Torn} \cup Records'
    BY <1>1, <1>3 DEF RecordInv, MarkerTypes
  <2>3. runNumber' \in Nat /\ rid' \in Nat /\ exited' \in 0..2
    BY <1>1, <1>2 DEF RecordInv, MarkerTypes
  <2>4. up' \in BOOLEAN
    BY <1>2
  <2>5. stale' \in Failures
    BY <1>1 DEF RecordInv, MarkerTypes
  <2> QED BY <1>2, <2>1, <2>2, <2>3, <2>4, <2>5 DEF MarkerTypes, Marker!NoRecord, Marker!Torn
<1>7. RecordFollows'
  <2>1. record' \in Records => record' = record
    BY <1>1, <1>4
  <2>2. record' \in Records /\ record'.run = runNumber => OwnFollows'
    BY <1>1, <1>2, <2>1 DEF RecordInv, RecordFollows, OwnFollows, StopAgrees
  <2>3. record'.state = "STOPPED" => record' = record
    BY <1>1, <1>4
  <2> QED BY <1>1, <1>2, <1>3, <2>1, <2>2, <2>3 DEF RecordInv, RecordFollows
<1>8. OwedIsKept'
  <2>1. record' \in Records => \A r \in owed : InFile(r)' \/ PushedOut(r)
    BY <1>1, <1>4 DEF RecordInv, OwedIsKept, InFile
  <2> QED BY <1>2, <1>3, <1>5, <2>1 DEF OwedIsKept
<1>9. StopAgrees'
  BY <1>2 DEF StopAgrees
<1> QED BY <1>6, <1>7, <1>8, <1>9 DEF RecordInv

LEMMA RunsAreCounted == \A S : Marker!Cardinality(S) = Cardinality(S)
BY DEF Marker!Cardinality, Cardinality, Marker!IsFiniteSet, IsFiniteSet

\* A run falls out of the list only when the runs after it fill it.
LEMMA NewestAreKept ==
  ASSUME NEW n \in Nat, NEW S \in SUBSET (0..n), NEW r \in S
  PROVE  r \in Marker!LastOf(S) \/ n - r >= UncleanMax
<1> DEFINE newer == {q \in S : q > r}
<1>1. newer \subseteq (r + 1)..n /\ r \in 0..n
  <2>1. r \in 0..n
    OBVIOUS
  <2>2. \A q \in newer : q \in 0..n /\ q > r
    OBVIOUS
  <2> HIDE DEF newer
  <2> QED BY <2>1, <2>2
<1>2. IsFiniteSet((r + 1)..n) /\ Cardinality((r + 1)..n) = n - r
  <2>1. r + 1 \in Int /\ n \in Int /\ n - (r + 1) + 1 = n - r /\ (r + 1 > n => n - r = 0)
    BY <1>1
  <2> QED BY <2>1, FS_Interval
<1>3. Cardinality(newer) <= n - r /\ Cardinality(newer) \in Nat
  <2> DEFINE later == (r + 1)..n
  <2>1. newer \subseteq later /\ IsFiniteSet(later) /\ Cardinality(later) = n - r
    BY <1>1, <1>2
  <2> HIDE DEF newer, later
  <2>2. IsFiniteSet(newer) /\ Cardinality(newer) <= Cardinality(later)
    BY <2>1, FS_Subset
  <2>3. Cardinality(newer) \in Nat
    BY <2>2, FS_CardinalityType
  <2> QED BY <2>1, <2>2, <2>3
<1>4. r \in Marker!LastOf(S) <=> Cardinality(newer) < UncleanMax
  BY RunsAreCounted DEF Marker!LastOf
<1> HIDE DEF newer
<1> QED BY <1>1, <1>3, <1>4, MarkerAssumption

\* What a boot takes over: the runs in the file, the killed one with them.
LEMMA TakenOver ==
  ASSUME RecordInv, ~up, NEW fresh \in BOOLEAN, NEW next, next = IF fresh THEN rid + 1 ELSE rid
  PROVE  LET u == Marker!PendingUnclean(next)
             l == Marker!PendingLost(next)
         IN  /\ u \in SUBSET (0..runNumber) /\ l \in SUBSET (0..runNumber)
             /\ \A r \in owed : r \in u \cup l \/ runNumber - r >= UncleanMax
             /\ /\ runNumber > 0 /\ exited = 2 /\ Marker!Readable /\ record.run = runNumber
                /\ ~saved /\ (fresh \/ mem.state = "RUNNING")
                => runNumber \in u \cup l \/ runNumber - runNumber >= UncleanMax
<1> DEFINE u == Marker!PendingUnclean(next)
           l == Marker!PendingLost(next)
           killed == /\ runNumber > 0 /\ exited = 2 /\ Marker!Readable /\ record.run = runNumber
                     /\ ~saved /\ (fresh \/ mem.state = "RUNNING")
<1>1. runNumber \in Nat /\ rid \in Nat /\ owed \in OldRuns
  BY DEF RecordInv, MarkerTypes
<1>2. CASE record \notin Records
  <2>1. ~Marker!Readable /\ owed = {}
    BY <1>2, ReadableIs DEF RecordInv, OwedIsKept
  <2>2. u = {} /\ l = {}
    BY <2>1 DEF Marker!PendingUnclean, Marker!PendingLost
  <2> QED BY <2>1, <2>2
<1>3. CASE record \in Records
  <2> DEFINE U == record.unclean \cup (IF Marker!Verdict(next) = "UNCLEAN" THEN {record.run} ELSE {})
             L == record.lost \cup (IF Marker!Verdict(next) = "HANDOVER" /\ record.state = "RUNNING"
                                    THEN {record.run} ELSE {})
  <2>1. /\ record.state \in States /\ record.run \in 0..runNumber /\ record.rid \in 0..rid
        /\ record.unclean \in OldRuns /\ record.lost \in OldRuns /\ Marker!Readable
        /\ record.run = runNumber => record.rid = rid
    BY <1>3, ReadableIs DEF Records, RecordInv, RecordFollows, OwnFollows
  <2>2. u = Marker!LastOf(U) /\ l = Marker!LastOf(L)
    BY <2>1 DEF Marker!PendingUnclean, Marker!PendingLost
  <2>3. /\ record.state # "STOPPED" =>
             Marker!Verdict(next) = IF record.rid = next THEN "HANDOVER" ELSE "UNCLEAN"
        /\ fresh \/ record.rid # rid => record.rid # next
        /\ ~fresh => next = rid
    BY <1>1, <2>1 DEF Marker!Verdict, States
  <2>5. killed => runNumber \in U \cup L
    <3>1. killed => record.state # "STOPPED" /\ (mem.state = "RUNNING" => record.state = "RUNNING")
      BY <1>3 DEF RecordInv, RecordFollows, OwnFollows
    <3> QED BY <2>1, <2>3, <3>1
  <2>6. \A r \in owed : r \in U \cup L \/ runNumber - r >= UncleanMax
    <3>1. \A r \in owed : InFile(r) \/ PushedOut(r)
      BY <1>3 DEF RecordInv, OwedIsKept
    <3>3. \A r \in owed : InFile(r) => r \in U \cup L
      BY <2>1, <2>3 DEF InFile
    <3>2. \A r \in owed : PushedOut(r) => runNumber - r >= UncleanMax
      BY <1>1, MarkerAssumption DEF PushedOut, OldRuns
    <3> QED BY <3>1, <3>2, <3>3
  <2>7. U \in SUBSET (0..runNumber) /\ L \in SUBSET (0..runNumber)
    BY <1>1, <2>1 DEF OldRuns
  <2> HIDE DEF U, L
  <2>8. u \in SUBSET (0..runNumber) /\ l \in SUBSET (0..runNumber)
    BY <2>2, <2>7 DEF Marker!LastOf
  <2>9. \A r \in U \cup L : r \in u \cup l \/ runNumber - r >= UncleanMax
    BY <1>1, <2>2, <2>7, NewestAreKept
  <2> QED BY <2>5, <2>6, <2>8, <2>9
<1> QED BY <1>2, <1>3

LEMMA NoRecordIsNone == Marker!NoRecord \notin Records
BY DEF Marker!NoRecord, Records, States

LEMMA BootKeeps == ASSUME RecordInv, NEW fresh \in BOOLEAN, Marker!Boot(fresh) PROVE RecordInv'
<1> DEFINE r == IF fresh THEN rid + 1 ELSE rid
           u == Marker!PendingUnclean(r)
           l == Marker!PendingLost(r)
           m == Marker!FreshMem(u, l)
           owes == /\ runNumber > 0 /\ exited = 2 /\ Marker!Readable /\ record.run = runNumber
                   /\ ~saved /\ (fresh \/ mem.state = "RUNNING")
           new == [run |-> runNumber + 1, rid |-> r, state |-> "RUNNING", reason |-> "-", code |-> 0,
                   unreported |-> FALSE, unclean |-> u, lost |-> l]
<1>1. /\ ~up /\ up' = TRUE /\ runNumber' = runNumber + 1 /\ rid' = r /\ mem' = m
      /\ stop' = Marker!NoStop /\ boot'.step = "due" /\ exited' = exited
      /\ owed' = IF owes THEN owed \cup {runNumber} ELSE owed
      /\ \/ record' = new /\ stale' = "no"
         \/ record' = Marker!NoRecord /\ stale' = "write"
         \/ record' = record /\ stale' = "unlink"
  BY DEF Marker!Boot, Marker!StartRecord, Marker!FreshMem, Marker!None
<1>2. /\ u \in SUBSET (0..runNumber) /\ l \in SUBSET (0..runNumber)
      /\ \A q \in owed : q \in u \cup l \/ runNumber - q >= UncleanMax
      /\ owes => runNumber \in u \cup l \/ runNumber - runNumber >= UncleanMax
  BY <1>1, TakenOver
<1>3. runNumber \in Nat /\ rid \in Nat /\ owed \in OldRuns /\ exited \in 0..2
  BY DEF RecordInv, MarkerTypes
<1>4. /\ m.state = "RUNNING" /\ m.unclean = u /\ m.lost = l /\ new.state = "RUNNING"
      /\ new.unclean = u /\ new.lost = l /\ new.run = runNumber' /\ new.rid = r
  BY <1>1 DEF Marker!FreshMem
<1>5. OldRuns' = SUBSET (0..runNumber)
  BY <1>1, <1>3 DEF OldRuns
<1>6. m \in Memories'
  BY <1>2, <1>5 DEF Memories, Marker!FreshMem, Marker!None, States, Reasons
<1>8. r \in Nat /\ r >= rid /\ (fresh => r = rid + 1)
  BY <1>3
<1>7. new \in Records'
  <2>1. runNumber + 1 \in 0..runNumber' /\ r \in 0..rid'
    BY <1>1, <1>3, <1>8
  <2> QED BY <1>2, <1>5, <2>1 DEF Records, States, Reasons
<1>15. record \in Records => record \in Records' /\ record.run < runNumber' /\ record.rid \in 0..rid
  <2>1. OldRuns \subseteq OldRuns' /\ (0..runNumber) \subseteq (0..runNumber') /\ (0..rid) \subseteq (0..r)
    BY <1>1, <1>3, <1>5, <1>8 DEF OldRuns
  <2>2. Records \subseteq Records'
    BY <1>1, <2>1 DEF Records
  <2>3. record \in Records => record.run \in 0..runNumber /\ record.rid \in 0..rid
    BY DEF Records
  <2> QED BY <1>1, <1>3, <2>2, <2>3
<1>16. owes => record \in Records /\ record.run = runNumber /\ (record.state = "RUNNING" \/ (record.state = "STOPPING" /\ fresh))
  <2>1. owes => record \in Records /\ record.state \in States
    BY ReadableIs DEF RecordInv, Records
  <2>2. owes => record.state # "STOPPED" /\ (mem.state = "RUNNING" => record.state = "RUNNING")
    BY <1>1, <2>1 DEF RecordInv, RecordFollows, OwnFollows
  <2> QED BY <2>1, <2>2 DEF States
<1> HIDE DEF owes, new, m, u, l, r
<1>9. MarkerTypes'
  <2>1. stop' \in Stops'
    BY <1>1 DEF Stops, Phases, Marker!NoStop
  <2>2. owed' \in OldRuns'
    BY <1>1, <1>3, <1>5 DEF OldRuns
  <2>3. record' \in {Marker!NoRecord, Marker!Torn} \cup Records'
    BY <1>1, <1>7, <1>15 DEF RecordInv, MarkerTypes
  <2>4. stale' \in Failures
    BY <1>1 DEF Failures
  <2> QED BY <1>1, <1>3, <1>6, <1>8, <2>1, <2>2, <2>3, <2>4 DEF MarkerTypes, Marker!NoRecord, Marker!Torn
<1>10. StopAgrees'
  BY <1>1, <1>4 DEF StopAgrees, Marker!NoStop
<1>11. CASE record' # record \/ record \notin Records
  <2>1. (record' = new /\ stale' = "no") \/ record' \notin Records'
    <3>1. record' = record /\ record \notin Records => record' \in {Marker!NoRecord, Marker!Torn}
      BY DEF RecordInv, MarkerTypes
    <3>2. Marker!NoRecord \notin Records' /\ Marker!Torn \notin Records'
      BY DEF Marker!NoRecord, Marker!Torn, Records, States
    <3> QED BY <1>1, <1>11, <3>1, <3>2
  <2>2. record'.state # "STOPPED"
    <3>1. record' = record /\ record \notin Records => record'.state # "STOPPED"
      BY ReadableIs DEF RecordInv
    <3> QED BY <1>1, <1>4, <1>11, <3>1 DEF Marker!NoRecord
  <2>3. RecordFollows'
    BY <1>1, <1>4, <2>1, <2>2 DEF RecordFollows, OwnFollows
  <2>4. \A q \in owed' : q \in u \cup l \/ PushedOut(q)'
    BY <1>1, <1>2, <1>3 DEF PushedOut, OldRuns
  <2>5. OwedIsKept'
    BY <1>1, <1>4, <2>1, <2>4 DEF OwedIsKept, InFile
  <2> QED BY <1>9, <1>10, <2>3, <2>5 DEF RecordInv
<1>12. CASE record' = record /\ record \in Records
  <2>1. stale' = "unlink"
    <3>1. record.run # runNumber'
      BY <1>1, <1>3, <1>12, <1>15 DEF Records
    <3> QED BY <1>1, <1>4, <1>12, <3>1, NoRecordIsNone
  <2>2. RecordFollows'
    BY <1>1, <1>3, <1>12, <1>15, <2>1 DEF RecordInv, RecordFollows, Marker!NoStop
  <2>3. \A q \in owed' : q \in u \cup l \/ PushedOut(q)'
    BY <1>1, <1>2, <1>3 DEF PushedOut, OldRuns
  <2>4. \A q \in owed' : InFile(q)' \/ PushedOut(q)'
    <3>1. \A q \in owed : InFile(q) \/ PushedOut(q)
      BY <1>12 DEF RecordInv, OwedIsKept
    <3>2. \A q \in owed : InFile(q) => InFile(q)'
      BY <1>1, <1>3, <1>8, <1>12, <1>15 DEF InFile
    <3>3. \A q \in owed : PushedOut(q) => PushedOut(q)'
      BY <1>1, <1>3, MarkerAssumption DEF PushedOut, OldRuns
    <3>4. \A q : owes /\ q = runNumber => InFile(q)'
      BY <1>1, <1>3, <1>8, <1>12, <1>15, <1>16 DEF InFile
    <3> QED BY <1>1, <3>1, <3>2, <3>3, <3>4
  <2>5. OwedIsKept'
    BY <1>1, <1>4, <2>3, <2>4 DEF OwedIsKept
  <2> QED BY <1>9, <1>10, <2>2, <2>5 DEF RecordInv
<1> QED BY <1>11, <1>12

LEMMA AnnounceKeeps ==
  ASSUME RecordInv, Marker!AnnounceSent \/ Marker!AnnounceRecorded
  PROVE  RecordInv'
<1>1. /\ mem \in Memories /\ stop \in Stops /\ StopAgrees
      /\ \A r \in owed : r \in mem.unclean \cup mem.lost \/ PushedOut(r)
  BY DEF RecordInv, MarkerTypes, OwedIsKept, Marker!AnnounceSent, Marker!AnnounceRecorded
<1>2. CASE Marker!AnnounceSent
  <2>1. PICK u \in SUBSET boot.unclean, l \in SUBSET boot.lost :
          boot' = [step |-> "sent", unclean |-> u, lost |-> l] /\ owed' = owed \ (u \cup l)
    BY <1>2 DEF Marker!AnnounceSent
  <2>2. up /\ up' /\ UNCHANGED <<runNumber, rid, mem, record, stale, stop, saved, exited>>
    BY <1>2 DEF Marker!AnnounceSent
  <2>3. StopAgrees' /\ FieldsWritten /\ Memories' = Memories /\ Stops' = Stops
    BY <1>1, <2>2 DEF StopAgrees, FieldsWritten, Memories, Stops, OldRuns
  <2>4. owed' \subseteq owed /\ owed' \cap (boot'.unclean \cup boot'.lost) = {}
    BY <2>1
  <2> QED BY <1>1, <2>2, <2>3, <2>4, RunningStep
<1>3. CASE Marker!AnnounceRecorded
  <2> DEFINE m == [mem EXCEPT !.unclean = @ \ boot.unclean, !.lost = @ \ boot.lost]
  <2>1. /\ up /\ up' /\ UNCHANGED <<runNumber, rid, stop, saved, owed, exited>>
        /\ boot'.step = "done" /\ mem' = m /\ boot.step = "sent"
        /\ \/ record' = Marker!Current(m) /\ stale' = "no"
           \/ record' = record /\ stale' = (IF stale = "unlink" THEN stale ELSE "write")
           \/ UNCHANGED <<record, stale>>
    BY <1>3 DEF Marker!AnnounceRecorded, Marker!NoBoot, Marker!Write, Marker!NoWrite
  <2>2. /\ m \in Memories /\ m.state = mem.state /\ m.raised = mem.raised /\ m.code = mem.code
        /\ m.unclean = mem.unclean \ boot.unclean /\ m.lost = mem.lost \ boot.lost
    BY <1>1 DEF Memories, OldRuns
  <2>3. owed \cap (boot.unclean \cup boot.lost) = {}
    BY <2>1 DEF RecordInv, OwedIsKept
  <2> HIDE DEF m
  <2>4. FieldsWritten
    BY <2>1 DEF FieldsWritten
  <2>5. StopAgrees'
    BY <1>1, <2>1, <2>2 DEF StopAgrees
  <2>6. \A r \in owed' : r \in mem'.unclean \cup mem'.lost \/ PushedOut(r)
    BY <1>1, <2>1, <2>2, <2>3
  <2> QED BY <1>1, <2>1, <2>2, <2>4, <2>5, <2>6, RunningStep
<1> QED BY <1>2, <1>3

LEMMA CrashKeeps == ASSUME RecordInv, Marker!Crash PROVE RecordInv'
<1>1. /\ mem \in Memories /\ stop \in Stops /\ StopAgrees
      /\ \A r \in owed : r \in mem.unclean \cup mem.lost \/ PushedOut(r)
  BY DEF RecordInv, MarkerTypes, OwedIsKept, Marker!Crash
<1> DEFINE m == Marker!Raised(mem, 1, FALSE, "-")
<1>2. /\ up /\ UNCHANGED <<up, runNumber, rid, boot, saved, owed, exited>>
      /\ stop' = [stop EXCEPT !.crash = 1] /\ mem' = m
      /\ IF m.state = "STOPPED" THEN Marker!Write(Marker!StoppedRecord(m)) ELSE Marker!NoWrite
  BY DEF Marker!Crash, Marker!None
<1>3. Raises(mem, 1, m)
  BY <1>1, RaisedIs
<1> HIDE DEF m
<1>4. m \in Memories /\ m.state = mem.state /\ SameRuns(mem, m) /\ m.raised = 1
      /\ (mem.state = "STOPPED" => m.code = 1)
  BY <1>3 DEF Raises
<1>5. /\ stop' \in Stops /\ stop'.on = stop.on /\ stop'.phase = stop.phase
      /\ stop'.failsafe = stop.failsafe
  BY <1>1, <1>2 DEF Stops
<1>6. FieldsWritten
  BY <1>2, <1>4 DEF FieldsWritten, Marker!Write, Marker!NoWrite, Marker!Current
<1>7. StopAgrees'
  BY <1>1, <1>2, <1>4, <1>5 DEF StopAgrees
<1>8. \A r \in owed' : r \in mem'.unclean \cup mem'.lost \/ PushedOut(r)
  BY <1>1, <1>2, <1>4 DEF SameRuns
<1> QED BY <1>2, <1>4, <1>5, <1>6, <1>7, <1>8, RunningStep DEF RecordInv, OwedIsKept

LEMMA DataSavedKeeps == ASSUME RecordInv, Marker!DataSaved PROVE RecordInv'
<1>1. /\ mem \in Memories /\ stop \in Stops /\ StopAgrees /\ stop.code \in {0, 1} /\ stop.crash \in {0, 1}
      /\ \A r \in owed : r \in mem.unclean \cup mem.lost \/ PushedOut(r)
  BY DEF RecordInv, MarkerTypes, OwedIsKept, Stops, Marker!DataSaved
<1> DEFINE x == Marker!Max2(stop.code, stop.crash)
           n == [mem EXCEPT !.state = "STOPPED"]
           m == Marker!StoppedCode(n, x)
<1>2. /\ up /\ stop.phase = "data" /\ UNCHANGED <<up, runNumber, rid, boot, owed, exited>>
      /\ stop' = [stop EXCEPT !.phase = "mails"] /\ saved' = TRUE /\ mem' = m
      /\ Marker!Write(Marker!StoppedRecord(m))
  BY DEF Marker!DataSaved, Marker!To
<1>3. x \in {0, 1} /\ (stop.crash = 1 => x = 1)
  BY <1>1, Larger
<1>4. n \in Memories /\ n.state = "STOPPED" /\ n.raised = mem.raised /\ SameRuns(mem, n)
  BY <1>1 DEF Memories, States, SameRuns
<1> HIDE DEF x, n
<1>5. m \in Memories /\ m.state = "STOPPED" /\ m.raised = mem.raised /\ SameRuns(mem, m)
      /\ (m.code = 1 <=> x = 1 \/ mem.raised = 1)
  BY <1>3, <1>4, StoppedCodeIs DEF SameRuns
<1> HIDE DEF m
<1>6. /\ stop' \in Stops /\ stop'.on = stop.on /\ stop'.phase = "mails" /\ stop'.crash = stop.crash
  BY <1>1, <1>2 DEF Stops, Phases
<1>7. FieldsWritten
  BY <1>2, <1>5 DEF FieldsWritten, Marker!Write, Marker!Current
<1>8. StopAgrees'
  BY <1>1, <1>2, <1>3, <1>5, <1>6 DEF StopAgrees
<1>9. \A r \in owed' : r \in mem'.unclean \cup mem'.lost \/ PushedOut(r)
  BY <1>1, <1>2, <1>5 DEF SameRuns
<1> QED BY <1>2, <1>5, <1>6, <1>7, <1>8, <1>9, RunningStep DEF RecordInv, OwedIsKept

LEMMA FailsafeKeeps == ASSUME RecordInv, Marker!FailsafeFires PROVE RecordInv'
<1>1. /\ mem \in Memories /\ stop \in Stops /\ StopAgrees
      /\ \A r \in owed : r \in mem.unclean \cup mem.lost \/ PushedOut(r)
  BY DEF RecordInv, MarkerTypes, OwedIsKept, Marker!FailsafeFires
<1> DEFINE c == IF mem.state = "STOPPED" THEN 1 ELSE mem.code
<1>2. /\ up /\ stop.failsafe = "armed" /\ UNCHANGED <<up, runNumber, rid, boot, saved, owed, exited>>
      /\ stop' = [stop EXCEPT !.failsafe = "fired"]
      /\ mem' = [mem EXCEPT !.reason = "FORCED_EXIT", !.code = c]
      /\ Marker!Write(Marker!Current(mem'))
  BY DEF Marker!FailsafeFires, Marker!Forced
<1>3. c \in {0, 1} /\ (mem.state = "STOPPED" => c = 1)
  BY <1>1 DEF Memories
<1> HIDE DEF c
<1>4. mem' \in Memories /\ mem'.state = mem.state /\ mem'.raised = mem.raised /\ mem'.code = c
      /\ SameRuns(mem, mem')
  BY <1>1, <1>2, <1>3 DEF Memories, Reasons, SameRuns
<1>5. /\ stop' \in Stops /\ stop'.on = stop.on /\ stop'.phase = stop.phase /\ stop'.crash = stop.crash
  BY <1>1, <1>2 DEF Stops
<1>6. FieldsWritten
  BY <1>2 DEF FieldsWritten, Marker!Write
<1>7. StopAgrees'
  BY <1>1, <1>2, <1>3, <1>4, <1>5 DEF StopAgrees
<1>8. \A r \in owed' : r \in mem'.unclean \cup mem'.lost \/ PushedOut(r)
  BY <1>1, <1>2, <1>4 DEF SameRuns
<1> QED BY <1>2, <1>4, <1>5, <1>6, <1>7, <1>8, RunningStep DEF RecordInv, OwedIsKept

LEMMA RecordInvInit == Marker!Init => RecordInv
<1> SUFFICES ASSUME Marker!Init PROVE RecordInv
  OBVIOUS
<1>1. /\ up = FALSE /\ runNumber = 0 /\ rid = 0 /\ mem = Marker!FreshMem({}, {})
      /\ record = Marker!NoRecord /\ stale = "no" /\ stop = Marker!NoStop
      /\ boot.step = "done" /\ owed = {} /\ exited = 0
  BY DEF Marker!Init, Marker!NoBoot
<1>2. mem \in Memories /\ stop \in Stops /\ stop.crash = 0
  BY <1>1 DEF Memories, Stops, OldRuns, States, Reasons, Phases, Marker!FreshMem, Marker!None,
              Marker!NoStop
<1>3. record.state = "none" /\ record \notin Records
  BY <1>1 DEF Marker!NoRecord, Records, States
<1>4. MarkerTypes
  <2>1. runNumber \in Nat /\ rid \in Nat /\ exited \in 0..2 /\ owed \in OldRuns
    BY <1>1 DEF OldRuns
  <2>2. up \in BOOLEAN
    BY <1>1
  <2>3. stale \in Failures
    BY <1>1 DEF Failures
  <2> QED BY <1>1, <1>2, <2>1, <2>2, <2>3 DEF MarkerTypes
<1> QED BY <1>1, <1>2, <1>3, <1>4 DEF RecordInv, StopAgrees, RecordFollows, OwedIsKept

\* One step for each action: the stop by itself, the fields with the file, the
\* ends of a process and the next boot.
LEMMA RecordInvStep == RecordInv /\ [Marker!Next]_Marker!vars => RecordInv'
<1> SUFFICES ASSUME RecordInv, [Marker!Next]_Marker!vars PROVE RecordInv'
  OBVIOUS
<1> USE DEF Marker!To
<1>1. /\ mem \in Memories /\ stop \in Stops /\ StopAgrees /\ stop.code \in {0, 1}
      /\ stop.crash \in {0, 1} /\ SameRuns(mem, mem) /\ Stops' = Stops
  BY DEF RecordInv, MarkerTypes, Stops, SameRuns
<1>2. ASSUME NEW fresh \in BOOLEAN, Marker!Boot(fresh) PROVE RecordInv'
  BY <1>2, BootKeeps
<1>3. CASE Marker!AnnounceSent \/ Marker!AnnounceRecorded
  BY <1>3, AnnounceKeeps
<1>4. CASE Marker!Heartbeat
  <2>1. /\ up /\ up' /\ UNCHANGED <<runNumber, rid, mem, stop, boot, saved, owed, exited>>
        /\ mem.state = "RUNNING" /\ Marker!Write(Marker!Record(mem))
    BY <1>4 DEF Marker!Heartbeat
  <2>2. FieldsWritten /\ StopAgrees' /\ Memories' = Memories
    BY <1>1, <2>1 DEF FieldsWritten, Marker!Write, Marker!Current, StopAgrees, Memories, OldRuns
  <2>3. \A r \in owed' : r \in mem'.unclean \cup mem'.lost \/ PushedOut(r)
    BY <2>1 DEF RecordInv, OwedIsKept
  <2> QED BY <1>1, <2>1, <2>2, <2>3, RunningStep DEF RecordInv, OwedIsKept
<1>5. CASE Marker!Signal
  <2>1. /\ Marker!Shutdown(mem, FALSE, 0, FALSE, "-") /\ up
        /\ UNCHANGED <<up, runNumber, rid, boot, saved, owed, exited>>
    BY <1>5 DEF Marker!Signal, Marker!None
  <2> QED BY <1>1, <2>1, ShutdownKeeps
<1>6. CASE Marker!PrimaryGone
  <2>1. /\ Marker!Shutdown(mem, FALSE, 1, TRUE, "PRIMARY_DISCONNECT") /\ up
        /\ UNCHANGED <<up, runNumber, rid, boot, saved, owed, exited>>
    BY <1>6 DEF Marker!PrimaryGone
  <2> QED BY <1>1, <2>1, ShutdownKeeps
<1>7. CASE Marker!Crash
  BY <1>7, CrashKeeps
<1>8. CASE Marker!CrashMailSettles
  <2>1. PICK sent \in BOOLEAN :
          Marker!Shutdown([mem EXCEPT !.unreported = @ \/ ~sent], ~sent, 1, FALSE, "-")
    BY <1>8 DEF Marker!CrashMailSettles, Marker!None
  <2> DEFINE m == [mem EXCEPT !.unreported = @ \/ ~sent]
  <2>2. /\ m \in Memories /\ m.state = mem.state /\ m.raised = mem.raised /\ m.code = mem.code
        /\ SameRuns(mem, m)
    BY <1>1, UnreportedIs
  <2>3. up /\ UNCHANGED <<up, runNumber, rid, boot, saved, owed, exited>>
    BY <1>8 DEF Marker!CrashMailSettles
  <2> HIDE DEF m
  <2> DEFINE due == ~sent
  <2>4. Marker!Shutdown(m, due, 1, FALSE, "-")
    BY <2>1 DEF m
  <2>5. due \in BOOLEAN
    OBVIOUS
  <2> HIDE DEF due
  <2> QED BY <2>2, <2>3, <2>4, <2>5, ShutdownKeeps
<1>9. CASE Marker!HttpClosed
  <2>1. /\ up /\ stop.phase = "requests" /\ stop' = [stop EXCEPT !.phase = "data"]
        /\ UNCHANGED <<up, runNumber, rid, mem, record, stale, boot, saved, owed, exited>>
    BY <1>9 DEF Marker!HttpClosed
  <2>2. /\ stop' \in Stops /\ stop'.phase = "data" /\ stop'.on = stop.on /\ stop'.crash = stop.crash
        /\ stop'.failsafe = stop.failsafe
    BY <1>1, <2>1 DEF Stops, Phases
  <2>3. StopAgrees'
    BY <1>1, <2>1, <2>2 DEF StopAgrees
  <2> QED BY <2>1, <2>2, <2>3, QuietStep
<1>10. CASE Marker!DataSaved
  BY <1>10, DataSavedKeeps
<1>11. CASE Marker!MailsSettled
  <2> DEFINE x == Marker!Max2(stop.code, stop.crash)
  <2>1. /\ up /\ stop.phase = "mails" /\ stop' = [stop EXCEPT !.phase = "flush", !.final = x]
        /\ UNCHANGED <<up, runNumber, rid, mem, record, stale, boot, saved, owed, exited>>
    BY <1>11 DEF Marker!MailsSettled
  <2>2. x \in {0, 1}
    BY <1>1, Larger
  <2> HIDE DEF x
  <2>3. /\ stop' \in Stops /\ stop'.phase = "flush" /\ stop'.on = stop.on /\ stop'.crash = stop.crash
        /\ stop'.failsafe = stop.failsafe
    BY <1>1, <2>1, <2>2 DEF Stops, Phases
  <2>4. StopAgrees'
    BY <1>1, <2>1, <2>3 DEF StopAgrees
  <2> QED BY <2>1, <2>3, <2>4, QuietStep
<1>12. CASE Marker!Flushed
  <2>1. up /\ stop.phase = "flush" /\ mem.state = "STOPPED" /\ stop.on
    BY <1>1, <1>12 DEF Marker!Flushed, StopAgrees
  <2>2. CASE UNCHANGED <<up, runNumber, rid, mem, record, stale, boot, saved, owed, exited>>
             /\ stop' = [stop EXCEPT !.phase = "late"]
    <3>1. /\ stop' \in Stops /\ stop'.phase = "late" /\ stop'.on = stop.on /\ stop'.crash = stop.crash
          /\ stop'.failsafe = stop.failsafe
      BY <1>1, <2>2 DEF Stops, Phases
    <3>2. StopAgrees'
      BY <1>1, <2>1, <2>2, <3>1 DEF StopAgrees
    <3> QED BY <2>1, <2>2, <3>1, <3>2, QuietStep
  <2>3. CASE Marker!Exit(mem, Marker!ExitCode(FALSE))
    <3>1. Marker!ExitCode(FALSE) \in {0, 1} /\ (stop.crash = 1 => Marker!ExitCode(FALSE) = 1)
      BY <1>1, Larger DEF Marker!ExitCode
    <3> QED BY <1>1, <2>1, <2>3, <3>1, ExitKeeps
  <2> QED BY <1>12, <2>2, <2>3 DEF Marker!Flushed
<1>13. CASE Marker!LateExit
  <2>1. up /\ stop.phase = "late" /\ mem.state = "STOPPED" /\ stop.on /\ Marker!Exit(mem, Marker!ExitCode(TRUE))
    BY <1>1, <1>13 DEF Marker!LateExit, StopAgrees
  <2>2. Marker!ExitCode(TRUE) \in {0, 1} /\ (stop.crash = 1 => Marker!ExitCode(TRUE) = 1)
    BY <1>1, Larger DEF Marker!ExitCode
  <2> QED BY <1>1, <2>1, <2>2, ExitKeeps
<1>14. CASE Marker!FailsafeFires
  BY <1>14, FailsafeKeeps
<1>15. CASE Marker!FailsafeExits
  <2>1. PICK sent \in BOOLEAN : Marker!Exit([mem EXCEPT !.unreported = @ \/ ~sent], 1)
    BY <1>15 DEF Marker!FailsafeExits
  <2> DEFINE m == [mem EXCEPT !.unreported = @ \/ ~sent]
  <2>2. m \in Memories /\ m.raised = mem.raised /\ SameRuns(mem, m)
    BY <1>1, UnreportedIs
  <2>3. up /\ stop.on
    BY <1>1, <1>15 DEF Marker!FailsafeExits, StopAgrees
  <2> HIDE DEF m
  <2>4. Marker!Exit(m, 1)
    BY <2>1 DEF m
  <2> QED BY <2>2, <2>3, <2>4, ExitKeeps
<1>16. CASE Marker!Kill
  BY <1>16, KillKeeps
<1>17. CASE UNCHANGED Marker!vars
  BY <1>17 DEF Marker!vars, RecordInv, MarkerTypes, Memories, OldRuns, Records, Stops, StopAgrees,
               RecordFollows, OwnFollows, OwedIsKept, InFile, PushedOut
<1> QED
  BY <1>2, <1>3, <1>4, <1>5, <1>6, <1>7, <1>8, <1>9, <1>10, <1>11, <1>12, <1>13, <1>14, <1>15,
     <1>16, <1>17 DEF Marker!Next

LEMMA RecordInvSuffices == RecordInv => Marker!RunsAreKnown
<1> SUFFICES ASSUME RecordInv PROVE Marker!RunsAreKnown
  OBVIOUS
<1>1. /\ MarkerTypes /\ (Marker!Readable <=> record \in Records)
      /\ (record.state = "STOPPED" => record \in Records)
  BY ReadableIs DEF RecordInv
<1>2. Marker!RecordIsHonest
  <2>1. record.state = "STOPPED" => record.run = runNumber \/ stale = "unlink"
    BY <1>1 DEF RecordInv, RecordFollows
  <2>2. record.state = "STOPPED" /\ record.code = 0 /\ record.run = runNumber => saved
    BY <1>1 DEF RecordInv, RecordFollows, OwnFollows, StopAgrees
  <2>3. stop.crash = 1 /\ record.state = "STOPPED" /\ stale = "no" => record.code = 1 /\ record.reason # "SIGNAL"
    BY <1>1 DEF RecordInv, RecordFollows
  <2> QED BY <2>1, <2>2, <2>3 DEF RecordInv, RecordFollows, Marker!RecordIsHonest
<1>3. Marker!UncleanIsTold
  <2> SUFFICES ASSUME NEW r \in owed PROVE r \in Marker!Pending \/ runNumber - 1 - r >= UncleanMax
    BY DEF Marker!UncleanIsTold
  <2>1. CASE up
    BY <2>1 DEF RecordInv, OwedIsKept, PushedOut, Marker!Pending
  <2>2. CASE ~up
    <3>1. record \in Records /\ Marker!Readable /\ (InFile(r) \/ PushedOut(r))
      BY <1>1, <2>2 DEF RecordInv, OwedIsKept
    <3>2. InFile(r) => r \in record.unclean \cup record.lost \cup Marker!FoundAgain
      BY DEF InFile, Marker!FoundAgain
    <3> QED BY <3>1, <3>2 DEF PushedOut, Marker!Pending
  <2> QED BY <2>1, <2>2
<1> QED BY <1>2, <1>3 DEF Marker!RunsAreKnown

\* The record by itself: any number of boots, crashes and kills.
THEOREM RunsAreHeardOf == Marker!Spec => []Marker!RunsAreKnown
<1> QED BY RecordInvInit, RecordInvStep, RecordInvSuffices, PTL DEF Marker!Spec

\* A step of the composition is one of the record, or leaves it alone.
LEMMA MarkerSteps == [Next]_vars => [Marker!Next]_Marker!vars
<1> SUFFICES ASSUME [Next]_vars, ~Marker!Next PROVE UNCHANGED Marker!vars
  OBVIOUS
<1>1. UNCHANGED marker
  BY DEF Next, vars
<1> QED BY <1>1 DEF marker, Marker!vars

\* A run's record never claims a clean end it did not have, and a run killed
\* before its data was saved is told of, or will be.
THEOREM RunsAreKnownTheorem == Spec => []RunsAreKnown
<1>1. Init => RecordInv
  BY RecordInvInit DEF Init
<1>2. RecordInv /\ [Next]_vars => RecordInv'
  BY RecordInvStep, MarkerSteps
<1>3. RecordInv => RunsAreKnown
  BY RecordInvSuffices DEF RunsAreKnown
<1> QED BY <1>1, <1>2, <1>3, PTL DEF Spec

-----------------------------------------------------------------------------
(* AlertWatch                                                              *)

Severities == {"WARNING", "CRITICAL"}

\* Wherever an acknowledgement of a critical alert is, in memory, in the table or
\* between them, an operator gave it.
AckInv ==
  /\ status \in {"unknown", "OK"} \cup Severities
  /\ level \in {"OK"} \cup Severities
  /\ {ack, row, hydrating, acking} \subseteq {"none", "lapsed"} \cup Severities
  /\ "CRITICAL" \in {ack, row, hydrating, acking} => "CRITICAL" \in vouched
  /\ Watch!EscalationIsMailed

LEMMA AckInvStep == ASSUME AckInv, [Watch!Next]_Watch!vars PROVE AckInv'
<1> USE DEF AckInv, Severities, Watch!EscalationIsMailed
<1>1. CASE Watch!TtlPasses
  BY <1>1 DEF Watch!TtlPasses, Watch!Lapsed, Watch!bounds
<1>2. CASE Watch!Metrics
  BY <1>2 DEF Watch!Metrics, Watch!bounds
<1>3. CASE Watch!Poll
  <2> USE <1>3 DEF Watch!Poll
  <2>1. ASSUME NEW b \in BOOLEAN, Watch!Firing(b) PROVE AckInv'
    <3> DEFINE suppress == Watch!AckHolds(level)
    <3> USE <2>1 DEF Watch!Firing
    <3>1. level \in Severities /\ status' = level /\ UNCHANGED <<vouched, level, row, hydrating, acking>>
      OBVIOUS
    <3>2. IF suppress THEN ack' = ack ELSE ack' = "none"
      BY DEF Watch!ClearAck
    <3>3. level = "CRITICAL" /\ suppress => ack = "CRITICAL"
      BY DEF Watch!AckHolds, Watch!Rank
    <3>4. level = "CRITICAL" /\ ~suppress => watchTold' \/ status = "CRITICAL"
      OBVIOUS
    <3>5. status = "CRITICAL" /\ level = "CRITICAL" /\ watchTold => watchTold'
      OBVIOUS
    <3> HIDE <2>1 DEF suppress, Watch!Firing
    <3> QED BY <3>1, <3>2, <3>3, <3>4, <3>5
  <2>2. ASSUME NEW b \in BOOLEAN, Watch!Clearing(b) PROVE AckInv'
    BY <2>2 DEF Watch!Clearing, Watch!ClearAck
  <2> QED BY <2>1, <2>2
<1>4. CASE Watch!Acknowledge
  BY <1>4 DEF Watch!Acknowledge
<1>5. CASE Watch!Acknowledged
  BY <1>5 DEF Watch!Acknowledged, Watch!bounds
<1>6. CASE Watch!Unacknowledge \/ Watch!Removed
  BY <1>6 DEF Watch!Unacknowledge, Watch!Removed, Watch!bounds
<1>7. CASE Watch!Restart
  BY <1>7 DEF Watch!Restart
<1>8. CASE Watch!Hydrated
  BY <1>8 DEF Watch!Hydrated, Watch!bounds
<1>9. CASE UNCHANGED Watch!vars
  BY <1>9 DEF Watch!vars
<1> QED BY <1>1, <1>2, <1>3, <1>4, <1>5, <1>6, <1>7, <1>8, <1>9 DEF Watch!Next

LEMMA AckInvInit == Watch!Init => AckInv
BY DEF Watch!Init, AckInv, Severities, Watch!EscalationIsMailed

\* One alert by itself: any number of polls, acknowledgements and leaders.
THEOREM NoAckHidesEscalation == Watch!Spec => []Watch!EscalationIsMailed
<1>1. AckInv /\ [Watch!Next]_Watch!vars => AckInv'
  BY AckInvStep
<1>2. AckInv => Watch!EscalationIsMailed
  BY DEF AckInv
<1> QED BY AckInvInit, <1>1, <1>2, PTL DEF Watch!Spec

\* A step of the composition is one of the alert, or leaves it alone.
LEMMA WatchSteps == [Next]_vars => [Watch!Next]_Watch!vars
<1> SUFFICES ASSUME [Next]_vars, ~Watch!Next PROVE UNCHANGED Watch!vars
  OBVIOUS
<1>1. UNCHANGED watch
  BY DEF Next, vars
<1> QED BY <1>1 DEF watch, Watch!vars

\* A critical alert was mailed as critical or acknowledged as critical, in whatever
\* order polls, acknowledgements, lapses and restarts come.
THEOREM EscalationIsMailedTheorem == Spec => []EscalationIsMailed
<1>1. Init => AckInv
  BY AckInvInit DEF Init
<1>2. AckInv /\ [Next]_vars => AckInv'
  BY AckInvStep, WatchSteps
<1>3. AckInv => EscalationIsMailed
  BY DEF AckInv, EscalationIsMailed
<1> QED BY <1>1, <1>2, <1>3, PTL DEF Spec

-----------------------------------------------------------------------------
(* AlertDigest                                                             *)

LineIds == 1..MaxEvents

\* A line is in one place on its way: the buffer or one digest.  One that has its
\* row is there only if the flag says so, and digests without rows are of a stop.
DigestInv ==
  /\ events \in 0..MaxEvents /\ buffer \subseteq 1..events
  /\ rows \in [LineIds -> {0, 1}] /\ rowSaved \subseteq {e \in LineIds : rows[e] = 1}
  /\ DOMAIN lineTold = LineIds
  /\ \A d \in sends :
       /\ d.lines # {} /\ d.lines \subseteq (1..events) \ buffer
       /\ phase # "stopped" => d.persist = TRUE
       /\ \A c \in sends : c # d => c.lines \cap d.lines = {}
       /\ \A e \in d.lines : rows[e] = 1 => e \in rowSaved
  /\ \A e \in buffer : rows[e] = 1 => e \in rowSaved
  /\ \A e \in LineIds : lineTold[e] = "emailed" => e \in mailed
  /\ \A e \in LineIds : e > events => rows[e] = 0
  /\ phase # "stopped" =>
       \A e \in 1..events : \/ e \in buffer \cup withheld \/ rows[e] = 1
                            \/ \E d \in sends : e \in d.lines

LEMMA LinesExist ==
  ASSUME DigestInv
  PROVE  1..events \subseteq LineIds /\ \A e \in LineIds : e > events <=> e \notin 1..events
BY DigestAssumption DEF DigestInv, LineIds

\* Who is told, and what: nobody that a line was emailed, in these steps.
LEMMA SettledQuietly ==
  ASSUME DigestInv, NEW E, Digest!Settled(E, "not emailed"), mailed \subseteq mailed'
  PROVE  /\ DOMAIN lineTold' = LineIds
         /\ \A e \in LineIds : lineTold'[e] = "emailed" => e \in mailed'
BY DEF DigestInv, Digest!Settled, Digest!Lines, LineIds

LEMMA LogKeeps == ASSUME DigestInv, NEW b, Digest!CriticalLog(b) PROVE DigestInv'
<1> DEFINE n == events + 1
<1>1. /\ n \in LineIds /\ n > events /\ 1..n = (1..events) \cup {n} /\ n \notin 1..events
      /\ events' = n /\ n \in 0..MaxEvents /\ phase # "stopped"
      /\ \A e \in LineIds : e > n => e > events
  BY DigestAssumption DEF DigestInv, Digest!CriticalLog, LineIds
<1>2. /\ UNCHANGED <<rowSaved, rows, sends, lineTold, mailed, phase>>
      /\ \/ buffer' = buffer \cup {n} /\ withheld' = withheld
         \/ buffer' = buffer /\ withheld' = withheld \cup {n}
  BY DEF Digest!CriticalLog
<1> HIDE DEF n
<1>3. rows[n] = 0 /\ 1..events \subseteq LineIds
  BY <1>1, LinesExist DEF DigestInv
<1>4. buffer' \subseteq 1..n /\ \A e \in buffer' : rows[e] = 1 => e \in rowSaved
  <2>1. buffer \subseteq 1..events /\ \A e \in buffer : rows[e] = 1 => e \in rowSaved
    BY DEF DigestInv
  <2>2. \A e \in buffer' : e \in buffer \/ e = n
    BY <1>2
  <2>3. n \in 1..n
    BY <1>1
  <2>4. rows[n] # 1
    BY <1>3
  <2>5. \A e \in 1..events : e \in 1..n
    BY <1>1
  <2>6. \A e \in buffer' : e \in 1..n
    BY <2>1, <2>2, <2>3, <2>5
  <2>7. \A e \in buffer' : rows[e] = 1 => e \in rowSaved
    BY <2>1, <2>2, <2>4
  <2> QED BY <2>6, <2>7
<1>5. ASSUME NEW d \in sends PROVE d.lines \subseteq (1..n) \ buffer'
  BY <1>1, <1>2 DEF DigestInv
<1>6. \A e \in 1..n : \/ e \in buffer' \cup withheld' \/ rows[e] = 1
                       \/ \E d \in sends : e \in d.lines
  BY <1>1, <1>2 DEF DigestInv
<1> QED BY <1>1, <1>2, <1>4, <1>5, <1>6 DEF DigestInv

LEMMA FlushKeeps ==
  ASSUME DigestInv, NEW persist \in BOOLEAN, Digest!FlushDigest(persist),
         UNCHANGED <<events, rowSaved, rows, mailed>>,
         phase' = "stopped" \/ (phase # "stopped" /\ persist = TRUE)
  PROVE  DigestInv'
<1>1. CASE buffer = {}
  BY <1>1 DEF Digest!FlushDigest, DigestInv
<1>2. CASE buffer # {} /\ sentHour >= MaxPerHour
  <2>1. /\ buffer' = {} /\ withheld' = withheld \cup buffer /\ sends' = sends
        /\ Digest!Settled(buffer, "not emailed")
    BY <1>2 DEF Digest!FlushDigest, Digest!SettledWithheld
  <2>2. /\ DOMAIN lineTold' = LineIds
        /\ \A e \in LineIds : lineTold'[e] = "emailed" => e \in mailed'
    BY <2>1, SettledQuietly
  <2> QED BY <2>1, <2>2 DEF DigestInv
<1>3. CASE buffer # {} /\ ~(sentHour >= MaxPerHour)
  <2> DEFINE new == [lines |-> buffer, persist |-> persist]
  <2>1. /\ buffer' = {} /\ UNCHANGED <<withheld, lineTold>> /\ sends' = sends \cup {new}
    BY <1>3 DEF Digest!FlushDigest
  <2>2. new.lines = buffer /\ new.persist = persist
    OBVIOUS
  <2> HIDE DEF new
  <2>3. ASSUME NEW d \in sends'
        PROVE  /\ d.lines # {} /\ d.lines \subseteq (1..events) \ buffer'
               /\ phase' # "stopped" => d.persist = TRUE
               /\ \A c \in sends' : c # d => c.lines \cap d.lines = {}
               /\ \A e \in d.lines : rows[e] = 1 => e \in rowSaved
    <3>1. CASE d = new
      BY <1>3, <2>1, <2>2, <3>1 DEF DigestInv
    <3>2. CASE d \in sends
      BY <1>3, <2>1, <2>2, <3>2 DEF DigestInv
    <3> QED BY <2>1, <3>1, <3>2
  <2>4. phase' # "stopped" =>
          \A e \in 1..events : \/ e \in buffer' \cup withheld' \/ rows[e] = 1
                               \/ \E d \in sends' : e \in d.lines
    BY <2>1, <2>2 DEF DigestInv
  <2> QED BY <2>1, <2>3, <2>4 DEF DigestInv
<1> QED BY <1>1, <1>2, <1>3

LEMMA SendEndKeeps == ASSUME DigestInv, NEW d \in sends, Digest!DigestEnds(d) PROVE DigestInv'
<1>1. /\ sends' = sends \ {d} /\ UNCHANGED <<events, buffer, rowSaved, withheld, phase>>
      /\ rows' = [e \in LineIds |-> rows[e] + IF d.persist /\ e \in d.lines \ rowSaved THEN 1 ELSE 0]
  BY DEF Digest!DigestEnds, Digest!Unsaved, Digest!Lines, LineIds
<1>2. /\ DOMAIN lineTold' = LineIds
      /\ \A e \in LineIds : lineTold'[e] = "emailed" => e \in mailed'
  BY SettledQuietly DEF DigestInv, Digest!DigestEnds, Digest!Settled, Digest!Lines, LineIds
<1>3. \A e \in d.lines : e \in LineIds /\ (e \notin rowSaved => rows[e] = 0)
  BY LinesExist DEF DigestInv
<1>4. \A e \in LineIds : IF d.persist /\ e \in d.lines \ rowSaved THEN rows'[e] = 1 ELSE rows'[e] = rows[e]
  BY <1>1, <1>3 DEF DigestInv
<1>5. rows' \in [LineIds -> {0, 1}] /\ rowSaved' \subseteq {e \in LineIds : rows'[e] = 1}
  BY <1>1, <1>4 DEF DigestInv
<1>6. ASSUME NEW c \in sends', NEW e \in c.lines, rows'[e] = 1 PROVE e \in rowSaved
  <2>1. c \in sends /\ c # d /\ e \notin d.lines /\ e \in LineIds
    BY <1>1, LinesExist DEF DigestInv
  <2> QED BY <1>4, <1>6, <2>1 DEF DigestInv
<1>7. ASSUME NEW e \in buffer, rows'[e] = 1 PROVE e \in rowSaved
  <2>1. e \notin d.lines /\ e \in LineIds
    BY LinesExist DEF DigestInv
  <2> QED BY <1>4, <1>7, <2>1 DEF DigestInv
<1>8. \A e \in LineIds : e > events => rows'[e] = 0
  <2> SUFFICES ASSUME NEW e \in LineIds, e > events PROVE rows'[e] = 0
    OBVIOUS
  <2>1. e \notin d.lines
    BY DEF DigestInv, LineIds
  <2> QED BY <1>4, <2>1 DEF DigestInv
<1>9. ASSUME phase # "stopped", NEW e \in 1..events
      PROVE  \/ e \in buffer \cup withheld \/ rows'[e] = 1 \/ \E c \in sends' : e \in c.lines
  <2>1. d.persist = TRUE /\ e \in LineIds
    BY <1>9, LinesExist DEF DigestInv
  <2>2. CASE e \in d.lines
    BY <1>4, <1>5, <1>1, <2>1, <2>2
  <2>3. CASE e \notin d.lines
    BY <1>1, <1>4, <1>9, <2>1, <2>3 DEF DigestInv
  <2> QED BY <2>2, <2>3
<1> QED BY <1>1, <1>2, <1>5, <1>6, <1>7, <1>8, <1>9 DEF DigestInv

LEMMA DigestInvStep == ASSUME DigestInv, [Digest!Next]_Digest!vars PROVE DigestInv'
<1>1. CASE Digest!WindowCloses
  <2>1. /\ Digest!FlushDigest(TRUE) /\ UNCHANGED <<events, rowSaved, rows, mailed, phase>>
    BY <1>1 DEF Digest!WindowCloses
  <2>2. CASE phase = "stopped"
    BY <2>1, <2>2, FlushKeeps
  <2>3. CASE phase # "stopped"
    BY <2>1, <2>3, FlushKeeps
  <2> QED BY <2>2, <2>3
<1>2. CASE Digest!HourPasses \/ UNCHANGED Digest!vars
  BY <1>2 DEF Digest!HourPasses, Digest!vars, DigestInv
<1>3. CASE Digest!FlushForShutdown
  <2>1. phase = "running" /\ UNCHANGED <<events, mailed>>
    BY <1>3 DEF Digest!FlushForShutdown
  <2>2. CASE buffer = {}
    BY <1>3, <2>1, <2>2 DEF Digest!FlushForShutdown, DigestInv
  <2>3. CASE buffer # {} /\ sentHour >= MaxPerHour
    <3>1. Digest!FlushDigest(TRUE) /\ UNCHANGED <<rowSaved, rows>> /\ phase' = "flushed"
      BY <1>3, <2>3 DEF Digest!FlushForShutdown
    <3> QED BY <2>1, <3>1, FlushKeeps
  <2>4. CASE buffer # {} /\ ~(sentHour >= MaxPerHour)
    <3>1. /\ rowSaved' = rowSaved \cup buffer /\ phase' = "flushed"
          /\ rows' = [e \in LineIds |-> rows[e] + IF e \in buffer \ rowSaved THEN 1 ELSE 0]
          /\ UNCHANGED <<buffer, sends, withheld, lineTold>>
      BY <1>3, <2>4 DEF Digest!FlushForShutdown, Digest!Lines, LineIds
    <3>2. \A e \in buffer : e \in LineIds /\ (e \notin rowSaved => rows[e] = 0) /\ ~(e > events)
      BY LinesExist DEF DigestInv
    <3>3. ASSUME NEW e \in LineIds
          PROVE  IF e \in buffer THEN rows'[e] = 1 ELSE rows'[e] = rows[e]
      <4>1. /\ rows'[e] = rows[e] + IF e \in buffer \ rowSaved THEN 1 ELSE 0
            /\ rows[e] \in {0, 1} /\ (e \in rowSaved => rows[e] = 1)
        BY <3>1, <3>3 DEF DigestInv
      <4>2. e \in buffer /\ e \notin rowSaved => rows[e] = 0
        BY <3>2
      <4> QED BY <4>1, <4>2
    <3>4. rows' \in [LineIds -> {0, 1}] /\ rowSaved' \subseteq {e \in LineIds : rows'[e] = 1}
      BY <3>1, <3>2, <3>3 DEF DigestInv
    <3>5. ASSUME NEW d \in sends, NEW e \in d.lines, rows'[e] = 1 PROVE e \in rowSaved'
      <4>1. e \notin buffer /\ e \in LineIds
        BY LinesExist DEF DigestInv
      <4> QED BY <3>1, <3>3, <3>5, <4>1 DEF DigestInv
    <3>6. \A e \in LineIds : e > events => rows'[e] = 0
      BY <3>2, <3>3 DEF DigestInv
    <3>7. ASSUME NEW e \in 1..events
          PROVE  e \in buffer \cup withheld \/ rows'[e] = 1 \/ \E d \in sends : e \in d.lines
      <4>1. e \in LineIds
        BY LinesExist DEF DigestInv
      <4> QED BY <2>1, <3>3, <4>1 DEF DigestInv
    <3> QED BY <2>1, <3>1, <3>4, <3>5, <3>6, <3>7 DEF DigestInv
  <2> QED BY <2>2, <2>3, <2>4
<1>4. CASE Digest!DrainEnds
  BY <1>4, SettledQuietly DEF Digest!DrainEnds, DigestInv
<1>5. ASSUME NEW b \in BOOLEAN, Digest!DrainAndStop(b) PROVE DigestInv'
  <2>1. UNCHANGED <<events, rowSaved, rows, mailed>>
    BY <1>5 DEF Digest!DrainAndStop
  <2>2. CASE Digest!FlushDigest(b) /\ phase' = "stopped"
    BY <2>1, <2>2, FlushKeeps
  <2>3. CASE /\ phase # "stopped" /\ phase' = "skipped" /\ Digest!Settled(waiting, "not emailed")
             /\ UNCHANGED <<buffer, sends, withheld>>
    BY <2>1, <2>3, SettledQuietly DEF DigestInv
  <2> QED BY <1>5, <2>2, <2>3 DEF Digest!DrainAndStop
<1>6. ASSUME NEW e \in waiting, Digest!WaiterTimesOut(e) PROVE DigestInv'
  BY <1>6, SettledQuietly DEF Digest!WaiterTimesOut, DigestInv
<1> QED BY <1>1, <1>2, <1>3, <1>4, <1>5, <1>6, LogKeeps, SendEndKeeps DEF Digest!Next

LEMMA DigestInvInit == Digest!Init => DigestInv
BY DigestAssumption DEF Digest!Init, DigestInv, Digest!Lines, LineIds

LEMMA DigestInvSuffices == DigestInv => Digest!AlertsAccounted
BY DEF DigestInv, Digest!AlertsAccounted, Digest!InFlight, Digest!Lines, LineIds

\* The digest by itself: any number of lines, any limits.
THEOREM NoLineVanishes == Digest!Spec => []Digest!AlertsAccounted
<1>1. DigestInv /\ [Digest!Next]_Digest!vars => DigestInv'
  BY DigestInvStep
<1> QED BY DigestInvInit, <1>1, DigestInvSuffices, PTL DEF Digest!Spec

\* A step of the composition is one of the digest, or leaves it alone.
LEMMA DigestSteps == [Next]_vars => [Digest!Next]_Digest!vars
<1> SUFFICES ASSUME [Next]_vars, ~Digest!Next PROVE UNCHANGED Digest!vars
  OBVIOUS
<1>1. UNCHANGED digest
  BY DEF Next, vars
<1> QED BY <1>1 DEF digest, Digest!vars

\* Nobody is told that a line was emailed that was not, no line gets two rows, and
\* while rows can be written none vanishes: whichever of the send, the timeout, the
\* ceiling and the two phases of a stop comes first.
THEOREM AlertsAccountedTheorem == Spec => []AlertsAccounted
<1>1. Init => DigestInv
  BY DigestInvInit DEF Init
<1>2. DigestInv /\ [Next]_vars => DigestInv'
  BY DigestInvStep, DigestSteps
<1>3. DigestInv => AlertsAccounted
  BY DigestInvSuffices DEF AlertsAccounted
<1> QED BY <1>1, <1>2, <1>3, PTL DEF Spec

-----------------------------------------------------------------------------
(* LoginLockout                                                            *)

\* The end of a lock is a moment plus a length; of the lengths nothing is used.
LockEnds   == {0} \cup {t + Lockout!LockDuration(c) : t \in Nat, c \in Nat}
LockStates == [cycles : Nat, max : Nat, fails : Nat, until : LockEnds]

LockTypes ==
  /\ llNow \in Nat
  /\ lockouts \in [Accounts -> [state : LockStates, expires : Nat]]
  /\ login \in [1..MaxLogins -> [pc : {"idle", "verify", "refused", "failed", "ok"},
                                 at : LoginWorkers, user : Accounts]]

LEMMA PolicyTypes ==
  ASSUME llNow \in Nat, NEW s \in LockStates
  PROVE  /\ Lockout!Evaluated(s) \in LockStates /\ Lockout!Evaluated(s).cycles = s.cycles
         /\ Lockout!Failed(s) \in LockStates /\ Lockout!Failed(s).cycles >= s.cycles
<1>1. Lockout!Evaluated(s) \in LockStates /\ Lockout!Evaluated(s).cycles = s.cycles
  <2>1. 0 \in LockEnds /\ 0 \in Nat
    BY DEF LockEnds
  <2>2. Lockout!Evaluated(s) \in {s, [s EXCEPT !.until = 0, !.fails = 0]}
    BY DEF Lockout!Evaluated
  <2> QED BY <2>1, <2>2 DEF LockStates
<1>2. PICK t \in LockStates : t = [Lockout!Evaluated(s) EXCEPT !.fails = @ + 1]
  <2>1. PICK e \in LockStates : e = Lockout!Evaluated(s)
    BY <1>1
  <2>2. [e EXCEPT !.fails = @ + 1] \in LockStates
    BY DEF LockStates
  <2> QED BY <2>1, <2>2
<1>3. t.cycles = s.cycles /\ t.cycles + 1 \in Nat /\ t.cycles \in Nat
  BY <1>1, <1>2 DEF LockStates
<1>4. llNow + Lockout!LockDuration(t.cycles + 1) \in LockEnds
  BY <1>3 DEF LockEnds
<1>5. (IF t.max > Decrement THEN t.max - Decrement ELSE 1) \in Nat
  BY LockoutAssumption DEF LockStates
<1>6. Lockout!Failed(s) \in {t,
        [cycles |-> t.cycles + 1, fails |-> 0,
         max |-> IF t.max > Decrement THEN t.max - Decrement ELSE 1,
         until |-> llNow + Lockout!LockDuration(t.cycles + 1)]}
  BY <1>2 DEF Lockout!Failed
<1>7. [cycles |-> t.cycles + 1, fails |-> 0,
       max |-> IF t.max > Decrement THEN t.max - Decrement ELSE 1,
       until |-> llNow + Lockout!LockDuration(t.cycles + 1)] \in LockStates
  BY <1>3, <1>4, <1>5 DEF LockStates
<1>8. Lockout!Failed(s) \in LockStates /\ Lockout!Failed(s).cycles >= s.cycles
  BY <1>3, <1>6, <1>7
<1> QED BY <1>1, <1>8

LEMMA FreshState == Lockout!Initial \in LockStates
BY LockoutAssumption DEF Lockout!Initial, LockStates, LockEnds

LEMMA LockTypesInit == Lockout!Init => LockTypes
<1> SUFFICES ASSUME Lockout!Init PROVE LockTypes
  OBVIOUS
<1>1. [state |-> Lockout!Initial, expires |-> 0] \in [state : LockStates, expires : Nat]
  BY FreshState
<1> QED BY <1>1 DEF Lockout!Init, Lockout!NoEntry, LockTypes

\* An entry that is written is alive.
LEMMA WrittenTypes ==
  ASSUME LockTypes, NEW a \in Accounts, NEW s \in LockStates,
         lockouts' = Lockout!Written(lockouts, a, s)
  PROVE  /\ lockouts' \in [Accounts -> [state : LockStates, expires : Nat]]
         /\ lockouts'[a].state = s /\ lockouts'[a].expires > llNow
         /\ \A b \in Accounts \ {a} : lockouts'[b] = lockouts[b]
<1>1. llNow + EntryTtl \in Nat /\ llNow + EntryTtl > llNow
  BY LockoutAssumption DEF LockTypes
<1> QED BY <1>1 DEF LockTypes, Lockout!Written

LEMMA LockTypesStep == ASSUME LockTypes, [Lockout!Next]_Lockout!vars PROVE LockTypes'
<1>1. CASE Lockout!Tick
  BY <1>1 DEF Lockout!Tick, Lockout!primaryVars, LockTypes
<1>2. ASSUME NEW a \in Accounts, Lockout!PrimaryCheck(a)
      PROVE  lockouts' \in [Accounts -> [state : LockStates, expires : Nat]]
  <2>1. lockouts[a].state \in LockStates
    BY DEF LockTypes
  <2>2. Lockout!Evaluated(lockouts[a].state) \in LockStates
    BY <2>1, PolicyTypes DEF LockTypes
  <2> QED BY <1>2, <2>2, WrittenTypes DEF Lockout!PrimaryCheck, LockTypes
<1>3. ASSUME NEW a \in Accounts, Lockout!PrimaryCounts(a)
      PROVE  lockouts' \in [Accounts -> [state : LockStates, expires : Nat]]
  <2>1. PICK s \in LockStates : s = IF Lockout!Live(a) THEN lockouts[a].state ELSE Lockout!Initial
    BY FreshState DEF LockTypes
  <2>2. Lockout!Failed(s) \in LockStates
    BY PolicyTypes DEF LockTypes
  <2>3. \/ UNCHANGED lockouts
        \/ lockouts' = Lockout!Written(lockouts, a, Lockout!Failed(s))
    BY <1>3, <2>1 DEF Lockout!PrimaryCounts
  <2> QED BY <2>2, <2>3, WrittenTypes DEF LockTypes
<1>4. ASSUME NEW l \in 1..MaxLogins, NEW w \in LoginWorkers, NEW a \in Accounts, Lockout!Check(l, w, a)
      PROVE  LockTypes'
  BY <1>2, <1>4 DEF Lockout!Check, Lockout!primaryVars, LockTypes
<1>5. ASSUME NEW l \in 1..MaxLogins, Lockout!WrongPassword(l) PROVE LockTypes'
  <2>1. login[l].user \in Accounts
    BY DEF LockTypes
  <2>2. UNCHANGED llNow /\ login' = [login EXCEPT ![l].pc = "failed"]
    BY <1>5 DEF Lockout!WrongPassword, Lockout!Becomes
  <2>3. lockouts' \in [Accounts -> [state : LockStates, expires : Nat]]
    BY <1>3, <1>5, <2>1 DEF Lockout!WrongPassword, Lockout!PrimaryDeclines, Lockout!primaryVars, LockTypes
  <2> QED BY <2>2, <2>3 DEF LockTypes
<1>6. ASSUME NEW l \in 1..MaxLogins, Lockout!RightPassword(l) PROVE LockTypes'
  BY <1>6 DEF Lockout!RightPassword, Lockout!Becomes, LockTypes
<1>7. ASSUME NEW w \in LoginWorkers, NEW a \in Accounts, Lockout!RelayDelete(w, a) PROVE LockTypes'
  BY <1>7 DEF Lockout!RelayDelete, Lockout!primaryVars, LockTypes
<1>8. CASE UNCHANGED Lockout!vars
  BY <1>8 DEF Lockout!vars, LockTypes
<1> QED BY <1>1, <1>4, <1>5, <1>6, <1>7, <1>8 DEF Lockout!Next

\* Who is tracked survives what is done about another account.
LEMMA TrackedKeeps ==
  ASSUME NEW R, NEW a \in Accounts, NEW b \in Lockout!Tracked(R), b # a
  PROVE  /\ b \in Lockout!Tracked(Lockout!Without(R, a))
         /\ b \in Lockout!Tracked(Lockout!MovedLast(R, a))
BY DEF Lockout!Tracked, Lockout!Without, Lockout!Only, Lockout!MovedLast

LEMMA MovedIsTracked ==
  ASSUME NEW R, NEW a \in Accounts
  PROVE  a \in Lockout!Tracked(Lockout!MovedLast(R, a))
BY DEF Lockout!Tracked, Lockout!MovedLast

\* A state that is evaluated is locked as it was, in the same cycle.
LEMMA RefusalIs ==
  ASSUME LockTypes, NEW a \in Accounts
  PROVE  /\ Lockout!Refuses(a) <=>
              /\ Lockout!Live(a)
              /\ Lockout!Locked(lockouts[a].state) \/ lockouts[a].state.cycles >= MaxCycles
         /\ Lockout!Unlocked(a) => /\ ~Lockout!Locked(lockouts[a].state)
                                   /\ ~(lockouts[a].state.cycles >= MaxCycles)
<1>1. PICK s \in LockStates : s = lockouts[a].state
  BY DEF LockTypes
<1>2. PICK e : e = Lockout!Evaluated(s)
  OBVIOUS
<1>3. (e.until > llNow <=> s.until > llNow) /\ e.cycles = s.cycles
  BY <1>2 DEF LockTypes, LockStates, Lockout!Evaluated, Lockout!Lapsed, Lockout!Locked, Lockout!LockedAt
<1> QED BY <1>1, <1>2, <1>3
        DEF Lockout!Refuses, Lockout!Unlocked, Lockout!Admits, Lockout!HrReset, Lockout!Locked, Lockout!LockedAt

\* #makeRoom takes no account that is refused.
LEMMA EvictionKeeps ==
  ASSUME LockTypes, NEW R, NEW a \in Lockout!Tracked(R), Lockout!Refuses(a)
  PROVE  a \in Lockout!Tracked(Lockout!Evict(R))
<1>1. a \in Accounts /\ Lockout!Live(a)
  BY DEF Lockout!Tracked, Lockout!Refuses
<1>2. ~Lockout!Unlocked(a)
  BY <1>1, RefusalIs
<1> QED BY <1>1, <1>2 DEF Lockout!Evict, Lockout!Only, Lockout!Tracked, Lockout!Oldest

\* What makes an account refused in the next state.
LEMMA RefusalLasts ==
  ASSUME LockTypes', NEW a \in Accounts,
         a \in Lockout!Tracked(order'), lockouts'[a].expires > llNow',
         \/ Lockout!LockedAt(lockouts'[a].state, llNow')
         \/ lockouts'[a].state.cycles >= MaxCycles
  PROVE  Lockout!Refuses(a)'
<1>1. PICK s \in LockStates : s = lockouts'[a].state
  BY DEF LockTypes
<1>2. PICK e : e = IF s.until > 0 /\ ~(s.until > llNow') THEN [s EXCEPT !.until = 0, !.fails = 0] ELSE s
  OBVIOUS
<1>3. (e.until > llNow' <=> s.until > llNow') /\ e.cycles = s.cycles
  BY <1>2 DEF LockTypes, LockStates
<1>4. Lockout!Live(a)'
  BY DEF Lockout!Live, Lockout!Tracked
<1>5. Lockout!Evaluated(lockouts[a].state)' = e
  BY <1>1, <1>2 DEF Lockout!Evaluated, Lockout!Lapsed, Lockout!Locked, Lockout!LockedAt
<1> QED BY <1>1, <1>3, <1>4, <1>5
        DEF Lockout!Refuses, Lockout!Admits, Lockout!HrReset, Lockout!Locked, Lockout!LockedAt

\* The promise of one account, over one step.
LockStep(a) ==
  Lockout!Refuses(a) =>
    \/ Lockout!Refuses(a)'
    \/ Lockout!Succeeds(a)
    \/ llNow' >= lockouts[a].expires
    \/ Lockout!Locked(lockouts[a].state) /\ ~Lockout!LockedAt(lockouts[a].state, llNow')

\* A step that leaves a refused account its entry.
LEMMA EntryStays ==
  ASSUME LockTypes, LockTypes', NEW a \in Accounts, Lockout!Refuses(a),
         UNCHANGED llNow, lockouts'[a] = lockouts[a], a \in Lockout!Tracked(order')
  PROVE  Lockout!Refuses(a)'
<1>1. lockouts[a].expires > llNow
  BY DEF Lockout!Refuses, Lockout!Live
<1>2. Lockout!Locked(lockouts[a].state) \/ lockouts[a].state.cycles >= MaxCycles
  BY RefusalIs
<1> QED BY <1>1, <1>2, RefusalLasts DEF Lockout!Locked, Lockout!LockedAt

\* check, of this account or another.
LEMMA CheckHolds ==
  ASSUME LockTypes, LockTypes', NEW a \in Accounts, Lockout!Refuses(a),
         NEW b \in Accounts, Lockout!PrimaryCheck(b), UNCHANGED llNow
  PROVE  Lockout!Refuses(a)'
<1>1. a \in Lockout!Tracked(order) /\ Lockout!Live(a)
  BY DEF Lockout!Refuses, Lockout!Live
<1>2. lockouts[b].state \in LockStates /\ lockouts[a].state \in LockStates
  BY DEF LockTypes
<1>3. Lockout!Evaluated(lockouts[b].state) \in LockStates
  BY <1>2, PolicyTypes DEF LockTypes
<1>4. CASE Lockout!Live(b) /\ Lockout!Lapsed(lockouts[b].state)
  <2>1. /\ lockouts' = Lockout!Written(lockouts, b, Lockout!Evaluated(lockouts[b].state))
        /\ order' = Lockout!MovedLast(order, b)
    BY <1>4 DEF Lockout!PrimaryCheck
  <2>2. a \in Lockout!Tracked(order')
    BY <1>1, <2>1, TrackedKeeps, MovedIsTracked
  <2>3. CASE a # b
    BY <1>3, <2>1, <2>2, <2>3, WrittenTypes, EntryStays
  <2>4. CASE a = b
    <3>1. lockouts[a].state.cycles >= MaxCycles
      BY <1>4, <2>4, RefusalIs DEF Lockout!Lapsed
    <3>2. /\ lockouts'[a].state.cycles = lockouts[a].state.cycles
          /\ lockouts'[a].expires > llNow
      BY <1>2, <1>3, <2>1, <2>4, WrittenTypes, PolicyTypes DEF LockTypes
    <3> QED BY <2>2, <3>1, <3>2, RefusalLasts
  <2> QED BY <2>3, <2>4
<1>5. CASE ~(Lockout!Live(b) /\ Lockout!Lapsed(lockouts[b].state))
  <2>1. UNCHANGED lockouts
    BY <1>5 DEF Lockout!PrimaryCheck
  <2>2. a \in Lockout!Tracked(order')
    BY <1>1, <1>5, TrackedKeeps DEF Lockout!PrimaryCheck
  <2> QED BY <2>1, <2>2, EntryStays
<1> QED BY <1>4, <1>5

\* fail that is counted.
LEMMA CountHolds ==
  ASSUME LockTypes, LockTypes', NEW a \in Accounts, Lockout!Refuses(a),
         NEW b \in Accounts, Lockout!PrimaryCounts(b), UNCHANGED llNow
  PROVE  Lockout!Refuses(a)'
<1>1. a \in Lockout!Tracked(order) /\ Lockout!Live(a)
  BY DEF Lockout!Refuses, Lockout!Live
<1>2. PICK s \in LockStates : s = IF Lockout!Live(b) THEN lockouts[b].state ELSE Lockout!Initial
  BY FreshState DEF LockTypes
<1>3. PICK room : room \in {Lockout!Without(order, b), Lockout!Evict(Lockout!Without(order, b))}
                  /\ \/ UNCHANGED <<lockouts, order>>
                     \/ /\ ~Lockout!Locked(s) /\ order' = Lockout!MovedLast(room, b)
                        /\ lockouts' = Lockout!Written(lockouts, b, Lockout!Failed(s))
  BY <1>2 DEF Lockout!PrimaryCounts
<1>4. CASE UNCHANGED <<lockouts, order>>
  BY <1>1, <1>4, EntryStays
<1>5. CASE /\ ~Lockout!Locked(s) /\ order' = Lockout!MovedLast(room, b)
           /\ lockouts' = Lockout!Written(lockouts, b, Lockout!Failed(s))
  <2>1. Lockout!Failed(s) \in LockStates /\ Lockout!Failed(s).cycles >= s.cycles
    BY PolicyTypes DEF LockTypes
  <2>2. CASE a # b
    <3>1. a \in Lockout!Tracked(Lockout!Without(order, b))
      BY <1>1, <2>2, TrackedKeeps
    <3>2. a \in Lockout!Tracked(room)
      BY <1>3, <3>1, EvictionKeeps
    <3>3. a \in Lockout!Tracked(order')
      BY <1>5, <2>2, <3>2, TrackedKeeps
    <3> QED BY <1>5, <2>1, <2>2, <3>3, WrittenTypes, EntryStays
  <2>3. CASE a = b
    <3>1. s = lockouts[a].state
      BY <1>1, <1>2, <2>3
    <3>2. s.cycles >= MaxCycles
      BY <1>5, <3>1, RefusalIs
    <3>3. lockouts'[a].state.cycles >= MaxCycles /\ lockouts'[a].expires > llNow
      BY <1>5, <2>1, <2>3, <3>2, WrittenTypes, LockoutAssumption DEF LockStates
    <3>4. a \in Lockout!Tracked(order')
      BY <1>5, <2>3, MovedIsTracked
    <3> QED BY <3>3, <3>4, RefusalLasts
  <2> QED BY <2>2, <2>3
<1> QED BY <1>3, <1>4, <1>5

\* fail with a full table.
LEMMA DeclineHolds ==
  ASSUME LockTypes, LockTypes', NEW a \in Accounts, Lockout!Refuses(a),
         NEW b \in Accounts, Lockout!PrimaryDeclines(b), UNCHANGED llNow
  PROVE  Lockout!Refuses(a)'
<1>1. a \in Lockout!Tracked(order) /\ a # b
  BY DEF Lockout!Refuses, Lockout!Live, Lockout!PrimaryDeclines
<1>2. a \in Lockout!Tracked(Lockout!Without(order, b))
  BY <1>1, TrackedKeeps
<1>3. a \in Lockout!Tracked(order') /\ UNCHANGED lockouts
  BY <1>2, EvictionKeeps DEF Lockout!PrimaryDeclines
<1> QED BY <1>3, EntryStays

LEMMA LockStepHolds ==
  ASSUME LockTypes, LockTypes', [Lockout!Next]_Lockout!vars, NEW a \in Accounts PROVE LockStep(a)
<1> SUFFICES ASSUME Lockout!Refuses(a) PROVE LockStep(a)
  BY DEF LockStep
<1>1. a \in Lockout!Tracked(order)
  BY DEF Lockout!Refuses, Lockout!Live
<1>2. CASE Lockout!Tick
  <2>1. UNCHANGED <<lockouts, order>> /\ llNow' \in Nat /\ lockouts[a].expires \in Nat
    BY <1>2 DEF Lockout!Tick, Lockout!primaryVars, LockTypes
  <2>2. CASE ~(lockouts[a].expires > llNow')
    BY <2>1, <2>2 DEF LockStep
  <2>3. CASE Lockout!Locked(lockouts[a].state) /\ ~Lockout!LockedAt(lockouts[a].state, llNow')
    BY <2>3 DEF LockStep
  <2>4. CASE /\ lockouts[a].expires > llNow'
             /\ Lockout!Locked(lockouts[a].state) => Lockout!LockedAt(lockouts[a].state, llNow')
    BY <1>1, <2>1, <2>4, RefusalIs, RefusalLasts DEF LockStep
  <2> QED BY <2>2, <2>3, <2>4
<1>3. ASSUME NEW l \in 1..MaxLogins, NEW w \in LoginWorkers, NEW b \in Accounts, Lockout!Check(l, w, b)
      PROVE  LockStep(a)
  <2>1. UNCHANGED llNow
    BY <1>3 DEF Lockout!Check
  <2>2. Lockout!PrimaryCheck(b) \/ UNCHANGED Lockout!primaryVars
    BY <1>3 DEF Lockout!Check
  <2>3. CASE UNCHANGED Lockout!primaryVars
    BY <1>1, <2>1, <2>3, EntryStays DEF LockStep, Lockout!primaryVars
  <2> QED BY <2>1, <2>2, <2>3, CheckHolds DEF LockStep
<1>4. ASSUME NEW l \in 1..MaxLogins, Lockout!WrongPassword(l) PROVE LockStep(a)
  <2>1. PICK b \in Accounts : b = login[l].user
    BY DEF LockTypes
  <2>2. UNCHANGED llNow
    BY <1>4 DEF Lockout!WrongPassword
  <2>3. Lockout!PrimaryCounts(b) \/ Lockout!PrimaryDeclines(b) \/ UNCHANGED Lockout!primaryVars
    BY <1>4, <2>1 DEF Lockout!WrongPassword
  <2>4. CASE UNCHANGED Lockout!primaryVars
    BY <1>1, <2>2, <2>4, EntryStays DEF LockStep, Lockout!primaryVars
  <2> QED BY <2>2, <2>3, <2>4, CountHolds, DeclineHolds DEF LockStep
<1>5. ASSUME NEW l \in 1..MaxLogins, Lockout!RightPassword(l) PROVE LockStep(a)
  <2>1. PICK b \in Accounts : b = login[l].user
    BY DEF LockTypes
  <2>2. /\ UNCHANGED <<llNow, lockouts>>
        /\ login[l].pc = "verify" /\ login' = [login EXCEPT ![l].pc = "ok"]
        /\ order' = Lockout!Without(order, b) \/ UNCHANGED order
    BY <1>5, <2>1 DEF Lockout!RightPassword, Lockout!Becomes
  <2>3. CASE a = b
    BY <2>1, <2>2, <2>3 DEF LockStep, Lockout!Succeeds, LockTypes
  <2>4. CASE a # b
    BY <1>1, <2>2, <2>4, TrackedKeeps, EntryStays DEF LockStep
  <2> QED BY <2>3, <2>4
<1>6. ASSUME NEW w \in LoginWorkers, NEW b \in Accounts, Lockout!RelayDelete(w, b) PROVE LockStep(a)
  BY <1>1, <1>6, EntryStays DEF Lockout!RelayDelete, Lockout!primaryVars, LockStep
<1>7. CASE UNCHANGED Lockout!vars
  BY <1>1, <1>7, EntryStays DEF Lockout!vars, LockStep
<1> QED BY <1>2, <1>3, <1>4, <1>5, <1>6, <1>7 DEF Lockout!Next

\* The table by itself: any number of logins, accounts and workers, any room in the
\* table, any settings of the policy.
THEOREM OnlySuccessLifts == Lockout!Spec => Lockout!LockHolds
<1>1. LockTypes /\ [Lockout!Next]_Lockout!vars => LockTypes'
  BY LockTypesStep
<1>2. LockTypes /\ LockTypes' /\ [Lockout!Next]_Lockout!vars =>
        [\A a \in Accounts :
           Lockout!Refuses(a) =>
             \/ Lockout!Refuses(a)' \/ Lockout!Succeeds(a)
             \/ llNow' >= lockouts[a].expires
             \/ Lockout!Locked(lockouts[a].state) /\ ~Lockout!LockedAt(lockouts[a].state, llNow')]_Lockout!vars
  BY LockStepHolds DEF LockStep
<1> QED BY LockTypesInit, <1>1, <1>2, PTL DEF Lockout!Spec, Lockout!LockHolds

\* A step of the composition is one of the lockout, or leaves it alone.
LEMMA LockoutSteps == [Next]_vars => [Lockout!Next]_Lockout!vars
<1> SUFFICES ASSUME [Next]_vars, ~Lockout!Next PROVE UNCHANGED Lockout!vars
  OBVIOUS
<1>1. UNCHANGED lockout
  BY DEF Next, vars
<1> QED BY <1>1 DEF lockout, Lockout!vars

\* Whatever the other accounts do to the bounded table, and however late the logins
\* admitted before report, an account that is refused stays refused until a login
\* succeeds, its window ends or its entry does.
THEOREM LockHoldsTheorem == Spec => LockHolds
<1>1. Init => LockTypes
  BY LockTypesInit DEF Init
<1>2. LockTypes /\ [Next]_vars => LockTypes'
  BY LockTypesStep, LockoutSteps
<1>3. LockTypes /\ LockTypes' /\ [Next]_vars =>
        [\A a \in Accounts :
           Lockout!Refuses(a) =>
             \/ Lockout!Refuses(a)' \/ Lockout!Succeeds(a)
             \/ llNow' >= lockouts[a].expires
             \/ Lockout!Locked(lockouts[a].state) /\ ~Lockout!LockedAt(lockouts[a].state, llNow')]_Lockout!vars
  BY LockStepHolds, LockoutSteps DEF LockStep
<1> QED BY <1>1, <1>2, <1>3, PTL DEF Spec, LockHolds, Lockout!LockHolds

-----------------------------------------------------------------------------
(* AuditBuffer                                                             *)

\* The rows of a sequence come in the order of their numbers.
Rising(s) == \A i, j \in DOMAIN s : i < j => s[i] < s[j]
RowsIn(s) == {s[i] : i \in DOMAIN s}

\* Rows that are not lost, with the queue q and the running flushes F.
Kept(q, F) == RowsIn(q) \cup (UNION {RowsIn(f.batch) : f \in F}) \cup table \cup auditDropped

\* Only one flush of a kind runs, the final one only in a stop; a normal one is
\* known to _flushing and holds older rows than the queue.
QueueInv ==
  /\ auditRows \in Nat /\ pending \in Seq(1..auditRows) /\ Rising(pending)
  /\ auditStop \in {"up", "stopping", "final", "gone"}
  /\ \A f \in flushes :
       /\ f.kind \in {"normal", "final"} /\ f.batch \in Seq(1..auditRows) /\ Rising(f.batch)
       /\ f.kind = "final" => auditStop \in {"final", "gone"}
       /\ f.kind = "normal" /\ auditStop # "gone" => flushing # "none"
       /\ f.kind = "normal" => \A x \in RowsIn(f.batch), y \in RowsIn(pending) : x < y
  /\ \A f, g \in flushes : f.kind = g.kind => f = g
  /\ 1..auditRows \subseteq Kept(pending, flushes)

LEMMA RowsAreIn ==
  ASSUME NEW S, NEW T, S \subseteq T, NEW s \in Seq(S)
  PROVE  s \in Seq(T) /\ RowsIn(s) \subseteq S
<1>1. DOMAIN s = 1..Len(s) /\ Len(s) \in Nat /\ \A i \in DOMAIN s : s[i] \in S
  OBVIOUS
<1>2. s \in Seq(T)
  OBVIOUS
<1> QED BY <1>1, <1>2 DEF RowsIn

LEMMA RowsOfJoin ==
  ASSUME NEW S, NEW s \in Seq(S), NEW t \in Seq(S)
  PROVE  /\ s \o t \in Seq(S) /\ Len(s \o t) = Len(s) + Len(t)
         /\ \A i \in 1..Len(s) : (s \o t)[i] = s[i]
         /\ \A i \in (Len(s) + 1)..(Len(s) + Len(t)) : (s \o t)[i] = t[i - Len(s)]
         /\ RowsIn(s \o t) = RowsIn(s) \cup RowsIn(t)
<1>1. /\ s \o t \in Seq(S) /\ Len(s \o t) = Len(s) + Len(t)
      /\ \A i \in 1..Len(s) : (s \o t)[i] = s[i]
      /\ \A i \in (Len(s) + 1)..(Len(s) + Len(t)) : (s \o t)[i] = t[i - Len(s)]
      /\ Len(s) \in Nat /\ Len(t) \in Nat
      /\ DOMAIN s = 1..Len(s) /\ DOMAIN t = 1..Len(t) /\ DOMAIN (s \o t) = 1..(Len(s) + Len(t))
  OBVIOUS
<1> DEFINE u == s \o t
<1> HIDE DEF u
<1>2. ASSUME NEW x \in RowsIn(u) PROVE x \in RowsIn(s) \cup RowsIn(t)
  <2>1. PICK i \in DOMAIN u : x = u[i]
    BY DEF RowsIn
  <2>2. CASE i <= Len(s)
    BY <1>1, <2>1, <2>2 DEF RowsIn, u
  <2>3. CASE i > Len(s)
    <3>1. x = t[i - Len(s)] /\ i - Len(s) \in DOMAIN t
      BY <1>1, <2>1, <2>3 DEF u
    <3> QED BY <3>1 DEF RowsIn
  <2> QED BY <1>1, <2>1, <2>2, <2>3 DEF u
<1>3. ASSUME NEW x \in RowsIn(s) PROVE x \in RowsIn(u)
  <2>1. PICK i \in DOMAIN s : x = s[i]
    BY DEF RowsIn
  <2>2. x = u[i] /\ i \in DOMAIN u
    BY <1>1, <2>1 DEF u
  <2> QED BY <2>2 DEF RowsIn
<1>4. ASSUME NEW x \in RowsIn(t) PROVE x \in RowsIn(u)
  <2>1. PICK i \in DOMAIN t : x = t[i]
    BY DEF RowsIn
  <2>2. x = u[i + Len(s)] /\ i + Len(s) \in DOMAIN u
    BY <1>1, <2>1 DEF u
  <2> QED BY <2>2 DEF RowsIn
<1> QED BY <1>1, <1>2, <1>3, <1>4 DEF u

LEMMA RisingJoin ==
  ASSUME NEW n \in Nat, NEW s \in Seq(1..n), NEW t \in Seq(1..n), Rising(s), Rising(t),
         \A x \in RowsIn(s), y \in RowsIn(t) : x < y
  PROVE  Rising(s \o t)
<1> DEFINE u == s \o t
<1>1. /\ Len(s) \in Nat /\ Len(t) \in Nat /\ DOMAIN s = 1..Len(s) /\ DOMAIN t = 1..Len(t)
      /\ DOMAIN u = 1..(Len(s) + Len(t))
      /\ \A i \in 1..Len(s) : u[i] = s[i]
      /\ \A i \in (Len(s) + 1)..(Len(s) + Len(t)) : u[i] = t[i - Len(s)]
  OBVIOUS
<1> HIDE DEF u
<1> SUFFICES ASSUME NEW i \in DOMAIN u, NEW j \in DOMAIN u, i < j PROVE u[i] < u[j]
  BY DEF Rising, u
<1>2. CASE j <= Len(s)
  BY <1>1, <1>2 DEF Rising
<1>3. CASE i > Len(s)
  <2>1. i \in (Len(s) + 1)..(Len(s) + Len(t)) /\ j \in (Len(s) + 1)..(Len(s) + Len(t))
    BY <1>1, <1>3
  <2>2. i - Len(s) \in DOMAIN t /\ j - Len(s) \in DOMAIN t /\ i - Len(s) < j - Len(s)
    BY <1>1, <2>1
  <2>3. u[i] = t[i - Len(s)] /\ u[j] = t[j - Len(s)]
    BY <1>1, <2>1
  <2> QED BY <2>2, <2>3 DEF Rising
<1>4. CASE i <= Len(s) /\ j > Len(s)
  <2>1. i \in 1..Len(s) /\ j \in (Len(s) + 1)..(Len(s) + Len(t))
    BY <1>1, <1>4
  <2>2. /\ u[i] = s[i] /\ u[j] = t[j - Len(s)]
        /\ i \in DOMAIN s /\ j - Len(s) \in DOMAIN t
    BY <1>1, <2>1
  <2>3. u[i] \in RowsIn(s) /\ u[j] \in RowsIn(t)
    BY <2>2 DEF RowsIn
  <2> QED BY <2>3
<1> QED BY <1>1, <1>2, <1>3, <1>4

\* What is cut off a queue of rows, and what is left.
LEMMA RowsCut ==
  ASSUME NEW n \in Nat, NEW s \in Seq(1..n), Rising(s), NEW k \in 0..Len(s)
  PROVE  /\ SubSeq(s, k + 1, Len(s)) \in Seq(1..n) /\ Rising(SubSeq(s, k + 1, Len(s)))
         /\ RowsIn(SubSeq(s, k + 1, Len(s))) \subseteq RowsIn(s)
         /\ RowsIn(s) \subseteq RowsIn(SubSeq(s, 1, k)) \cup RowsIn(SubSeq(s, k + 1, Len(s)))
<1> DEFINE a == SubSeq(s, 1, k)
           b == SubSeq(s, k + 1, Len(s))
<1>1. /\ Len(s) \in Nat /\ DOMAIN s = 1..Len(s)
      /\ a \in Seq(1..n) /\ Len(a) = k /\ DOMAIN a = 1..k /\ \A i \in 1..k : a[i] = s[i]
  OBVIOUS
<1>0. /\ b \in Seq(1..n) /\ Len(b) = Len(s) - k /\ DOMAIN b = 1..(Len(s) - k)
      /\ \A i \in 1..(Len(s) - k) : b[i] = s[i + k]
  <2>1. k + 1 \in 1..(Len(s) + 1) /\ Len(s) \in Nat
    BY <1>1
  <2>2. b \in Seq(1..n)
    BY <2>1
  <2>3. Len(b) = Len(s) - k
    BY <2>1
  <2>4. \A i \in 1..(Len(s) - k) : b[i] = s[i + k]
    BY <2>1
  <2> HIDE DEF b
  <2>5. DOMAIN b = 1..(Len(s) - k)
    BY <2>2, <2>3
  <2> QED BY <2>2, <2>3, <2>4, <2>5
<1> HIDE DEF a, b
<1>2. Rising(b)
  <2> SUFFICES ASSUME NEW i \in DOMAIN b, NEW j \in DOMAIN b, i < j PROVE b[i] < b[j]
    BY DEF Rising
  <2>1. i \in 1..(Len(s) - k) /\ j \in 1..(Len(s) - k)
    BY <1>0
  <2>2. i + k \in DOMAIN s /\ j + k \in DOMAIN s /\ i + k < j + k
    BY <1>1, <2>1
  <2>3. b[i] = s[i + k] /\ b[j] = s[j + k]
    BY <1>0, <2>1
  <2> QED BY <2>2, <2>3 DEF Rising
<1>3. RowsIn(b) \subseteq RowsIn(s)
  <2> SUFFICES ASSUME NEW i \in DOMAIN b PROVE b[i] \in RowsIn(s)
    BY DEF RowsIn
  <2>1. b[i] = s[i + k] /\ i + k \in DOMAIN s
    BY <1>1, <1>0, SMTT(30)
  <2> QED BY <2>1 DEF RowsIn
<1>4. RowsIn(s) \subseteq RowsIn(a) \cup RowsIn(b)
  <2> SUFFICES ASSUME NEW i \in DOMAIN s PROVE s[i] \in RowsIn(a) \cup RowsIn(b)
    BY DEF RowsIn
  <2>1. CASE i <= k
    BY <1>1, <2>1 DEF RowsIn
  <2>2. CASE i > k
    <3>1. s[i] = b[i - k] /\ i - k \in DOMAIN b
      BY <1>1, <1>0, <2>2
    <3> QED BY <3>1 DEF RowsIn
  <2> QED BY <1>1, <2>1, <2>2
<1> QED BY <1>1, <1>0, <1>2, <1>3, <1>4 DEF a, b

LEMMA QueueInvInit == Audit!Init => QueueInv
<1> SUFFICES ASSUME Audit!Init PROVE QueueInv
  OBVIOUS
<1>1. DOMAIN pending = {} /\ pending \in Seq(1..auditRows)
  BY DEF Audit!Init
<1> QED BY <1>1 DEF Audit!Init, QueueInv, Rising, Kept, RowsIn

\* A queue of n rows that may take the place of the present one.
Queueable(q, n) ==
  /\ q \in Seq(1..n) /\ Rising(q) /\ 1..n \subseteq Kept(q, flushes)
  /\ \A f \in flushes : f.kind = "normal" => \A x \in RowsIn(f.batch), y \in RowsIn(q) : x < y

\* The stop goes on, or not; a final flush is under way only in its last step.
StopGoesOn == auditStop' = auditStop \/ (auditStop = "up" /\ auditStop' = "stopping")

LEMMA BatchesStay ==
  ASSUME QueueInv, NEW n \in Nat, n >= auditRows, NEW f \in flushes
  PROVE  f.batch \in Seq(1..n)
<1> DEFINE b == f.batch
<1>1. b \in Seq(1..auditRows) /\ 1..auditRows \subseteq 1..n
  BY DEF QueueInv
<1> HIDE DEF b
<1>2. b \in Seq(1..n)
  BY <1>1, RowsAreIn
<1> QED BY <1>2 DEF b

LEMMA QueueWaits ==
  ASSUME QueueInv, auditRows' \in Nat, auditRows' >= auditRows, Queueable(pending', auditRows'),
         UNCHANGED <<flushes, flushing, table, auditDropped>>, StopGoesOn
  PROVE  QueueInv'
<1>1. \A f \in flushes : f.batch \in Seq(1..auditRows')
  BY BatchesStay
<1>2. 1..auditRows' \subseteq Kept(pending, flushes)'
  BY DEF Queueable, Kept, RowsIn
<1>3. /\ pending' \in Seq(1..auditRows') /\ Rising(pending)'
      /\ \A f \in flushes' : f.kind = "normal" => \A x \in RowsIn(f.batch)', y \in RowsIn(pending)' : x < y
  BY DEF Queueable, Rising, RowsIn
<1>4. auditStop' \in {"up", "stopping", "final", "gone"}
  BY DEF QueueInv, StopGoesOn
<1>5. ASSUME NEW f \in flushes'
      PROVE  /\ f.kind \in {"normal", "final"} /\ f.batch \in Seq(1..auditRows') /\ Rising(f.batch)'
             /\ f.kind = "final" => auditStop' \in {"final", "gone"}
             /\ f.kind = "normal" /\ auditStop' # "gone" => flushing' # "none"
  BY <1>1 DEF QueueInv, StopGoesOn, Rising
<1>6. \A f, g \in flushes' : f.kind = g.kind => f = g
  BY DEF QueueInv
<1> QED BY <1>2, <1>3, <1>4, <1>5, <1>6 DEF QueueInv

LEMMA StartKeeps ==
  ASSUME QueueInv, NEW q, auditRows' \in Nat, auditRows' >= auditRows, Queueable(q, auditRows'),
         q = <<>> => pending = <<>>, NEW kind,
         Audit!Start(q, kind), UNCHANGED <<table, auditDropped>>,
         \/ kind = "normal" /\ flushing = "none" /\ auditStop # "gone" /\ StopGoesOn
         \/ /\ kind = "final" /\ auditStop = "stopping"
            /\ auditStop' = IF q = <<>> THEN "gone" ELSE "final"
  PROVE  QueueInv'
<1>1. \A f \in flushes : f.batch \in Seq(1..auditRows')
  BY BatchesStay
<1>2. CASE q = <<>>
  <2>1. flushing' = "none" /\ pending' = q /\ flushes' = flushes
    BY <1>2 DEF Audit!Start
  <2>2. 1..auditRows' \subseteq Kept(pending, flushes)'
    BY <2>1 DEF Queueable, Kept, RowsIn
  <2>3. /\ pending' \in Seq(1..auditRows') /\ Rising(pending)'
        /\ \A f \in flushes' : f.kind = "normal" => \A x \in RowsIn(f.batch)', y \in RowsIn(pending)' : x < y
    BY <2>1 DEF Queueable, Rising, RowsIn
  <2>4. auditStop' \in {"up", "stopping", "final", "gone"}
    BY <1>2 DEF QueueInv, StopGoesOn
  <2>5. ASSUME NEW f \in flushes'
        PROVE  /\ f.kind \in {"normal", "final"} /\ f.batch \in Seq(1..auditRows') /\ Rising(f.batch)'
               /\ f.kind = "final" => auditStop' \in {"final", "gone"}
               /\ f.kind = "normal" /\ auditStop' # "gone" => flushing' # "none"
    BY <1>1, <1>2, <2>1 DEF QueueInv, StopGoesOn, Rising
  <2>6. \A f, g \in flushes' : f.kind = g.kind => f = g
    BY <2>1 DEF QueueInv
  <2> QED BY <2>2, <2>3, <2>4, <2>5, <2>6 DEF QueueInv
<1>3. CASE q # <<>>
  <2> DEFINE b == [kind |-> kind, batch |-> q]
  <2>1. flushing' = kind /\ pending' = <<>> /\ flushes' = flushes \cup {b}
    BY <1>3 DEF Audit!Start
  <2>2. b.kind = kind /\ b.batch = q
    OBVIOUS
  <2> HIDE DEF b
  <2>3. pending' \in Seq(1..auditRows') /\ DOMAIN pending' = {} /\ RowsIn(pending') = {} /\ Rising(pending')
    BY <2>1 DEF RowsIn, Rising
  <2>4. \A f \in flushes : f.kind # kind
    BY DEF QueueInv
  <2>5. 1..auditRows' \subseteq Kept(pending, flushes)'
    <3> SUFFICES ASSUME NEW x \in 1..auditRows' PROVE x \in Kept(pending, flushes)'
      OBVIOUS
    <3>1. x \in Kept(q, flushes)
      BY DEF Queueable
    <3>2. \A y \in RowsIn(q) : y \in UNION {RowsIn(f.batch)' : f \in flushes'}
      BY <2>1, <2>2 DEF RowsIn
    <3>3. \A y \in UNION {RowsIn(f.batch) : f \in flushes} : y \in UNION {RowsIn(f.batch)' : f \in flushes'}
      BY <2>1 DEF RowsIn
    <3> QED BY <3>1, <3>2, <3>3 DEF Kept
  <2>6. ASSUME NEW f \in flushes'
        PROVE  /\ f.kind \in {"normal", "final"} /\ f.batch \in Seq(1..auditRows') /\ Rising(f.batch)
               /\ f.kind = "final" => auditStop' \in {"final", "gone"}
               /\ f.kind = "normal" /\ auditStop' # "gone" => flushing' # "none"
    <3>1. CASE f = b
      BY <3>1, <1>3, <2>1, <2>2 DEF Queueable, QueueInv
    <3>2. CASE f \in flushes
      BY <3>2, <1>1, <1>3, <2>1 DEF QueueInv, StopGoesOn
    <3> QED BY <3>1, <3>2, <2>1
  <2>7. \A f, g \in flushes' : f.kind = g.kind => f = g
    BY <2>1, <2>2, <2>4 DEF QueueInv
  <2>8. auditStop' \in {"up", "stopping", "final", "gone"}
    BY <1>3 DEF QueueInv, StopGoesOn
  <2>9. \A f \in flushes' : f.kind = "normal" => \A x \in RowsIn(f.batch), y \in RowsIn(pending') : x < y
    BY <2>3
  <2> QED BY <2>3, <2>5, <2>6, <2>7, <2>8, <2>9 DEF QueueInv, Rising, RowsIn
<1> QED BY <1>2, <1>3

LEMMA PendingIsQueueable == QueueInv => Queueable(pending, auditRows)
BY DEF QueueInv, Queueable

\* A request adds the newest row.
LEMMA AppendedIsQueueable ==
  ASSUME QueueInv
  PROVE  Queueable(Append(pending, auditRows + 1), auditRows + 1)
<1> DEFINE n == auditRows + 1
           q == Append(pending, n)
<1>1. /\ auditRows \in Nat /\ n \in Nat /\ n > auditRows /\ pending \in Seq(1..auditRows) /\ Rising(pending)
      /\ Len(pending) \in Nat /\ DOMAIN pending = 1..Len(pending)
      /\ \A i \in DOMAIN pending : pending[i] \in 1..auditRows
  BY DEF QueueInv
<1> HIDE DEF n
<1>2. /\ Len(q) = Len(pending) + 1 /\ DOMAIN q = 1..(Len(pending) + 1)
      /\ \A i \in DOMAIN pending : q[i] = pending[i]
      /\ q[Len(pending) + 1] = n
  BY <1>1
<1> HIDE DEF q
<1>3. q \in [1..(Len(pending) + 1) -> 1..n]
  <2>1. q \in Seq({n} \cup 1..auditRows)
    BY <1>1 DEF q
  <2> QED BY <1>1, <1>2, <2>1 DEF n
<1>4. q \in Seq(1..n)
  BY <1>1, <1>3
<1>5. Rising(q)
  <2> SUFFICES ASSUME NEW i \in DOMAIN q, NEW j \in DOMAIN q, i < j PROVE q[i] < q[j]
    BY DEF Rising
  <2>1. i \in DOMAIN pending /\ (j \in DOMAIN pending \/ j = Len(pending) + 1)
    BY <1>1, <1>2
  <2> QED BY <2>1, <1>1, <1>2 DEF Rising
<1>6. RowsIn(q) = RowsIn(pending) \cup {n}
  <2>1. ASSUME NEW x \in RowsIn(q) PROVE x \in RowsIn(pending) \cup {n}
    <3>1. PICK i \in DOMAIN q : x = q[i]
      BY DEF RowsIn
    <3>2. i \in DOMAIN pending \/ i = Len(pending) + 1
      BY <1>1, <1>2
    <3> QED BY <1>2, <3>1, <3>2 DEF RowsIn
  <2>2. RowsIn(pending) \subseteq RowsIn(q)
    BY <1>1, <1>2 DEF RowsIn
  <2>3. n \in RowsIn(q)
    BY <1>1, <1>2 DEF RowsIn
  <2> QED BY <2>1, <2>2, <2>3
<1>7. 1..n \subseteq Kept(q, flushes)
  BY <1>1, <1>6 DEF QueueInv, Kept, n
<1>8. ASSUME NEW f \in flushes, f.kind = "normal", NEW x \in RowsIn(f.batch), NEW y \in RowsIn(q)
      PROVE  x < y
  <2>1. CASE y \in RowsIn(pending)
    BY <1>8, <2>1 DEF QueueInv
  <2>2. CASE y = n
    <3>1. f.batch \in Seq(1..auditRows)
      BY DEF QueueInv
    <3>2. x \in 1..auditRows
      BY <3>1, RowsAreIn
    <3> QED BY <1>1, <2>2, <3>2
  <2> QED BY <1>6, <2>1, <2>2
<1> QED BY <1>4, <1>5, <1>7, <1>8 DEF Queueable, q, n

\* The end of a flush f, whose rows are in the table, given up or queued again.
LEMMA ClosingKeeps ==
  ASSUME QueueInv, NEW f \in flushes, Audit!Ends(f), auditRows' = auditRows,
         f.kind = "final" => auditStop' = "gone", auditStop' \in {auditStop, "gone"},
         pending' \in Seq(1..auditRows), Rising(pending'),
         RowsIn(pending') \subseteq RowsIn(pending) \cup RowsIn(f.batch),
         f.kind = "final" => pending' = pending,
         RowsIn(pending) \cup RowsIn(f.batch) \cup table \cup auditDropped
           \subseteq RowsIn(pending') \cup table' \cup auditDropped'
  PROVE  QueueInv'
<1>1. flushes' = flushes \ {f} /\ flushing' = "none"
  BY DEF Audit!Ends
<1>2. 1..auditRows' \subseteq Kept(pending, flushes)'
  <2> SUFFICES ASSUME NEW x \in 1..auditRows PROVE x \in Kept(pending, flushes)'
    OBVIOUS
  <2>1. x \in Kept(pending, flushes)
    BY DEF QueueInv
  <2>2. CASE \E g \in flushes : x \in RowsIn(g.batch) /\ g # f
    <3>1. PICK g \in flushes' : x \in RowsIn(g.batch)
      BY <1>1, <2>2
    <3>2. x \in RowsIn(g.batch)'
      BY <3>1 DEF RowsIn
    <3> QED BY <3>2 DEF Kept
  <2>3. CASE x \in RowsIn(pending) \cup RowsIn(f.batch) \cup table \cup auditDropped
    <3>1. x \in RowsIn(pending') \cup table' \cup auditDropped'
      BY <2>3
    <3>2. RowsIn(pending') = RowsIn(pending)'
      BY DEF RowsIn
    <3> QED BY <3>1, <3>2 DEF Kept
  <2>4. x \in RowsIn(pending) \cup table \cup auditDropped \/ \E g \in flushes : x \in RowsIn(g.batch)
    BY <2>1 DEF Kept
  <2> QED BY <2>2, <2>3, <2>4
<1>3. ASSUME NEW g \in flushes', g.kind = "normal", NEW x \in RowsIn(g.batch), NEW y \in RowsIn(pending')
      PROVE  x < y
  <2>1. f.kind = "final" /\ pending' = pending
    BY <1>1, <1>3 DEF QueueInv
  <2> QED BY <1>1, <1>3, <2>1 DEF QueueInv
<1>4. ASSUME NEW g \in flushes'
      PROVE  /\ g.kind \in {"normal", "final"} /\ g.batch \in Seq(1..auditRows) /\ Rising(g.batch)
             /\ g.kind = "final" => auditStop' \in {"final", "gone"}
             /\ g.kind = "normal" /\ auditStop' # "gone" => flushing' # "none"
  BY <1>1 DEF QueueInv
<1>5. /\ auditRows' \in Nat /\ auditStop' \in {"up", "stopping", "final", "gone"}
      /\ \A g, h \in flushes' : g.kind = h.kind => g = h
  BY <1>1 DEF QueueInv
<1>6. /\ Rising(pending)'
      /\ \A g \in flushes' : Rising(g.batch)'
      /\ \A g \in flushes' : g.kind = "normal" => \A x \in RowsIn(g.batch)', y \in RowsIn(pending)' : x < y
  BY <1>3, <1>4 DEF Rising, RowsIn
<1> QED BY <1>2, <1>4, <1>5, <1>6 DEF QueueInv

\* A failed batch is older than the queue, so that it goes before it.
LEMMA RequeuedKeeps ==
  ASSUME QueueInv, NEW f \in flushes, Audit!Failed(f) PROVE QueueInv'
<1> DEFINE n == auditRows
           b == f.batch
           merged == b \o pending
           over == IF Len(merged) > AuditMax THEN Len(merged) - AuditMax ELSE 0
<1>1. /\ n \in Nat /\ b \in Seq(1..n) /\ Rising(b) /\ pending \in Seq(1..n) /\ Rising(pending)
      /\ f.kind = "normal" /\ \A x \in RowsIn(b), y \in RowsIn(pending) : x < y
  BY DEF QueueInv, Audit!Failed
<1>2. /\ Audit!Ends(f) /\ UNCHANGED <<auditRows, auditStop>>
      /\ pending' = SubSeq(merged, over + 1, Len(merged))
      /\ auditDropped' = auditDropped \cup RowsIn(SubSeq(merged, 1, over))
      /\ table \subseteq table'
  BY DEF Audit!Failed, Audit!Requeued, Audit!ToSet, RowsIn
<1> HIDE DEF n, b
<1>3. merged \in Seq(1..n) /\ RowsIn(merged) = RowsIn(b) \cup RowsIn(pending)
  BY <1>1, RowsOfJoin
<1>4. Rising(merged)
  BY <1>1, RisingJoin
<1> HIDE DEF merged
<1>5. over \in 0..Len(merged)
  BY <1>3, AuditAssumption
<1> HIDE DEF over
<1>6. /\ pending' \in Seq(1..n) /\ Rising(pending') /\ RowsIn(pending') \subseteq RowsIn(merged)
      /\ RowsIn(merged) \subseteq RowsIn(SubSeq(merged, 1, over)) \cup RowsIn(pending')
  BY <1>1, <1>2, <1>3, <1>4, <1>5, RowsCut
<1> QED BY <1>1, <1>2, <1>3, <1>6, ClosingKeeps DEF n, b

LEMMA QueueInvStep == ASSUME QueueInv, [Audit!Next]_Audit!vars PROVE QueueInv'
<1>0. auditRows \in Nat
  BY DEF QueueInv
<1>1. CASE Audit!Insert
  <2> DEFINE q == Append(pending, auditRows + 1)
  <2>1. /\ auditStop # "gone" /\ auditRows' = auditRows + 1
        /\ UNCHANGED <<auditStop, table, auditDropped>>
        /\ \/ flushing = "none" /\ Audit!Start(q, "normal")
           \/ pending' = q /\ UNCHANGED <<flushing, flushes>>
    BY <1>1 DEF Audit!Insert
  <2>2. Queueable(q, auditRows')
    BY <2>1, AppendedIsQueueable
  <2>3. q # <<>>
    <3>1. pending \in Seq(1..auditRows) /\ Len(q) = Len(pending) + 1 /\ Len(pending) \in Nat
      BY DEF QueueInv
    <3> QED BY <3>1
  <2> HIDE DEF q
  <2>4. CASE flushing = "none" /\ Audit!Start(q, "normal")
    BY <1>0, <2>1, <2>2, <2>3, <2>4, StartKeeps DEF StopGoesOn
  <2>5. CASE pending' = q /\ UNCHANGED <<flushing, flushes>>
    BY <1>0, <2>1, <2>2, <2>5, QueueWaits DEF StopGoesOn
  <2> QED BY <2>1, <2>4, <2>5
<1>2. ASSUME NEW t, Audit!Flush(pending, t), UNCHANGED <<auditRows, table, auditDropped>>,
             StopGoesOn, auditStop # "gone"
      PROVE  QueueInv'
  <2>1. CASE flushing = "none"
    BY <1>0, <1>2, <2>1, StartKeeps, PendingIsQueueable DEF Audit!Flush
  <2>2. CASE flushing # "none"
    BY <1>0, <1>2, <2>2, QueueWaits, PendingIsQueueable DEF Audit!Flush
  <2> QED BY <2>1, <2>2
<1>3. CASE Audit!TimerFires
  BY <1>2, <1>3 DEF Audit!TimerFires, StopGoesOn
<1>4. CASE Audit!BackoffEnds \/ UNCHANGED Audit!vars
  BY <1>4 DEF Audit!BackoffEnds, Audit!vars, QueueInv, Rising, Kept, RowsIn
<1>5. CASE Audit!EarlyFlush
  BY <1>2, <1>5 DEF Audit!EarlyFlush, StopGoesOn
<1>6. CASE Audit!FinalFlush
  BY <1>0, <1>6, StartKeeps, PendingIsQueueable DEF Audit!FinalFlush
<1>7. ASSUME NEW f \in flushes, Audit!Saved(f) \/ Audit!Failed(f) \/ Audit!FinalFailed(f)
      PROVE  QueueInv'
  <2>1. CASE Audit!Saved(f)
    <3>1. /\ Audit!Ends(f) /\ UNCHANGED <<auditRows, pending, auditDropped>>
          /\ table' = table \cup RowsIn(f.batch)
          /\ auditStop' = IF f.kind = "final" THEN "gone" ELSE auditStop
      BY <2>1 DEF Audit!Saved, Audit!ToSet, RowsIn
    <3> QED BY <3>1, ClosingKeeps DEF QueueInv
  <2>2. CASE Audit!FinalFailed(f)
    <3>1. /\ Audit!Ends(f) /\ UNCHANGED <<auditRows, pending>> /\ table \subseteq table'
          /\ auditDropped' = auditDropped \cup RowsIn(f.batch) /\ auditStop' = "gone"
      BY <2>2 DEF Audit!FinalFailed, Audit!ToSet, RowsIn
    <3> QED BY <3>1, ClosingKeeps DEF QueueInv
  <2> QED BY <1>7, <2>1, <2>2, RequeuedKeeps
<1> QED BY <1>1, <1>3, <1>4, <1>5, <1>6, <1>7 DEF Audit!Next

LEMMA FlushesAreCounted == \A S : Audit!Cardinality(S) = Cardinality(S)
BY DEF Audit!Cardinality, Cardinality

LEMMA QueueInvSuffices == QueueInv => Audit!NoRowLost
<1> SUFFICES ASSUME QueueInv PROVE Audit!NoRowLost
  OBVIOUS
<1>1. \A r \in 1..auditRows :
        r \in Audit!ToSet(pending) \cup Audit!Batches \cup table \cup auditDropped
  <2> SUFFICES ASSUME NEW r \in 1..auditRows
               PROVE  r \in Audit!ToSet(pending) \cup Audit!Batches \cup table \cup auditDropped
    OBVIOUS
  <2>1. r \in RowsIn(pending) \cup table \cup auditDropped \/ \E f \in flushes : r \in RowsIn(f.batch)
    BY DEF QueueInv, Kept
  <2>2. \A s : Audit!ToSet(s) = RowsIn(s)
    BY DEF Audit!ToSet, RowsIn
  <2> QED BY <2>1, <2>2 DEF Audit!Batches
<1>2. \A i, j \in DOMAIN pending : i < j => pending[i] < pending[j]
  BY DEF QueueInv, Rising
<1>3. auditStop = "up" => Audit!Cardinality(flushes) <= 1
  <2> SUFFICES ASSUME auditStop = "up" PROVE Cardinality(flushes) <= 1
    BY FlushesAreCounted
  <2>1. \A f, g \in flushes : f = g
    BY DEF QueueInv
  <2>2. CASE flushes = {}
    BY <2>2, FS_EmptySet
  <2>3. ASSUME NEW f \in flushes PROVE Cardinality(flushes) = 1
    <3>1. flushes = {f}
      BY <2>1
    <3> QED BY <3>1, FS_Singleton
  <2> QED BY <2>2, <2>3
<1> QED BY <1>1, <1>2, <1>3 DEF Audit!NoRowLost

\* The buffer by itself: any number of rows, any limits, any failures.
THEOREM NoAuditRowIsLost == Audit!Spec => []Audit!NoRowLost
<1>1. QueueInv /\ [Audit!Next]_Audit!vars => QueueInv'
  BY QueueInvStep
<1> QED BY QueueInvInit, <1>1, QueueInvSuffices, PTL DEF Audit!Spec

-----------------------------------------------------------------------------
(* LogTail: the logger                                                     *)

LineSeq(q, m) == q \in Seq(1..m)

\* The lines that wait.
Queued == Lines!Range(writeQueue)

\* Lines are numbered as they are logged, and a file has entries.
LogTypes ==
  /\ {logged, logDropped, reported} \subseteq Nat /\ writing \in Int
  /\ LineSeq(writeQueue, logged)
  /\ gone \subseteq 1..logged /\ IsFiniteSet(gone)
  /\ logFiles \in [Lines!Files -> Seq(Int)]

\* What waits is newer than what is written, which is newer than what is on disk.
\* A file is begun when those before it are full.
LinesRise ==
  /\ Rising(writeQueue)
  /\ writing > 0 => /\ writing <= logged
                    /\ \A n \in Queued : writing < n
                    /\ \A p \in Lines!OnDisk : Lines!At(p) < writing
  /\ \A p \in Lines!OnDisk, n \in Queued : Lines!At(p) < n
  /\ \A p \in Lines!OnDisk : Lines!At(p) <= logged
  /\ \A g \in Lines!Files : Len(logFiles[g]) > 0 => \A h \in 0..(g - 1) : Len(logFiles[h]) >= FileMax
  /\ Lines!InLogOrder

\* A line is somewhere, and what was dropped is counted.
LinesKept ==
  /\ Queued \cap gone = {}
  /\ \A n \in 1..logged : \/ n \in Queued \cup {writing} \cup failed \cup gone
                          \/ \E p \in Lines!OnDisk : Lines!At(p) = n
  /\ Cardinality(gone) = logDropped + Lines!Gap(writing) + reported

LogInv == LogTypes /\ LinesRise /\ LinesKept

LEMMA LinesAreCounted == \A S : Lines!Cardinality(S) = Cardinality(S)
BY DEF Lines!Cardinality, Cardinality

LEMMA InUpTo ==
  ASSUME NEW size \in [Lines!Files -> Int]
  PROVE  /\ \A f \in Lines!Files : \A i \in 1..size[f] : <<f, i>> \in Lines!UpTo(size)
         /\ \A p \in Lines!UpTo(size) : p = <<p[1], p[2]>> /\ p[1] \in Lines!Files /\ p[2] \in 1..size[p[1]]
BY DEF Lines!UpTo

\* What is on disk.
DiskHolds ==
  /\ \A f \in Lines!Files : \A i \in 1..Len(logFiles[f]) : <<f, i>> \in Lines!OnDisk
  /\ \A p \in Lines!OnDisk : /\ p = <<p[1], p[2]>> /\ p[1] \in Lines!Files
                             /\ p[2] \in 1..Len(logFiles[p[1]]) /\ Lines!At(p) \in Int

LEMMA OnDiskIs == LogTypes => DiskHolds
<1> SUFFICES ASSUME logFiles \in [Lines!Files -> Seq(Int)] PROVE DiskHolds
  BY DEF LogTypes
<1> DEFINE size == [f \in Lines!Files |-> Len(logFiles[f])]
<1>1. size \in [Lines!Files -> Int]
  OBVIOUS
<1>2. Lines!OnDisk = Lines!UpTo(size)
  BY DEF Lines!OnDisk
<1>3. \A f \in Lines!Files : size[f] = Len(logFiles[f])
  OBVIOUS
<1> HIDE DEF size
<1>4. /\ \A f \in Lines!Files : \A i \in 1..size[f] : <<f, i>> \in Lines!OnDisk
      /\ \A p \in Lines!OnDisk : p = <<p[1], p[2]>> /\ p[1] \in Lines!Files /\ p[2] \in 1..size[p[1]]
  BY <1>1, <1>2, InUpTo
<1>5. \A p \in Lines!OnDisk : Lines!At(p) \in Int
  BY <1>3, <1>4 DEF Lines!At
<1> QED BY <1>3, <1>4, <1>5 DEF DiskHolds

LEMMA AppendIs ==
  ASSUME NEW S, NEW q \in Seq(S), NEW e \in S
  PROVE  /\ Append(q, e) \in Seq(S) /\ Len(q) \in Nat /\ Len(Append(q, e)) = Len(q) + 1
         /\ DOMAIN q = 1..Len(q) /\ DOMAIN Append(q, e) = 1..(Len(q) + 1)
         /\ \A i \in 1..Len(q) : Append(q, e)[i] = q[i]
         /\ Append(q, e)[Len(q) + 1] = e
         /\ \A v : v \in Lines!Range(Append(q, e)) <=> v = e \/ \E i \in DOMAIN q : v = q[i]
<1>1. /\ Append(q, e) \in Seq(S) /\ Len(q) \in Nat /\ Len(Append(q, e)) = Len(q) + 1
      /\ DOMAIN q = 1..Len(q) /\ DOMAIN Append(q, e) = 1..(Len(q) + 1)
      /\ \A i \in 1..Len(q) : Append(q, e)[i] = q[i]
      /\ Append(q, e)[Len(q) + 1] = e
  OBVIOUS
<1> DEFINE r == Append(q, e)
           n == Len(q)
<1> HIDE DEF r, n
<1>2. /\ n \in Nat /\ DOMAIN q = 1..n /\ DOMAIN r = 1..(n + 1) /\ r[n + 1] = e
      /\ \A i \in 1..n : r[i] = q[i]
  BY <1>1 DEF r, n
<1>3. \A v : v \in Lines!Range(r) <=> \E i \in 1..(n + 1) : v = r[i]
  BY <1>2 DEF Lines!Range
<1>4. \A i \in 1..(n + 1) : i = n + 1 \/ i \in 1..n
  BY <1>2
<1>5. n + 1 \in 1..(n + 1) /\ 1..n \subseteq 1..(n + 1)
  BY <1>2
<1>6. \A v : v \in Lines!Range(r) <=> v = e \/ \E i \in DOMAIN q : v = q[i]
  BY <1>2, <1>3, <1>4, <1>5
<1> QED BY <1>1, <1>6 DEF r

\* A queue that loses its first line and gets a newer one.
Shifted(q, r, m) ==
  \E k \in Nat : /\ k > 0 /\ DOMAIN q = 1..k /\ \A i \in 1..k : q[i] \in Nat /\ q[i] < m
                 /\ DOMAIN r = 1..k /\ (\A i \in 1..(k - 1) : r[i] = q[i + 1]) /\ r[k] = m

LEMMA ShiftIs ==
  ASSUME NEW m \in Nat, NEW q, NEW r, Rising(q), Shifted(q, r, m)
  PROVE  /\ Rising(r)
         /\ \A i \in DOMAIN r : r[i] = m \/ \E j \in DOMAIN q : r[i] = q[j]
         /\ m \in Lines!Range(r) /\ q[1] \notin Lines!Range(r)
         /\ \A j \in DOMAIN q : j = 1 \/ q[j] \in Lines!Range(r)
<1> PICK k \in Nat : /\ k > 0 /\ DOMAIN q = 1..k /\ \A i \in 1..k : q[i] \in Nat /\ q[i] < m
                     /\ DOMAIN r = 1..k /\ (\A i \in 1..(k - 1) : r[i] = q[i + 1]) /\ r[k] = m
  BY DEF Shifted
<1>1. /\ \A i \in 1..k : i = k \/ (i \in 1..(k - 1) /\ i + 1 \in 1..k /\ r[i] = q[i + 1])
      /\ \A i \in 1..k : i = 1 \/ (i - 1 \in 1..(k - 1) /\ i - 1 \in 1..k /\ (i - 1) + 1 = i)
      /\ k \in 1..k /\ 1 \in 1..k
  OBVIOUS
<1>2. ASSUME NEW i \in 1..k, NEW j \in 1..k, i < j PROVE r[i] < r[j]
  <2>1. i + 1 \in 1..k /\ r[i] = q[i + 1]
    BY <1>1, <1>2
  <2>2. CASE j = k
    BY <2>1, <2>2
  <2>3. CASE j # k
    <3>1. j + 1 \in 1..k /\ r[j] = q[j + 1] /\ i + 1 < j + 1
      BY <1>1, <1>2, <2>3
    <3> QED BY <2>1, <3>1 DEF Rising
  <2> QED BY <2>2, <2>3
<1>3. \A i \in 1..k : r[i] = m \/ \E j \in 1..k : r[i] = q[j]
  BY <1>1
<1>4. m \in Lines!Range(r)
  BY <1>1 DEF Lines!Range
<1>5. ASSUME NEW i \in 1..k PROVE q[1] # r[i]
  <2>1. CASE i = k
    BY <2>1, <1>1
  <2>2. CASE i # k
    <3>1. i + 1 \in 1..k /\ r[i] = q[i + 1] /\ 1 < i + 1
      BY <2>2, <1>1
    <3>2. q[1] < q[i + 1]
      BY <3>1, <1>1 DEF Rising
    <3> QED BY <3>1, <3>2, <1>1
  <2> QED BY <2>1, <2>2
<1>6. ASSUME NEW j \in 1..k PROVE j = 1 \/ q[j] \in Lines!Range(r)
  <2>1. CASE j # 1
    <3>1. j - 1 \in 1..k /\ q[j] = r[j - 1]
      BY <2>1, <1>1
    <3> QED BY <3>1 DEF Lines!Range
  <2> QED BY <2>1
<1> QED BY <1>2, <1>3, <1>4, <1>5, <1>6 DEF Rising, Lines!Range

\* A queue that gets a newer line.
Grown(q, r, m) ==
  \E k \in Nat : /\ DOMAIN q = 1..k /\ \A i \in 1..k : q[i] \in Nat /\ q[i] < m
                 /\ DOMAIN r = 1..(k + 1) /\ (\A i \in 1..k : r[i] = q[i]) /\ r[k + 1] = m

LEMMA GrowIs ==
  ASSUME NEW m \in Nat, NEW q, NEW r, Rising(q), Grown(q, r, m)
  PROVE  /\ Rising(r)
         /\ \A i \in DOMAIN r : r[i] = m \/ \E j \in DOMAIN q : r[i] = q[j]
         /\ m \in Lines!Range(r) /\ \A j \in DOMAIN q : q[j] \in Lines!Range(r)
<1> PICK k \in Nat : /\ DOMAIN q = 1..k /\ \A i \in 1..k : q[i] \in Nat /\ q[i] < m
                     /\ DOMAIN r = 1..(k + 1) /\ (\A i \in 1..k : r[i] = q[i]) /\ r[k + 1] = m
  BY DEF Grown
<1>1. /\ \A i \in 1..(k + 1) : i = k + 1 \/ (i \in 1..k /\ r[i] = q[i])
      /\ k + 1 \in 1..(k + 1) /\ \A i \in 1..k : i \in 1..(k + 1)
  OBVIOUS
<1>2. ASSUME NEW i \in 1..(k + 1), NEW j \in 1..(k + 1), i < j PROVE r[i] < r[j]
  <2>1. i \in 1..k /\ r[i] = q[i]
    BY <1>1, <1>2
  <2>2. CASE j = k + 1
    BY <2>1, <2>2
  <2>3. CASE j # k + 1
    <3>1. j \in 1..k /\ r[j] = q[j]
      BY <1>1, <2>3
    <3> QED BY <2>1, <3>1, <1>2 DEF Rising
  <2> QED BY <2>2, <2>3
<1>3. \A i \in 1..(k + 1) : r[i] = m \/ \E j \in 1..k : r[i] = q[j]
  BY <1>1
<1>4. m \in Lines!Range(r) /\ \A j \in 1..k : q[j] \in Lines!Range(r)
  BY <1>1 DEF Lines!Range
<1> QED BY <1>2, <1>3, <1>4 DEF Rising

LEMMA RangeIs ==
  ASSUME NEW m \in Nat, NEW q, LineSeq(q, m)
  PROVE  Lines!Range(q) \subseteq 1..m /\ (q = <<>> => Lines!Range(q) = {})
<1>1. \A i \in DOMAIN q : q[i] \in 1..m
  BY DEF LineSeq
<1>2. q = <<>> => DOMAIN q = {}
  OBVIOUS
<1> QED BY <1>1, <1>2 DEF Lines!Range

\* The first line of a queue is its oldest.
LEMMA HeadTailIs ==
  ASSUME NEW m \in Nat, NEW q, LineSeq(q, m), Rising(q), q # <<>>
  PROVE  /\ Head(q) \in Lines!Range(q) /\ Head(q) = q[1] /\ LineSeq(Tail(q), m) /\ Rising(Tail(q))
         /\ Lines!Range(Tail(q)) = Lines!Range(q) \ {Head(q)}
         /\ \A n \in Lines!Range(Tail(q)) : Head(q) < n
<1> PICK k \in Nat : k = Len(q)
  BY DEF LineSeq
<1>1. k > 0 /\ DOMAIN q = 1..k /\ \A i \in 1..k : q[i] \in Nat
  BY DEF LineSeq
<1>2. LineSeq(Tail(q), m) /\ Head(q) = q[1]
  BY DEF LineSeq
<1>3. DOMAIN Tail(q) = 1..(k - 1) /\ \A i \in 1..(k - 1) : Tail(q)[i] = q[i + 1]
  BY DEF LineSeq
<1> DEFINE t == Tail(q)
<1> HIDE DEF t
<1>4. DOMAIN t = 1..(k - 1) /\ \A i \in 1..(k - 1) : i + 1 \in 1..k /\ t[i] = q[i + 1]
  BY <1>1, <1>3 DEF t
<1>5. 1 \in 1..k
  BY <1>1
<1>6. \A i \in 1..k : i = 1 \/ (i - 1 \in 1..(k - 1) /\ q[i] = t[i - 1])
  BY <1>1, <1>4
<1>7. Rising(t)
  <2> SUFFICES ASSUME NEW i \in 1..(k - 1), NEW j \in 1..(k - 1), i < j PROVE t[i] < t[j]
    BY <1>4 DEF Rising
  <2>1. i + 1 < j + 1 /\ i + 1 \in 1..k /\ j + 1 \in 1..k
    BY <1>4
  <2> QED BY <2>1, <1>1, <1>4 DEF Rising
<1>8. \A i \in 1..(k - 1) : q[1] < t[i]
  <2> SUFFICES ASSUME NEW i \in 1..(k - 1) PROVE q[1] < q[i + 1]
    BY <1>4
  <2>1. 1 < i + 1 /\ i + 1 \in 1..k
    BY <1>4
  <2> QED BY <2>1, <1>1, <1>5 DEF Rising
<1>9. \A v : v \in Lines!Range(t) <=> \E i \in 1..(k - 1) : v = t[i]
  BY <1>4 DEF Lines!Range
<1>10. \A v : v \in Lines!Range(q) <=> \E i \in 1..k : v = q[i]
  BY <1>1 DEF Lines!Range
<1>11. q[1] \in Lines!Range(q)
  BY <1>5, <1>10
<1>12. \A n \in Lines!Range(t) : q[1] < n /\ n \in Lines!Range(q)
  BY <1>4, <1>8, <1>9, <1>10
<1>13. \A n \in Lines!Range(q) : n = q[1] \/ n \in Lines!Range(t)
  BY <1>6, <1>9, <1>10
<1>14. q[1] \in Nat
  BY <1>1, <1>5
<1>15. q[1] \notin Lines!Range(t)
  BY <1>12, <1>14
<1>16. Lines!Range(t) = Lines!Range(q) \ {q[1]}
  BY <1>12, <1>13, <1>15
<1> QED BY <1>2, <1>7, <1>11, <1>12, <1>16 DEF t

\* A full queue loses its oldest line, and nothing else.
LEMMA EnqueueIs ==
  ASSUME NEW n \in Nat, NEW q, LineSeq(q, n), Rising(q)
  PROVE  LET m    == n + 1
             r    == Lines!Enqueue(q, m)
             lost == Lines!Range(q \o <<m>>) \ Lines!Range(r)
         IN  /\ LineSeq(r, m) /\ Rising(r) /\ r # <<>>
             /\ Lines!Range(r) = (Lines!Range(q) \ lost) \cup {m}
             /\ lost \subseteq Lines!Range(q) /\ IsFiniteSet(lost)
             /\ Len(q) + 1 - Len(r) = Cardinality(lost)
<1> PICK m \in Nat : m = n + 1
  OBVIOUS
<1> PICK r : r = Lines!Enqueue(q, m)
  OBVIOUS
<1> DEFINE lost == Lines!Range(q \o <<m>>) \ Lines!Range(r)
<1> PICK k \in Nat : k = Len(q)
  BY DEF LineSeq
<1>1. /\ DOMAIN q = 1..k /\ \A i \in 1..k : q[i] \in Nat /\ q[i] < m
  BY DEF LineSeq
<1>5. q \in Seq(1..m) /\ m \in 1..m
  BY DEF LineSeq
<1>2. Lines!Range(q \o <<m>>) = Lines!Range(q) \cup {m} /\ m \notin Lines!Range(q)
  <2>1. q \o <<m>> = Append(q, m)
    BY DEF LineSeq
  <2>2. \A v : v \in Lines!Range(Append(q, m)) <=> v = m \/ \E j \in DOMAIN q : v = q[j]
    BY <1>5, AppendIs
  <2>3. \A v : v \in Lines!Range(q) <=> \E j \in DOMAIN q : v = q[j]
    BY DEF Lines!Range
  <2>4. \A j \in 1..k : q[j] # m
    BY <1>1
  <2> QED BY <2>1, <2>2, <2>3, <2>4, <1>1
<1>3. CASE k >= QueueMax
  <2>1. k > 0 /\ r = Append(Tail(q), m)
    BY <1>3, LinesAssumption DEF Lines!Enqueue
  <2>2. q # <<>>
    BY <1>1, <2>1 DEF LineSeq
  <2>3. /\ r \in Seq(1..m) /\ Len(r) = k /\ DOMAIN r = 1..k
        /\ \A i \in 1..(k - 1) : r[i] = q[i + 1]
        /\ r[k] = m
    <3>1. Tail(q) \in Seq(1..m) /\ Len(Tail(q)) = k - 1
      BY <1>5, <2>1
    <3>2. \A i \in 1..(k - 1) : Tail(q)[i] = q[i + 1]
      BY <1>5, <2>1
    <3>3. /\ r \in Seq(1..m) /\ Len(r) = (k - 1) + 1 /\ DOMAIN r = 1..((k - 1) + 1)
          /\ \A i \in 1..(k - 1) : r[i] = Tail(q)[i]
          /\ r[(k - 1) + 1] = m
      <4>1. m \in 1..m /\ Tail(q) \in Seq(1..m)
        BY <3>1, <1>5
      <4>2. /\ Append(Tail(q), m) \in Seq(1..m) /\ Len(Append(Tail(q), m)) = Len(Tail(q)) + 1
            /\ DOMAIN Append(Tail(q), m) = 1..(Len(Tail(q)) + 1)
            /\ \A i \in 1..Len(Tail(q)) : Append(Tail(q), m)[i] = Tail(q)[i]
            /\ Append(Tail(q), m)[Len(Tail(q)) + 1] = m
        BY <4>1, AppendIs
      <4> QED BY <3>1, <4>2, <2>1
    <3> QED BY <3>2, <3>3
  <2>4. DOMAIN r = 1..k /\ (\A i \in 1..(k - 1) : r[i] = q[i + 1]) /\ r[k] = m
    BY <2>3
  <2>5. /\ Rising(r)
        /\ \A i \in DOMAIN r : r[i] = m \/ \E j \in DOMAIN q : r[i] = q[j]
        /\ m \in Lines!Range(r) /\ q[1] \notin Lines!Range(r)
        /\ \A j \in DOMAIN q : j = 1 \/ q[j] \in Lines!Range(r)
    <3>1. k > 0 /\ DOMAIN q = 1..k /\ \A i \in 1..k : q[i] \in Nat /\ q[i] < m
      BY <1>1, <2>1
    <3>2. Shifted(q, r, m)
      BY <3>1, <2>4 DEF Shifted
    <3> QED BY <3>2, ShiftIs
  <2>6. q[1] \in Lines!Range(q)
    BY <1>1, <2>1 DEF Lines!Range
  <2>7. \A v \in Lines!Range(q) : v = q[1] \/ v \in Lines!Range(r)
    BY <2>5 DEF Lines!Range
  <2>8. \A v \in Lines!Range(r) : v = m \/ v \in Lines!Range(q)
    BY <2>5 DEF Lines!Range
  <2>9. lost = {q[1]}
    BY <1>2, <2>5, <2>6, <2>7
  <2>10. Lines!Range(r) = (Lines!Range(q) \ lost) \cup {m}
    BY <1>2, <2>5, <2>7, <2>8, <2>9
  <2>11. IsFiniteSet(lost) /\ Cardinality(lost) = 1
    BY <2>9, FS_Singleton
  <2>12. Len(q) + 1 - Len(r) = 1
    BY <2>3
  <2>13. LineSeq(r, m) /\ r # <<>>
    BY <2>1, <2>3 DEF LineSeq
  <2> QED BY <2>5, <2>6, <2>9, <2>10, <2>11, <2>12, <2>13
<1>4. CASE ~(k >= QueueMax)
  <2>1. r = Append(q, m)
    BY <1>4 DEF Lines!Enqueue
  <2>2. /\ r \in Seq(1..m) /\ Len(r) = k + 1 /\ DOMAIN r = 1..(k + 1)
        /\ \A i \in 1..k : r[i] = q[i]
        /\ r[k + 1] = m
    <3>1. m \in 1..m /\ q \in Seq(1..m) /\ Len(q) = k
      BY <1>5
    <3>2. /\ Append(q, m) \in Seq(1..m) /\ Len(Append(q, m)) = Len(q) + 1
          /\ DOMAIN Append(q, m) = 1..(Len(q) + 1)
          /\ \A i \in 1..Len(q) : Append(q, m)[i] = q[i]
          /\ Append(q, m)[Len(q) + 1] = m
      BY <3>1, AppendIs
    <3> QED BY <3>1, <3>2, <2>1
  <2>3. DOMAIN r = 1..(k + 1) /\ (\A i \in 1..k : r[i] = q[i]) /\ r[k + 1] = m
    BY <2>2
  <2>4. /\ Rising(r)
        /\ \A i \in DOMAIN r : r[i] = m \/ \E j \in DOMAIN q : r[i] = q[j]
        /\ m \in Lines!Range(r) /\ \A j \in DOMAIN q : q[j] \in Lines!Range(r)
    <3>1. DOMAIN q = 1..k /\ \A i \in 1..k : q[i] \in Nat /\ q[i] < m
      BY <1>1
    <3>2. Grown(q, r, m)
      BY <3>1, <2>3 DEF Grown
    <3> QED BY <3>2, GrowIs
  <2>5. Lines!Range(r) = Lines!Range(q) \cup {m}
    BY <2>4 DEF Lines!Range
  <2>6. lost = {}
    BY <1>2, <2>5
  <2>7. IsFiniteSet(lost) /\ Cardinality(lost) = 0
    BY <2>6, FS_EmptySet
  <2>8. Len(q) + 1 - Len(r) = 0
    BY <2>2
  <2>9. LineSeq(r, m) /\ r # <<>>
    BY <2>2 DEF LineSeq
  <2> QED BY <2>4, <2>5, <2>6, <2>7, <2>8, <2>9
<1> QED BY <1>3, <1>4

LEMMA LogInvInit == Lines!Init => LogInv
<1> SUFFICES ASSUME Lines!Init PROVE LogInv
  OBVIOUS
<1>1. LogTypes
  BY FS_EmptySet DEF Lines!Init, LogTypes, LineSeq
<1>2. Lines!OnDisk = {}
  BY <1>1, OnDiskIs DEF DiskHolds, Lines!Init
<1>3. LinesRise
  <2>1. \A g \in Lines!Files : Len(logFiles[g]) = 0
    BY DEF Lines!Init
  <2>2. Rising(writeQueue) /\ Queued = {} /\ writing = 0
    BY <1>1, RangeIs DEF Lines!Init, Rising, LogTypes, Queued
  <2> QED BY <1>2, <2>1, <2>2 DEF LinesRise, Lines!InLogOrder
<1>4. LinesKept
  BY <1>1, <1>2, FS_EmptySet DEF Lines!Init, LinesKept, Lines!Gap
<1> QED BY <1>1, <1>3, <1>4 DEF LogInv

LEMMA LinesLogKeeps == ASSUME LogInv, Lines!Log PROVE LogInv'
<1> DEFINE q == Lines!Enqueue(writeQueue, logged + 1)
           lost == Lines!Range(writeQueue \o <<logged + 1>>) \ Lines!Range(q)
<1>1. /\ logged' = logged + 1 /\ gone' = gone \cup lost
      /\ logDropped' = logDropped + (Len(writeQueue) + 1 - Len(q))
      /\ IF writing = 0 THEN writing' = Head(q) /\ writeQueue' = Tail(q)
                        ELSE writing' = writing /\ writeQueue' = q
      /\ UNCHANGED <<failed, reported, logFiles>>
  BY DEF Lines!Log
<1>2. /\ LineSeq(q, logged + 1) /\ Rising(q) /\ q # <<>>
      /\ Lines!Range(q) = (Queued \ lost) \cup {logged + 1}
      /\ lost \subseteq Queued /\ IsFiniteSet(lost)
      /\ Len(writeQueue) + 1 - Len(q) = Cardinality(lost)
  <2>1. logged \in Nat /\ LineSeq(writeQueue, logged) /\ Rising(writeQueue)
    BY DEF LogInv, LogTypes, LinesRise
  <2> QED BY <2>1, EnqueueIs DEF Queued
<1> HIDE DEF q, lost
<1>3. /\ {logged, logDropped, reported} \subseteq Nat /\ writing \in Int /\ logged + 1 \in Nat
      /\ Queued \subseteq 1..logged /\ gone \subseteq 1..logged
  BY RangeIs DEF LogInv, LogTypes, Queued
<1>4. Cardinality(lost) \in Nat /\ logDropped' = logDropped + Cardinality(lost)
  BY <1>1, <1>2, FS_CardinalityType
<1>5. IsFiniteSet(gone') /\ Cardinality(gone') = Cardinality(gone) + Cardinality(lost)
  <2>1. IsFiniteSet(gone) /\ Cardinality(gone) \in Nat
    BY FS_CardinalityType DEF LogInv, LogTypes
  <2>2. Cardinality(gone \cap lost) = 0
    <3>1. gone \cap lost = {}
      BY <1>2 DEF LogInv, LinesKept
    <3> QED BY <3>1, FS_EmptySet
  <2>3. IsFiniteSet(gone \cup lost)
        /\ Cardinality(gone \cup lost) = Cardinality(gone) + Cardinality(lost) - Cardinality(gone \cap lost)
    BY <1>2, <2>1, FS_Union
  <2> QED BY <1>1, <1>4, <2>1, <2>2, <2>3
<1>6. /\ LineSeq(writeQueue', logged + 1) /\ Rising(writeQueue')
      /\ Queued' \subseteq Lines!Range(q) /\ Lines!Range(q) \subseteq Queued' \cup {writing'}
      /\ writing # 0 => writing' = writing
      /\ writing = 0 => writing' \in Lines!Range(q) /\ \A n \in Queued' : writing' < n
  <2>1. CASE writing = 0
    <3>1. /\ Head(q) \in Lines!Range(q) /\ LineSeq(Tail(q), logged + 1) /\ Rising(Tail(q))
          /\ Lines!Range(Tail(q)) = Lines!Range(q) \ {Head(q)}
          /\ \A n \in Lines!Range(Tail(q)) : Head(q) < n
      BY <1>2, <1>3, HeadTailIs
    <3>2. writing' = Head(q) /\ writeQueue' = Tail(q) /\ Queued' = Lines!Range(Tail(q))
      BY <1>1, <2>1 DEF Queued
    <3> QED BY <2>1, <3>1, <3>2
  <2>2. CASE writing # 0
    BY <2>2, <1>1, <1>2 DEF Queued
  <2> QED BY <2>1, <2>2
<1>7. Lines!Range(q) \subseteq 1..(logged + 1)
  <2>1. 1..logged \subseteq 1..(logged + 1) /\ logged + 1 \in 1..(logged + 1)
    BY <1>3
  <2> QED BY <2>1, <1>2, <1>3
<1>8. /\ writing' \in Int /\ Lines!Gap(writing') = Lines!Gap(writing) /\ Lines!Gap(writing) \in Nat
  <2>1. CASE writing = 0
    <3>1. writing' \in 1..(logged + 1)
      BY <1>6, <1>7, <2>1
    <3>2. writing' \in Int /\ ~(writing' < 0) /\ ~(writing < 0)
      BY <3>1, <2>1
    <3> QED BY <3>2 DEF Lines!Gap
  <2>2. CASE writing # 0
    BY <2>2, <1>3, <1>6 DEF Lines!Gap
  <2> QED BY <2>1, <2>2
<1>9. LogTypes'
  <2>1. gone' \subseteq 1..logged'
    BY <1>1, <1>2, <1>3
  <2>2. {logged', logDropped', reported'} \subseteq Nat
    BY <1>1, <1>3, <1>4
  <2> QED BY <1>1, <1>5, <1>6, <1>8, <2>1, <2>2 DEF LogInv, LogTypes
<1>10. Lines!OnDisk' = Lines!OnDisk /\ \A p : Lines!At(p)' = Lines!At(p)
  BY <1>1 DEF Lines!OnDisk, Lines!At
<1>11. LinesRise'
  <2>1. \A p \in Lines!OnDisk : Lines!At(p) \in Int /\ Lines!At(p) <= logged
    BY OnDiskIs DEF LogInv, LinesRise, DiskHolds
  <2>2. \A p \in Lines!OnDisk, n \in Lines!Range(q) : Lines!At(p) < n
    <3>1. \A p \in Lines!OnDisk, n \in Queued : Lines!At(p) < n
      BY DEF LogInv, LinesRise
    <3>2. \A p \in Lines!OnDisk : Lines!At(p) < logged + 1
      BY <1>3, <2>1
    <3> QED BY <3>1, <3>2, <1>2
  <2>3. writing' > 0 => /\ writing' <= logged'
                        /\ \A n \in Queued' : writing' < n
                        /\ \A p \in Lines!OnDisk : Lines!At(p) < writing'
    <3>1. CASE writing = 0
      <4>1. writing' \in 1..(logged + 1)
        BY <1>6, <1>7, <3>1
      <4> QED BY <3>1, <4>1, <1>1, <1>6, <2>2
    <3>2. CASE writing # 0
      <4> SUFFICES ASSUME writing > 0 PROVE /\ writing <= logged'
                                            /\ \A n \in Queued' : writing < n
                                            /\ \A p \in Lines!OnDisk : Lines!At(p) < writing
        BY <3>2, <1>6
      <4>1. writing <= logged /\ (\A n \in Queued : writing < n) /\ \A p \in Lines!OnDisk : Lines!At(p) < writing
        BY DEF LogInv, LinesRise
      <4>2. \A n \in Queued' : n \in Queued \/ n = logged + 1
        BY <1>2, <1>6
      <4>3. writing < logged + 1 /\ writing <= logged'
        BY <4>1, <1>1, <1>3
      <4> QED BY <4>1, <4>2, <4>3
    <3> QED BY <3>1, <3>2
  <2>4. \A p \in Lines!OnDisk, n \in Queued' : Lines!At(p) < n
    BY <2>2, <1>6
  <2>5. \A p \in Lines!OnDisk : Lines!At(p) <= logged'
    BY <2>1, <1>1, <1>3
  <2>6. \A g \in Lines!Files : Len(logFiles'[g]) > 0 => \A h \in 0..(g - 1) : Len(logFiles'[h]) >= FileMax
    BY <1>1 DEF LogInv, LinesRise
  <2>7. Lines!InLogOrder'
    BY <1>10 DEF LogInv, LinesRise, Lines!InLogOrder
  <2> QED BY <1>6, <1>10, <2>3, <2>4, <2>5, <2>6, <2>7 DEF LinesRise
<1>12. LinesKept'
  <2>1. Queued' \cap gone' = {}
    <3>1. Lines!Range(q) \cap lost = {}
      BY DEF lost
    <3>2. Lines!Range(q) \cap gone = {}
      <4>1. logged + 1 \notin gone
        BY <1>3
      <4> QED BY <4>1, <1>2 DEF LogInv, LinesKept
    <3> QED BY <3>1, <3>2, <1>1, <1>6
  <2>2. ASSUME NEW n \in 1..(logged + 1)
        PROVE  \/ n \in Queued' \cup {writing'} \cup failed' \cup gone'
               \/ \E p \in Lines!OnDisk : Lines!At(p) = n
    <3>1. CASE n = logged + 1
      BY <3>1, <1>2, <1>6
    <3>2. CASE n \in 1..logged
      <4>1. CASE n \in Queued
        BY <4>1, <1>1, <1>2, <1>6
      <4>2. CASE n = writing
        <5>1. writing # 0
          BY <3>2, <4>2
        <5> QED BY <5>1, <4>2, <1>6
      <4>3. CASE n \in failed \cup gone
        BY <4>3, <1>1
      <4> QED BY <3>2, <4>1, <4>2, <4>3 DEF LogInv, LinesKept
    <3> QED BY <3>1, <3>2, <1>3
  <2>3. Cardinality(gone') = logDropped' + Lines!Gap(writing') + reported'
    <3>1. Cardinality(gone) = logDropped + Lines!Gap(writing) + reported
      BY DEF LogInv, LinesKept
    <3> QED BY <3>1, <1>1, <1>3, <1>4, <1>5, <1>8, SMTT(30)
  <2>4. \A n \in 1..logged' : \/ n \in Queued' \cup {writing'} \cup failed' \cup gone'
                              \/ \E p \in Lines!OnDisk' : Lines!At(p)' = n
    BY <1>1, <1>10, <2>2
  <2> QED BY <2>1, <2>3, <2>4 DEF LinesKept
<1> QED BY <1>9, <1>11, <1>12 DEF LogInv

LEMMA GapIs == ASSUME NEW e \in Int PROVE Lines!Gap(e) \in Nat /\ (e >= 0 => Lines!Gap(e) = 0) /\ (e < 0 => Lines!Gap(e) = -e)
BY DEF Lines!Gap

\* The next line is the oldest that waits, and a report says what it counts.
LEMMA AdvanceIs ==
  ASSUME LogInv, writing # 0, Lines!Advance, reported' = reported + Lines!Gap(writing)
  PROVE  /\ LineSeq(writeQueue', logged) /\ Rising(writeQueue') /\ writing' \in Int
         /\ logDropped' \in Nat /\ reported' \in Nat
         /\ Queued' \subseteq Queued /\ Queued \subseteq Queued' \cup {writing'}
         /\ writing' > 0 => writing' \in Queued /\ \A n \in Queued' : writing' < n
         /\ logDropped' + Lines!Gap(writing') + reported' = logDropped + Lines!Gap(writing) + reported
<1>1. /\ {logged, logDropped, reported} \subseteq Nat /\ writing \in Int
      /\ LineSeq(writeQueue, logged) /\ Rising(writeQueue) /\ Queued \subseteq 1..logged
  BY RangeIs DEF LogInv, LogTypes, LinesRise, Queued
<1>2. Lines!Gap(writing) \in Nat /\ (writing > 0 => Lines!Gap(writing) = 0)
  BY <1>1, GapIs
<1>3. CASE writing > 0 /\ writeQueue # <<>> /\ writing' = Head(writeQueue) /\ writeQueue' = Tail(writeQueue) /\ UNCHANGED logDropped
  <2>1. /\ Head(writeQueue) \in Queued /\ LineSeq(Tail(writeQueue), logged) /\ Rising(Tail(writeQueue))
        /\ Lines!Range(Tail(writeQueue)) = Queued \ {Head(writeQueue)}
        /\ \A n \in Lines!Range(Tail(writeQueue)) : Head(writeQueue) < n
    BY <1>1, <1>3, HeadTailIs DEF Queued
  <2>2. Queued' = Lines!Range(Tail(writeQueue))
    BY <1>3 DEF Queued
  <2>3. writing' \in Int /\ Lines!Gap(writing') = 0
    <3>1. writing' \in 1..logged
      BY <1>1, <1>3, <2>1
    <3>2. writing' \in Int /\ writing' >= 0
      BY <3>1
    <3> QED BY <3>2, GapIs
  <2> QED BY <1>1, <1>2, <1>3, <2>1, <2>2, <2>3
<1>4. CASE writing > 0 /\ writeQueue = <<>> /\ writing' = -logDropped /\ logDropped' = 0 /\ UNCHANGED writeQueue
  <2>1. writing' \in Int /\ ~(writing' > 0) /\ Lines!Gap(writing') = logDropped
    <3>1. -logDropped \in Int /\ ~(-logDropped > 0) /\ -(-logDropped) = logDropped
      BY <1>1
    <3>2. CASE logDropped = 0
      <4>1. writing' = 0
        <5>1. -logDropped = 0
          <6>1. -logDropped = 0 - logDropped
            BY <1>1
          <6>2. 0 - logDropped = 0
            BY <3>2
          <6> QED BY <6>1, <6>2
        <5> QED BY <5>1, <1>4
      <4> QED BY <4>1, <3>2, GapIs
    <3>3. CASE logDropped # 0
      <4>1. -logDropped < 0
        BY <1>1, <3>3
      <4> QED BY <4>1, <1>4, <3>1, GapIs
    <3> QED BY <3>2, <3>3
  <2>2. Queued = {} /\ Queued' = Queued
    BY <1>1, <1>4, RangeIs DEF Queued
  <2> QED BY <1>1, <1>2, <1>4, <2>1, <2>2
<1>5. CASE writing < 0 /\ writing' = 0 /\ UNCHANGED <<writeQueue, logDropped>>
  <2>1. Lines!Gap(writing') = 0 /\ Queued' = Queued
    BY <1>5, GapIs DEF Queued
  <2> QED BY <1>1, <1>2, <1>5, <2>1
<1> QED BY <1>3, <1>4, <1>5 DEF Lines!Advance

\* A line or a report is at the end of the last file that has any.
LEMMA WrittenKeeps == ASSUME LogInv, Lines!Written PROVE LogInv'
<1>1. /\ writing # 0 /\ Lines!Advance /\ reported' = reported + Lines!Gap(writing)
      /\ UNCHANGED <<logged, gone, failed>>
  BY DEF Lines!Written
<1>2. PICK f \in Lines!Files : Lines!Available(f) /\ logFiles' = [logFiles EXCEPT ![f] = Append(@, writing)]
  BY DEF Lines!Written
<1>3. /\ LineSeq(writeQueue', logged) /\ Rising(writeQueue') /\ writing' \in Int
      /\ logDropped' \in Nat /\ reported' \in Nat
      /\ Queued' \subseteq Queued /\ Queued \subseteq Queued' \cup {writing'}
      /\ writing' > 0 => writing' \in Queued /\ \A n \in Queued' : writing' < n
      /\ logDropped' + Lines!Gap(writing') + reported' = logDropped + Lines!Gap(writing) + reported
  BY <1>1, AdvanceIs
<1>4. /\ {logged, logDropped, reported} \subseteq Nat /\ writing \in Int
      /\ Queued \subseteq 1..logged /\ logFiles \in [Lines!Files -> Seq(Int)]
  BY RangeIs DEF LogInv, LogTypes, Queued
<1> PICK k \in Nat : k = Len(logFiles[f]) + 1
  BY <1>4
<1> DEFINE new == <<f, k>>
<1>5. LogTypes'
  <2>1. logFiles' \in [Lines!Files -> Seq(Int)]
    BY <1>2, <1>4
  <2> QED BY <1>1, <1>3, <1>4, <2>1 DEF LogInv, LogTypes
<1>6. /\ \A g \in Lines!Files : g # f => logFiles'[g] = logFiles[g]
      /\ logFiles[f] \in Seq(Int) /\ logFiles'[f] = Append(logFiles[f], writing)
  BY <1>2, <1>4
<1>7. /\ Len(logFiles'[f]) = k /\ k >= 1 /\ logFiles'[f][k] = writing /\ Len(logFiles[f]) = k - 1
      /\ \A i \in 1..Len(logFiles[f]) : logFiles'[f][i] = logFiles[f][i]
  BY <1>4, <1>6
<1>8. /\ \A p \in Lines!OnDisk : p = <<p[1], p[2]>> /\ p[1] \in Lines!Files /\ p[2] \in 1..Len(logFiles[p[1]]) /\ Lines!At(p) \in Int
      /\ \A g \in Lines!Files : \A i \in 1..Len(logFiles[g]) : <<g, i>> \in Lines!OnDisk
  BY OnDiskIs DEF LogInv, DiskHolds
<1>9. /\ \A p \in Lines!OnDisk' : p = <<p[1], p[2]>> /\ p[1] \in Lines!Files /\ p[2] \in 1..Len(logFiles'[p[1]])
      /\ \A g \in Lines!Files : \A i \in 1..Len(logFiles'[g]) : <<g, i>> \in Lines!OnDisk'
  <2>1. DiskHolds'
    <3>1. LogTypes' => DiskHolds'
      BY OnDiskIs, PTL
    <3> QED BY <1>5, <3>1
  <2> QED BY <2>1 DEF DiskHolds
<1>10. \A p \in Lines!OnDisk : p \in Lines!OnDisk' /\ Lines!At(p)' = Lines!At(p)
  <2> SUFFICES ASSUME NEW p \in Lines!OnDisk PROVE p \in Lines!OnDisk' /\ logFiles'[p[1]][p[2]] = logFiles[p[1]][p[2]]
    BY DEF Lines!At
  <2>1. p = <<p[1], p[2]>> /\ p[1] \in Lines!Files /\ p[2] \in 1..Len(logFiles[p[1]])
    BY <1>8
  <2>2. CASE p[1] = f
    <3>1. p[2] \in 1..Len(logFiles'[f])
      BY <1>7, <2>1, <2>2
    <3> QED BY <3>1, <1>7, <1>9, <2>1, <2>2
  <2>3. CASE p[1] # f
    <3>1. logFiles'[p[1]] = logFiles[p[1]]
      BY <1>6, <2>1, <2>3
    <3> QED BY <3>1, <1>9, <2>1
  <2> QED BY <2>2, <2>3
<1>11. new \in Lines!OnDisk' /\ Lines!At(new)' = writing
  BY <1>7, <1>9 DEF Lines!At
<1>12. \A p \in Lines!OnDisk' : p \in Lines!OnDisk \/ p = new
  <2> SUFFICES ASSUME NEW p \in Lines!OnDisk', p # new PROVE p \in Lines!OnDisk
    OBVIOUS
  <2>1. p = <<p[1], p[2]>> /\ p[1] \in Lines!Files /\ p[2] \in 1..Len(logFiles'[p[1]])
    BY <1>9
  <2>2. CASE p[1] = f
    <3>1. p[2] \in 1..Len(logFiles[f])
      BY <1>7, <2>1, <2>2
    <3> QED BY <3>1, <1>8, <2>1, <2>2
  <2>3. CASE p[1] # f
    <3>1. logFiles'[p[1]] = logFiles[p[1]]
      BY <1>6, <2>1, <2>3
    <3> QED BY <3>1, <1>8, <2>1
  <2> QED BY <2>2, <2>3
<1>13. /\ f = Rolls \/ Len(logFiles[f]) < FileMax
       /\ \A g \in 0..(f - 1) : Len(logFiles[g]) >= FileMax
  BY <1>2 DEF Lines!Available
<1>14. Rolls \in Nat /\ FileMax \in Nat /\ FileMax > 0 /\ f \in 0..Rolls /\ Lines!Files = 0..Rolls
  BY LinesAssumption DEF Lines!Files
<1>15. ASSUME NEW g \in Lines!Files, g > f PROVE Len(logFiles[g]) = 0
  <2>1. Len(logFiles[g]) \in Nat /\ f \in 0..(g - 1) /\ f # Rolls
    BY <1>4, <1>14, <1>15
  <2>2. Len(logFiles[g]) > 0 => Len(logFiles[f]) >= FileMax
    BY <2>1 DEF LogInv, LinesRise
  <2>3. Len(logFiles[f]) \in Nat /\ Len(logFiles[f]) < FileMax
    BY <2>1, <1>4, <1>13
  <2> QED BY <2>1, <2>2, <2>3, <1>14
<1>16. \A p \in Lines!OnDisk : Lines!At(p) < writing \/ writing < 0
  BY <1>1, <1>4 DEF LogInv, LinesRise
<1>17. LinesRise'
  <2>1. writing <= logged /\ (writing > 0 => \A n \in Queued : writing < n)
    BY <1>4 DEF LogInv, LinesRise
  <2>2. \A n \in Queued : n \in Nat /\ writing < n
    <3>1. CASE writing > 0
      BY <3>1, <2>1, <1>4
    <3>2. CASE ~(writing > 0)
      <4>1. \A n \in 1..logged : n \in Nat /\ writing < n
        BY <3>2, <1>4
      <4> QED BY <4>1, <1>4
    <3> QED BY <3>1, <3>2
  <2>3. \A p \in Lines!OnDisk, n \in Queued : Lines!At(p) < n
    BY DEF LogInv, LinesRise
  <2>4. \A p \in Lines!OnDisk', n \in Queued : Lines!At(p)' < n
    BY <2>2, <2>3, <1>10, <1>11, <1>12
  <2>5. \A p \in Lines!OnDisk' : Lines!At(p)' <= logged
    <3>1. \A p \in Lines!OnDisk : Lines!At(p) <= logged
      BY DEF LogInv, LinesRise
    <3> QED BY <3>1, <2>1, <1>10, <1>11, <1>12
  <2>6. writing' > 0 => /\ writing' <= logged'
                        /\ \A n \in Queued' : writing' < n
                        /\ \A p \in Lines!OnDisk' : Lines!At(p)' < writing'
    <3> SUFFICES ASSUME writing' > 0 PROVE /\ writing' <= logged'
                                           /\ \A n \in Queued' : writing' < n
                                           /\ \A p \in Lines!OnDisk' : Lines!At(p)' < writing'
      OBVIOUS
    <3>1. writing' \in Queued /\ \A n \in Queued' : writing' < n
      BY <1>3
    <3>2. writing' \in 1..logged
      BY <3>1, <1>4
    <3>3. writing' <= logged'
      BY <3>2, <1>1
    <3> QED BY <3>1, <3>3, <2>4
  <2>7. ASSUME NEW g \in Lines!Files, Len(logFiles'[g]) > 0, NEW h \in 0..(g - 1)
        PROVE  Len(logFiles'[h]) >= FileMax
    <3>1. h \in Lines!Files /\ h < g
      BY <1>14
    <3>2. Len(logFiles[h]) \in Nat /\ Len(logFiles'[h]) >= Len(logFiles[h])
      BY <3>1, <1>4, <1>6, <1>7, SMTT(30)
    <3>3. Len(logFiles[h]) >= FileMax
      <4>1. CASE g = f
        BY <4>1, <1>13
      <4>2. CASE g # f
        <5>1. Len(logFiles[g]) > 0
          BY <4>2, <2>7, <1>6
        <5> QED BY <5>1 DEF LogInv, LinesRise
      <4> QED BY <4>1, <4>2
    <3>4. Len(logFiles'[h]) \in Nat
      BY <3>1, <1>5 DEF LogTypes
    <3> QED BY <3>2, <3>3, <3>4, <1>14
  <2>8. Lines!InLogOrder'
    <3> SUFFICES ASSUME NEW p \in Lines!OnDisk', NEW q \in Lines!OnDisk', Lines!At(p)' > 0, Lines!At(q)' > 0,
                        p[1] < q[1] \/ (p[1] = q[1] /\ p[2] < q[2])
                 PROVE  Lines!At(p)' < Lines!At(q)'
      BY DEF Lines!InLogOrder
    <3>1. CASE p \in Lines!OnDisk /\ q \in Lines!OnDisk
      <4>1. Lines!At(p) < Lines!At(q)
        BY <3>1, <1>10 DEF LogInv, LinesRise, Lines!InLogOrder
      <4> QED BY <3>1, <4>1, <1>10
    <3>2. CASE p \in Lines!OnDisk /\ q = new
      <4>1. writing > 0
        BY <3>2, <1>11
      <4>2. Lines!At(p) < writing
        BY <3>2, <4>1 DEF LogInv, LinesRise
      <4> QED BY <3>2, <4>2, <1>10, <1>11
    <3>3. CASE p = new
      <4>1. q[1] \in Lines!Files /\ q[2] \in 1..Len(logFiles'[q[1]]) /\ p[1] = f /\ p[2] = k
        BY <3>3, <1>9
      <4>2. CASE q[1] > f
        <5>1. Len(logFiles[q[1]]) = 0 /\ logFiles'[q[1]] = logFiles[q[1]]
          BY <4>1, <4>2, <1>6, <1>14, <1>15
        <5> QED BY <4>1, <5>1
      <4>3. CASE q[1] = f
        <5>1. Len(logFiles'[q[1]]) = k
          BY <4>3, <1>7
        <5>2. ~(p[1] < q[1]) /\ ~(p[2] < q[2])
          BY <4>1, <4>3, <5>1, <1>14
        <5> QED BY <5>2
      <4> QED BY <4>1, <4>2, <4>3, <1>14
    <3> QED BY <3>1, <3>2, <3>3, <1>12
  <2> QED BY <1>1, <1>3, <2>4, <2>5, <2>6, <2>7, <2>8 DEF LinesRise
<1>18. LinesKept'
  <2>1. Queued' \cap gone' = {}
    BY <1>1, <1>3 DEF LogInv, LinesKept
  <2>2. ASSUME NEW n \in 1..logged
        PROVE  \/ n \in Queued' \cup {writing'} \cup failed' \cup gone'
               \/ \E p \in Lines!OnDisk' : Lines!At(p)' = n
    <3>1. CASE n = writing
      BY <3>1, <1>11
    <3>2. CASE n \in Queued \cup failed \cup gone
      BY <3>2, <1>1, <1>3
    <3>3. CASE \E p \in Lines!OnDisk : Lines!At(p) = n
      BY <3>3, <1>10
    <3> QED BY <3>1, <3>2, <3>3 DEF LogInv, LinesKept
  <2> QED BY <1>1, <1>3, <2>1, <2>2 DEF LogInv, LinesKept
<1> QED BY <1>5, <1>17, <1>18 DEF LogInv

\* The console has what cannot be written.
LEMMA WriteFailsKeeps == ASSUME LogInv, Lines!WriteFails PROVE LogInv'
<1>1. /\ writing # 0 /\ Lines!Advance /\ reported' = reported + Lines!Gap(writing)
      /\ failed' = failed \cup {writing}
      /\ UNCHANGED <<logged, gone, logFiles>>
  BY DEF Lines!WriteFails
<1>2. /\ LineSeq(writeQueue', logged) /\ Rising(writeQueue') /\ writing' \in Int
      /\ logDropped' \in Nat /\ reported' \in Nat
      /\ Queued' \subseteq Queued /\ Queued \subseteq Queued' \cup {writing'}
      /\ writing' > 0 => writing' \in Queued /\ \A n \in Queued' : writing' < n
      /\ logDropped' + Lines!Gap(writing') + reported' = logDropped + Lines!Gap(writing) + reported
  BY <1>1, AdvanceIs
<1>3. Queued \subseteq 1..logged /\ logged \in Nat
  BY RangeIs DEF LogInv, LogTypes, Queued
<1>4. LogTypes'
  BY <1>1, <1>2 DEF LogInv, LogTypes
<1>5. Lines!OnDisk' = Lines!OnDisk /\ \A p : Lines!At(p)' = Lines!At(p)
  BY <1>1 DEF Lines!OnDisk, Lines!At
<1>6. LinesRise'
  <2>1. \A p \in Lines!OnDisk, n \in Queued : Lines!At(p) < n
    BY DEF LogInv, LinesRise
  <2>2. writing' > 0 => /\ writing' <= logged'
                        /\ \A n \in Queued' : writing' < n
                        /\ \A p \in Lines!OnDisk' : Lines!At(p)' < writing'
    <3>1. writing' > 0 => writing' \in 1..logged
      BY <1>2, <1>3
    <3>2. writing' > 0 => writing' <= logged'
      BY <3>1, <1>1, <1>3
    <3> QED BY <3>2, <1>2, <1>5, <2>1
  <2>3. \A g \in Lines!Files : Len(logFiles'[g]) > 0 => \A h \in 0..(g - 1) : Len(logFiles'[h]) >= FileMax
    BY <1>1 DEF LogInv, LinesRise
  <2>4. Lines!InLogOrder'
    BY <1>5 DEF LogInv, LinesRise, Lines!InLogOrder
  <2>5. \A p \in Lines!OnDisk' : Lines!At(p)' <= logged'
    BY <1>1, <1>5 DEF LogInv, LinesRise
  <2>6. \A p \in Lines!OnDisk', n \in Queued' : Lines!At(p)' < n
    BY <1>2, <1>5, <2>1
  <2> QED BY <1>2, <2>2, <2>3, <2>4, <2>5, <2>6 DEF LinesRise
<1>7. LinesKept'
  <2>1. Queued' \cap gone' = {}
    BY <1>1, <1>2 DEF LogInv, LinesKept
  <2>2. \A n \in 1..logged : \/ n \in Queued' \cup {writing'} \cup failed' \cup gone'
                             \/ \E p \in Lines!OnDisk' : Lines!At(p)' = n
    BY <1>1, <1>2, <1>5 DEF LogInv, LinesKept
  <2> QED BY <1>1, <1>2, <2>1, <2>2 DEF LogInv, LinesKept
<1> QED BY <1>4, <1>6, <1>7 DEF LogInv

LEMMA LinesFlushKeeps == ASSUME LogInv, Lines!Flush PROVE LogInv'
<1>1. /\ writing = 0 /\ writeQueue # <<>> /\ writing' = Head(writeQueue) /\ writeQueue' = Tail(writeQueue)
      /\ UNCHANGED <<logDropped, logged, gone, failed, reported, logFiles>>
  BY DEF Lines!Flush
<1>2. logged \in Nat /\ LineSeq(writeQueue, logged) /\ Rising(writeQueue) /\ Queued \subseteq 1..logged
  BY RangeIs DEF LogInv, LogTypes, LinesRise, Queued
<1>3. /\ Head(writeQueue) \in Queued /\ LineSeq(Tail(writeQueue), logged) /\ Rising(Tail(writeQueue))
      /\ Lines!Range(Tail(writeQueue)) = Queued \ {Head(writeQueue)}
      /\ \A n \in Lines!Range(Tail(writeQueue)) : Head(writeQueue) < n
  BY <1>1, <1>2, HeadTailIs DEF Queued
<1>4. /\ Queued' = Queued \ {writing'} /\ writing' \in Queued /\ writing' \in 1..logged
      /\ \A n \in Queued' : writing' < n
  BY <1>1, <1>2, <1>3 DEF Queued
<1>5. writing' \in Int /\ Lines!Gap(writing') = 0 /\ Lines!Gap(writing) = 0 /\ writing' <= logged'
  <2>1. writing' \in Int /\ writing' >= 0 /\ writing' <= logged /\ writing \in Int /\ writing >= 0
    BY <1>1, <1>2, <1>4
  <2> QED BY <2>1, <1>1, GapIs
<1>6. LogTypes'
  BY <1>1, <1>3, <1>5 DEF LogInv, LogTypes
<1>7. Lines!OnDisk' = Lines!OnDisk /\ \A p : Lines!At(p)' = Lines!At(p)
  BY <1>1 DEF Lines!OnDisk, Lines!At
<1>8. LinesRise'
  <2>1. \A p \in Lines!OnDisk, n \in Queued : Lines!At(p) < n
    BY DEF LogInv, LinesRise
  <2>2. \A g \in Lines!Files : Len(logFiles'[g]) > 0 => \A h \in 0..(g - 1) : Len(logFiles'[h]) >= FileMax
    BY <1>1 DEF LogInv, LinesRise
  <2>3. Lines!InLogOrder'
    BY <1>7 DEF LogInv, LinesRise, Lines!InLogOrder
  <2>4. \A p \in Lines!OnDisk' : Lines!At(p)' <= logged'
    BY <1>1, <1>7 DEF LogInv, LinesRise
  <2>5. Rising(writeQueue')
    BY <1>1, <1>3
  <2> QED BY <1>4, <1>5, <1>7, <2>1, <2>2, <2>3, <2>4, <2>5 DEF LinesRise
<1>9. LinesKept'
  <2>1. Queued' \cap gone' = {}
    BY <1>1, <1>4 DEF LogInv, LinesKept
  <2>2. \A n \in 1..logged : \/ n \in Queued' \cup {writing'} \cup failed' \cup gone'
                             \/ \E p \in Lines!OnDisk' : Lines!At(p)' = n
    <3> SUFFICES ASSUME NEW n \in 1..logged
                 PROVE  \/ n \in Queued' \cup {writing'} \cup failed' \cup gone'
                        \/ \E p \in Lines!OnDisk' : Lines!At(p)' = n
      OBVIOUS
    <3>1. n # writing
      BY <1>1
    <3> QED BY <3>1, <1>1, <1>4, <1>7 DEF LogInv, LinesKept
  <2> QED BY <1>1, <1>5, <2>1, <2>2 DEF LogInv, LinesKept
<1> QED BY <1>6, <1>8, <1>9 DEF LogInv

\* The logger does not see who watches it.
LEMMA LogStays == ASSUME LogInv, UNCHANGED Lines!logger, UNCHANGED logFiles PROVE LogInv'
<1>1. UNCHANGED <<writeQueue, writing, logDropped, logged, gone, failed, reported, logFiles>>
  BY DEF Lines!logger
<1>2. Lines!OnDisk' = Lines!OnDisk /\ \A p : Lines!At(p)' = Lines!At(p)
  BY <1>1 DEF Lines!OnDisk, Lines!At
<1>3. Queued' = Queued
  BY <1>1 DEF Queued
<1>4. LogTypes'
  BY <1>1 DEF LogInv, LogTypes
<1>5. LinesRise'
  BY <1>1, <1>2, <1>3 DEF LogInv, LinesRise, Lines!InLogOrder
<1>6. LinesKept'
  BY <1>1, <1>2, <1>3 DEF LogInv, LinesKept
<1> QED BY <1>4, <1>5, <1>6 DEF LogInv

\* Every line is on disk once, or accounted for.
LEMMA LogInvSuffices == LogInv => Lines!LinesAccounted /\ Lines!InLogOrder
<1> SUFFICES ASSUME LogInv PROVE Lines!LinesAccounted
  BY DEF LogInv, LinesRise
<1>1. ASSUME NEW n \in 1..logged, NEW p \in Lines!OnDisk, Lines!At(p) = n
      PROVE  Lines!Cardinality({q \in Lines!OnDisk : Lines!At(q) = n}) = 1
  <2>1. ASSUME NEW q \in Lines!OnDisk, Lines!At(q) = n PROVE q = p
    <3>1. n \in Int /\ n > 0 /\ ~(n < n)
      BY DEF LogInv, LogTypes
    <3>2. /\ ~(p[1] < q[1]) /\ ~(q[1] < p[1])
          /\ p[1] = q[1] => ~(p[2] < q[2]) /\ ~(q[2] < p[2])
      BY <3>1, <1>1, <2>1 DEF LogInv, LinesRise, Lines!InLogOrder
    <3>3. /\ p = <<p[1], p[2]>> /\ p[1] \in Lines!Files /\ p[2] \in 1..Len(logFiles[p[1]])
          /\ q = <<q[1], q[2]>> /\ q[1] \in Lines!Files /\ q[2] \in 1..Len(logFiles[q[1]])
      BY OnDiskIs DEF LogInv, DiskHolds
    <3>4. p[1] \in Int /\ q[1] \in Int /\ p[2] \in Int /\ q[2] \in Int
      BY <3>3 DEF Lines!Files
    <3> QED BY <3>2, <3>3, <3>4
  <2>2. {q \in Lines!OnDisk : Lines!At(q) = n} = {p}
    BY <1>1, <2>1
  <2> QED BY <2>2, LinesAreCounted, FS_Singleton
<1>2. Lines!Cardinality(gone) = logDropped + Lines!Gap(writing) + reported
  BY LinesAreCounted DEF LogInv, LinesKept
<1>3. \A n \in 1..logged :
        \/ n \in Lines!Range(writeQueue) \cup {writing} \cup failed \cup gone
        \/ Lines!Cardinality({p \in Lines!OnDisk : Lines!At(p) = n}) = 1
  BY <1>1 DEF LogInv, LinesKept, Queued
<1> QED BY <1>2, <1>3 DEF Lines!LinesAccounted

-----------------------------------------------------------------------------
(* LogTail: what a stream is owed                                          *)

Spots == Lines!Files \X Int

\* A list of places without repetition.
Distinct(q) == /\ q \in Seq(Spots) /\ IsFiniteSet(Lines!Range(q))
               /\ Cardinality(Lines!Range(q)) = Len(q)

\* A stream is owed the places o: it was sent s, the tick has r for it, and the other
\* m are counted.
Sound(o, s, m, r) ==
  /\ IsFiniteSet(o) /\ Distinct(s) /\ Distinct(r) /\ m \in Nat
  /\ Lines!Range(s) \subseteq o /\ Lines!Range(r) \subseteq o
  /\ Lines!Range(s) \cap Lines!Range(r) = {}
  /\ Cardinality(o) = Len(s) + m + Len(r)

LEMMA ConcatIs ==
  ASSUME NEW S, NEW a \in Seq(S), NEW b \in Seq(S)
  PROVE  /\ a \o b \in Seq(S) /\ Len(a \o b) = Len(a) + Len(b) /\ Len(a) \in Nat /\ Len(b) \in Nat
         /\ Lines!Range(a \o b) = Lines!Range(a) \cup Lines!Range(b)
<1> PICK m \in Nat, n \in Nat : m = Len(a) /\ n = Len(b)
  OBVIOUS
<1> PICK c : c = a \o b
  OBVIOUS
<1>1. /\ c \in Seq(S) /\ Len(c) = m + n
      /\ DOMAIN a = 1..m /\ DOMAIN b = 1..n /\ DOMAIN c = 1..(m + n)
  OBVIOUS
<1>2. /\ \A i \in 1..m : c[i] = a[i]
      /\ \A i \in 1..n : c[m + i] = b[i]
  OBVIOUS
<1>3. DOMAIN a = 1..m /\ DOMAIN b = 1..n /\ DOMAIN c = 1..(m + n)
  BY <1>1
<1>4. /\ \A i \in 1..m : i \in 1..(m + n)
      /\ \A i \in 1..n : m + i \in 1..(m + n)
      /\ \A i \in 1..(m + n) : i \in 1..m \/ (i - m \in 1..n /\ m + (i - m) = i)
  OBVIOUS
<1>5. \A i \in 1..(m + n) : c[i] \in Lines!Range(a) \cup Lines!Range(b)
  <2> SUFFICES ASSUME NEW i \in 1..(m + n) PROVE c[i] \in Lines!Range(a) \cup Lines!Range(b)
    OBVIOUS
  <2>1. CASE i \in 1..m
    BY <2>1, <1>2, <1>3 DEF Lines!Range
  <2>2. CASE i - m \in 1..n /\ m + (i - m) = i
    <3>1. c[i] = b[i - m]
      BY <2>2, <1>2
    <3> QED BY <3>1, <2>2, <1>3 DEF Lines!Range
  <2> QED BY <2>1, <2>2, <1>4
<1>6. \A i \in 1..m : a[i] \in Lines!Range(c)
  BY <1>2, <1>3, <1>4 DEF Lines!Range
<1>7. \A i \in 1..n : b[i] \in Lines!Range(c)
  BY <1>2, <1>3, <1>4 DEF Lines!Range
<1>8. Lines!Range(c) = Lines!Range(a) \cup Lines!Range(b)
  <2>1. \A v : v \in Lines!Range(a) <=> \E i \in 1..m : v = a[i]
    BY <1>3 DEF Lines!Range
  <2>2. \A v : v \in Lines!Range(b) <=> \E i \in 1..n : v = b[i]
    BY <1>3 DEF Lines!Range
  <2>3. \A v : v \in Lines!Range(c) <=> \E i \in 1..(m + n) : v = c[i]
    BY <1>3 DEF Lines!Range
  <2>4. \A v \in Lines!Range(c) : v \in Lines!Range(a) \cup Lines!Range(b)
    BY <2>3, <1>5
  <2>5. \A v \in Lines!Range(a) \cup Lines!Range(b) : v \in Lines!Range(c)
    BY <2>1, <2>2, <1>6, <1>7
  <2> QED BY <2>4, <2>5
<1> QED BY <1>1, <1>8

\* A list has no more places than entries.
LEMMA RangeIsSmall ==
  ASSUME NEW q \in Seq(Spots)
  PROVE  /\ IsFiniteSet(Lines!Range(q)) /\ Cardinality(Lines!Range(q)) \in Nat
         /\ Cardinality(Lines!Range(q)) <= Len(q) /\ Len(q) \in Nat
<1> PICK n \in Nat : n = Len(q)
  OBVIOUS
<1>1. DOMAIN q = 1..n /\ q \in [1..n -> Lines!Range(q)]
  BY DEF Lines!Range
<1>2. q \in Surjection(1..n, Lines!Range(q))
  BY <1>1 DEF Surjection, Lines!Range
<1>3. IsFiniteSet(1..n) /\ Cardinality(1..n) = n
  <2>1. 1 \in Int /\ n \in Int /\ (IF 1 > n THEN 0 ELSE n - 1 + 1) = n
    OBVIOUS
  <2> QED BY <2>1, FS_Interval
<1>4. IsFiniteSet(Lines!Range(q)) /\ Cardinality(Lines!Range(q)) <= Cardinality(1..n)
  BY <1>2, <1>3, FS_Surjection
<1> QED BY <1>3, <1>4, FS_CardinalityType

LEMMA NoneDistinct == Distinct(<<>>) /\ Len(<<>>) = 0 /\ Lines!Range(<<>>) = {}
BY FS_EmptySet DEF Distinct, Lines!Range

LEMMA DistinctConcat ==
  ASSUME NEW a, NEW b, Distinct(a), Distinct(b), Lines!Range(a) \cap Lines!Range(b) = {}
  PROVE  Distinct(a \o b)
<1>1. /\ a \o b \in Seq(Spots) /\ Len(a \o b) = Len(a) + Len(b) /\ Len(a) \in Nat /\ Len(b) \in Nat
      /\ Lines!Range(a \o b) = Lines!Range(a) \cup Lines!Range(b)
  BY ConcatIs DEF Distinct
<1>2. Cardinality({}) = 0
  BY FS_EmptySet
<1> PICK A, B : A = Lines!Range(a) /\ B = Lines!Range(b)
  OBVIOUS
<1>3. /\ IsFiniteSet(A \cup B)
      /\ Cardinality(A \cup B) = Cardinality(A) + Cardinality(B) - Cardinality(A \cap B)
  <2>1. IsFiniteSet(A) /\ IsFiniteSet(B)
    BY DEF Distinct
  <2> QED BY <2>1, FS_Union
<1>4. Cardinality(A \cup B) = Len(a) + Len(b)
  <2>1. A \cap B = {} /\ Cardinality(A) = Len(a) /\ Cardinality(B) = Len(b)
    BY DEF Distinct
  <2>2. Cardinality(A \cap B) = 0
    BY <2>1, <1>2
  <2>3. Len(a) \in Nat /\ Len(b) \in Nat
    BY <1>1
  <2> QED BY <2>1, <2>2, <2>3, <1>3
<1> QED BY <1>1, <1>3, <1>4 DEF Distinct

\* The beginning of such a list is one.
LEMMA DistinctPrefix ==
  ASSUME NEW q, Distinct(q), NEW n \in Nat, n <= Len(q)
  PROVE  Distinct(SubSeq(q, 1, n)) /\ Len(SubSeq(q, 1, n)) = n /\ Lines!Range(SubSeq(q, 1, n)) \subseteq Lines!Range(q)
<1> PICK k \in Nat : k = Len(q)
  BY DEF Distinct
<1> DEFINE a == SubSeq(q, 1, n)
           b == SubSeq(q, n + 1, k)
<1>1. /\ q \in Seq(Spots) /\ a \in Seq(Spots) /\ b \in Seq(Spots) /\ Len(a) = n /\ Len(b) = k - n
      /\ \A i \in 1..n : a[i] = q[i]
      /\ \A i \in 1..(k - n) : b[i] = q[n + i]
  <2>1. q \in Seq(Spots)
    BY DEF Distinct
  <2>2. a \in Seq(Spots) /\ Len(a) = n /\ \A i \in 1..n : a[i] = q[i]
    BY <2>1
  <2>3. b \in Seq(Spots) /\ Len(b) = k - n /\ \A i \in 1..(k - n) : b[i] = q[n + i]
    BY <2>1
  <2> QED BY <2>1, <2>2, <2>3
<1>0. DOMAIN q = 1..k /\ DOMAIN a = 1..n /\ DOMAIN b = 1..(k - n)
  BY <1>1
<1>a. /\ \A i \in 1..n : a[i] = q[i]
      /\ \A i \in 1..(k - n) : b[i] = q[n + i]
  BY <1>1
<1> HIDE DEF a, b
<1>2. Lines!Range(q) = Lines!Range(a) \cup Lines!Range(b)
  <2>1. \A v : v \in Lines!Range(a) <=> \E i \in 1..n : v = a[i]
    BY <1>0 DEF Lines!Range
  <2>2. \A v : v \in Lines!Range(b) <=> \E i \in 1..(k - n) : v = b[i]
    BY <1>0 DEF Lines!Range
  <2>3. \A v : v \in Lines!Range(q) <=> \E i \in 1..k : v = q[i]
    BY <1>0 DEF Lines!Range
  <2>4. /\ \A i \in 1..n : i \in 1..k
        /\ \A i \in 1..(k - n) : n + i \in 1..k
        /\ \A i \in 1..k : i \in 1..n \/ (i - n \in 1..(k - n) /\ n + (i - n) = i)
    OBVIOUS
  <2>5. \A i \in 1..k : q[i] \in Lines!Range(a) \cup Lines!Range(b)
    <3> SUFFICES ASSUME NEW i \in 1..k PROVE q[i] \in Lines!Range(a) \cup Lines!Range(b)
      OBVIOUS
    <3>1. CASE i \in 1..n
      BY <3>1, <1>a, <2>1
    <3>2. CASE i - n \in 1..(k - n) /\ n + (i - n) = i
      <4>1. q[i] = b[i - n]
        BY <3>2, <1>a
      <4> QED BY <3>2, <4>1, <2>2
    <3> QED BY <3>1, <3>2, <2>4
  <2>6. \A i \in 1..n : a[i] \in Lines!Range(q)
    BY <1>a, <2>3, <2>4
  <2>7. \A i \in 1..(k - n) : b[i] \in Lines!Range(q)
    BY <1>a, <2>3, <2>4
  <2>8. \A v \in Lines!Range(a) \cup Lines!Range(b) : v \in Lines!Range(q)
    BY <2>1, <2>2, <2>6, <2>7
  <2>9. \A v \in Lines!Range(q) : v \in Lines!Range(a) \cup Lines!Range(b)
    BY <2>3, <2>5
  <2> QED BY <2>8, <2>9
<1>3. /\ IsFiniteSet(Lines!Range(a)) /\ Cardinality(Lines!Range(a)) \in Nat /\ Cardinality(Lines!Range(a)) <= n
      /\ IsFiniteSet(Lines!Range(b)) /\ Cardinality(Lines!Range(b)) \in Nat /\ Cardinality(Lines!Range(b)) <= k - n
  BY <1>1, RangeIsSmall
<1>4. /\ IsFiniteSet(Lines!Range(a) \cap Lines!Range(b)) /\ Cardinality(Lines!Range(a) \cap Lines!Range(b)) \in Nat
  BY <1>3, FS_Intersection, FS_CardinalityType
<1>5. Cardinality(Lines!Range(a) \cup Lines!Range(b)) =
        Cardinality(Lines!Range(a)) + Cardinality(Lines!Range(b)) - Cardinality(Lines!Range(a) \cap Lines!Range(b))
  BY <1>3, FS_Union
<1>6. Cardinality(Lines!Range(q)) = k
  BY DEF Distinct
<1>7. Cardinality(Lines!Range(a)) = n
  BY <1>2, <1>3, <1>4, <1>5, <1>6
<1> QED BY <1>1, <1>2, <1>3, <1>7 DEF Distinct, a

LEMMA NothingOwed == Sound({}, <<>>, 0, <<>>)
BY NoneDistinct, FS_EmptySet DEF Sound

\* The poller reads on.
LEMMA SoundGrows ==
  ASSUME NEW o, NEW s, NEW m, NEW r, NEW d, Sound(o, s, m, r), Distinct(d), Lines!Range(d) \cap o = {}
  PROVE  Sound(o \cup Lines!Range(d), s, m, r \o d)
<1>1. Distinct(r) /\ Lines!Range(r) \cap Lines!Range(d) = {}
  BY DEF Sound
<1>2. Distinct(r \o d)
  BY <1>1, DistinctConcat
<1>3. /\ Lines!Range(r \o d) = Lines!Range(r) \cup Lines!Range(d)
      /\ Len(r \o d) = Len(r) + Len(d) /\ Len(r) \in Nat /\ Len(d) \in Nat
  BY <1>1, ConcatIs DEF Distinct
<1> PICK D : D = Lines!Range(d)
  OBVIOUS
<1>4. IsFiniteSet(o \cup D) /\ Cardinality(o \cup D) = Cardinality(o) + Cardinality(D) - Cardinality(o \cap D)
  <2>1. IsFiniteSet(o) /\ IsFiniteSet(D)
    BY DEF Sound, Distinct
  <2> QED BY <2>1, FS_Union
<1>5. Cardinality(o \cap D) = 0
  BY FS_EmptySet
<1>6. Cardinality(D) = Len(d) /\ Cardinality(o) = Len(s) + m + Len(r) /\ m \in Nat
  BY DEF Sound, Distinct
<1>7. Len(s) \in Nat
  BY DEF Sound, Distinct
<1>8. Cardinality(o \cup D) = Len(s) + m + Len(r \o d)
  BY <1>3, <1>4, <1>5, <1>6, <1>7
<1> QED BY <1>2, <1>3, <1>4, <1>8 DEF Sound

\* A tick ends: some rows are sent, the others counted.
LEMMA SoundSent ==
  ASSUME NEW o, NEW s, NEW m, NEW r, NEW n \in Nat, Sound(o, s, m, r), n <= Len(r)
  PROVE  Sound(o, s \o SubSeq(r, 1, n), m + Len(r) - n, <<>>)
<1>0. PICK a : a = SubSeq(r, 1, n)
  OBVIOUS
<1>1. Distinct(a) /\ Len(a) = n /\ Lines!Range(a) \subseteq Lines!Range(r)
  BY <1>0, DistinctPrefix DEF Sound
<1>2. Distinct(s) /\ Lines!Range(s) \cap Lines!Range(a) = {}
  BY <1>1 DEF Sound
<1>3. Distinct(s \o a)
  BY <1>1, <1>2, DistinctConcat
<1>4. /\ Lines!Range(s \o a) = Lines!Range(s) \cup Lines!Range(a)
      /\ Len(s \o a) = Len(s) + n /\ Len(s) \in Nat
  <2>1. s \in Seq(Spots) /\ a \in Seq(Spots)
    BY <1>1, <1>2 DEF Distinct
  <2>2. /\ Lines!Range(s \o a) = Lines!Range(s) \cup Lines!Range(a)
        /\ Len(s \o a) = Len(s) + Len(a) /\ Len(s) \in Nat
    BY <2>1, ConcatIs
  <2> QED BY <2>2, <1>1
<1>5. Cardinality(o) = Len(s) + m + Len(r) /\ m \in Nat /\ Len(r) \in Nat
  BY DEF Sound, Distinct
<1>6. m + Len(r) - n \in Nat /\ Cardinality(o) = Len(s \o a) + (m + Len(r) - n) + 0
  <2>1. PICK i \in Nat, j \in Nat, k \in Nat : i = Len(s) /\ j = Len(r) /\ k = Len(s \o a)
    BY <1>4, <1>5
  <2>2. k = i + n /\ Cardinality(o) = i + m + j /\ n <= j /\ m \in Nat
    BY <2>1, <1>4, <1>5
  <2>3. m + j - n \in Nat /\ Cardinality(o) = k + (m + j - n) + 0
    BY <2>2
  <2> QED BY <2>1, <2>3
<1>7. Lines!Range(s \o a) \subseteq o
  BY <1>1, <1>4 DEF Sound
<1> QED BY <1>0, <1>3, <1>6, <1>7, NoneDistinct DEF Sound

\* A tick throws: its rows are passed over.
LEMMA SoundDrops ==
  ASSUME NEW o, NEW s, NEW m, NEW r, Sound(o, s, m, r)
  PROVE  Sound(o \ Lines!Range(r), s, m, <<>>)
<1> PICK R : R = Lines!Range(r)
  OBVIOUS
<1>1. IsFiniteSet(o \ R) /\ Cardinality(o \ R) = Cardinality(o) - Cardinality(o \cap R)
  <2>1. IsFiniteSet(o)
    BY DEF Sound
  <2> QED BY <2>1, FS_Difference
<1>2. o \cap R = R
  BY DEF Sound
<1>3. Cardinality(R) = Len(r) /\ Cardinality(o) = Len(s) + m + Len(r) /\ m \in Nat /\ Len(r) \in Nat /\ Len(s) \in Nat
  BY DEF Sound, Distinct
<1>4. Cardinality(o \ R) = Len(s) + m + 0
  <2>1. Cardinality(o \cap R) = Len(r)
    BY <1>2, <1>3
  <2> QED BY <2>1, <1>1, <1>3
<1>5. Lines!Range(s) \subseteq o \ R
  BY DEF Sound
<1> QED BY <1>1, <1>4, <1>5, NoneDistinct DEF Sound

-----------------------------------------------------------------------------
(* LogTail: what was read                                                  *)

\* The entries of a file after the first a, up to the b-th.
Between(f, a, b) == {f} \X ((a + 1)..b)

\* A file is read on, or for the first time.
ReadOn(off, new, f, a, b) ==
  /\ off \in [Lines!Files -> Int] /\ f \in Lines!Files /\ a \in Nat /\ b \in Int /\ a <= b
  /\ off[f] = a \/ (off[f] = -1 /\ a = 0)
  /\ new = [off EXCEPT ![f] = b]

LEMMA ReadMoves ==
  ASSUME NEW off, NEW new, NEW f, NEW a, NEW b, ReadOn(off, new, f, a, b)
  PROVE  /\ Lines!UpTo(new) = Lines!UpTo(off) \cup Between(f, a, b)
         /\ Lines!UpTo(off) \cap Between(f, a, b) = {}
         /\ new \in [Lines!Files -> Int] /\ new[f] = b /\ \A g \in Lines!Files : g # f => new[g] = off[g]
<1> /\ off \in [Lines!Files -> Int] /\ f \in Lines!Files /\ a \in Nat /\ b \in Int /\ a <= b
    /\ off[f] = a \/ (off[f] = -1 /\ a = 0)
  BY DEF ReadOn
<1>1. new \in [Lines!Files -> Int] /\ new[f] = b /\ \A g \in Lines!Files : g # f => new[g] = off[g]
  BY DEF ReadOn
<1>2. /\ \A g \in Lines!Files : \A i \in 1..off[g] : <<g, i>> \in Lines!UpTo(off)
      /\ \A p \in Lines!UpTo(off) : p = <<p[1], p[2]>> /\ p[1] \in Lines!Files /\ p[2] \in 1..off[p[1]]
  BY InUpTo
<1>3. /\ \A g \in Lines!Files : \A i \in 1..new[g] : <<g, i>> \in Lines!UpTo(new)
      /\ \A p \in Lines!UpTo(new) : p = <<p[1], p[2]>> /\ p[1] \in Lines!Files /\ p[2] \in 1..new[p[1]]
  BY <1>1, InUpTo
<1>4. \A p : p \in Between(f, a, b) <=> p = <<p[1], p[2]>> /\ p[1] = f /\ p[2] \in (a + 1)..b
  BY DEF Between
<1>5. ASSUME NEW p \in Lines!UpTo(new) PROVE p \in Lines!UpTo(off) \cup Between(f, a, b)
  <2>1. p = <<p[1], p[2]>> /\ p[1] \in Lines!Files /\ p[2] \in 1..new[p[1]]
    BY <1>3
  <2>2. CASE p[1] # f
    BY <2>1, <2>2, <1>1, <1>2
  <2>3. CASE p[1] = f
    <3>1. p[2] \in 1..b
      BY <2>1, <2>3, <1>1
    <3>2. CASE p[2] <= a
      <4>1. p[2] \in 1..off[f]
        BY <3>1, <3>2
      <4> QED BY <4>1, <2>1, <2>3, <1>2
    <3>3. CASE ~(p[2] <= a)
      <4>1. p[2] \in (a + 1)..b
        BY <3>1, <3>3
      <4> QED BY <4>1, <2>1, <2>3, <1>4
    <3> QED BY <3>2, <3>3
  <2> QED BY <2>2, <2>3
<1>6. ASSUME NEW p \in Lines!UpTo(off) PROVE p \in Lines!UpTo(new) /\ p \notin Between(f, a, b)
  <2>1. p = <<p[1], p[2]>> /\ p[1] \in Lines!Files /\ p[2] \in 1..off[p[1]]
    BY <1>2
  <2>2. CASE p[1] # f
    BY <2>1, <2>2, <1>1, <1>3, <1>4
  <2>3. CASE p[1] = f
    <3>1. p[2] \in 1..b /\ ~(p[2] \in (a + 1)..b)
      BY <2>1, <2>3
    <3>2. p[2] \in 1..new[f]
      BY <3>1, <1>1
    <3> QED BY <3>1, <3>2, <2>1, <2>3, <1>3, <1>4
  <2> QED BY <2>2, <2>3
<1>7. ASSUME NEW p \in Between(f, a, b) PROVE p \in Lines!UpTo(new)
  <2>1. p = <<p[1], p[2]>> /\ p[1] = f /\ p[2] \in (a + 1)..b
    BY <1>4
  <2>2. p[2] \in 1..new[f]
    BY <2>1, <1>1
  <2> QED BY <2>1, <2>2, <1>3
<1> QED BY <1>1, <1>5, <1>6, <1>7

\* What is read of a file.
Span(f, a, b) == [i \in 1..(b - a) |-> <<f, a + i>>]

LEMMA SpanIs ==
  ASSUME NEW f \in Lines!Files, NEW a \in Nat, NEW b \in Nat, a <= b
  PROVE  Distinct(Span(f, a, b)) /\ Lines!Range(Span(f, a, b)) = Between(f, a, b)
<1> PICK n \in Nat : n = b - a
  OBVIOUS
<1> DEFINE d == Span(f, a, b)
<1>1. d = [i \in 1..n |-> <<f, a + i>>]
  BY DEF Span
<1>2. d \in Seq(Spots) /\ Len(d) = n
  BY <1>1 DEF Spots
<1>3. DOMAIN d = 1..n /\ \A i \in 1..n : d[i] = <<f, a + i>>
  BY <1>1
<1> HIDE DEF d
<1>4. \A v : v \in Lines!Range(d) <=> \E i \in 1..n : v = d[i]
  BY <1>3 DEF Lines!Range
<1>5. ASSUME NEW v \in Lines!Range(d) PROVE v \in Between(f, a, b)
  <2>2. PICK i \in 1..n : v = d[i]
    BY <1>4
  <2>3. v = <<f, a + i>>
    BY <2>2, <1>3
  <2>1. a + i \in (a + 1)..b
    OBVIOUS
  <2> QED BY <2>1, <2>3 DEF Between
<1>6. ASSUME NEW v \in Between(f, a, b) PROVE v \in Lines!Range(d)
  <2> PICK j \in (a + 1)..b : v = <<f, j>>
    BY DEF Between
  <2>1. j - a \in 1..n /\ a + (j - a) = j
    OBVIOUS
  <2>2. v = d[j - a]
    BY <2>1, <1>3
  <2> QED BY <2>1, <2>2, <1>4
<1>7. d \in Bijection(1..n, Lines!Range(d))
  <2>1. d \in [1..n -> Lines!Range(d)]
    <3>1. \A i \in 1..n : d[i] \in Lines!Range(d)
      BY <1>4
    <3> QED BY <3>1, <1>1 DEF d
  <2>2. \A i, j \in 1..n : d[i] = d[j] => i = j
    <3> SUFFICES ASSUME NEW i \in 1..n, NEW j \in 1..n, d[i] = d[j] PROVE i = j
      OBVIOUS
    <3>1. a + i = a + j
      BY <1>3
    <3> QED BY <3>1
  <2>3. \A v \in Lines!Range(d) : \E i \in 1..n : d[i] = v
    BY <1>4
  <2>4. d \in Injection(1..n, Lines!Range(d))
    BY <2>1, <2>2 DEF Injection, IsInjective
  <2>5. d \in Surjection(1..n, Lines!Range(d))
    BY <2>1, <2>3 DEF Surjection
  <2> QED BY <2>4, <2>5 DEF Bijection
<1>8. IsFiniteSet(1..n) /\ Cardinality(1..n) = n
  <2>1. 1 \in Int /\ n \in Int /\ (IF 1 > n THEN 0 ELSE n - 1 + 1) = n
    OBVIOUS
  <2> QED BY <2>1, FS_Interval
<1>9. IsFiniteSet(Lines!Range(d)) /\ Cardinality(Lines!Range(d)) = n
  <2>1. ExistsBijection(1..n, Lines!Range(d))
    BY <1>7 DEF ExistsBijection
  <2> QED BY <2>1, <1>8, FS_Bijection
<1> QED BY <1>2, <1>5, <1>6, <1>9 DEF Distinct, d

-----------------------------------------------------------------------------
(* LogTail: the tail.  The parts of its invariant are about sizes sz,      *)
(* connections c, streams st, a poller p, offsets off, a tick t and torn   *)
(* places tn, which are those of a state or of a moment within a step.     *)

StreamRecs == [user : Viewers, open : BOOLEAN, told : BOOLEAN, sent : Seq(Spots), more : Nat,
               base : SUBSET Spots, odd : BOOLEAN]
StreamList(st) == st \in Seq(StreamRecs)

Pollers == [timer : BOOLEAN, dir : BOOLEAN, init : BOOLEAN, errors : Nat]
RowLists == UNION {[U -> Seq(Spots)] : U \in SUBSET Viewers}
Ticks == [at : {"idle", "readdir", "stat", "read"}, first : BOOLEAN, todo : SUBSET Lines!Files,
          from : Int, size : Int, rows : RowLists]

Scans(t) == t.at \in {"stat", "read"}

\* What the poller has read it had found.
TailTypes(sz, c, st, p, off, t) ==
  /\ sz \in [Lines!Files -> Nat] /\ c \in [Viewers -> Nat] /\ StreamList(st) /\ p \in Pollers
  /\ off \in [Lines!Files -> Int] /\ \A f \in Lines!Files : -1 <= off[f] /\ off[f] <= sz[f]
  /\ t \in Ticks /\ (~Scans(t) => t.rows = <<>>)

\* A user's connection is the newest of the user's streams; another one that is
\* open was opened before, and the newer is odd.
Served(c, st, p) ==
  /\ \A u \in Viewers : c[u] # 0 => /\ c[u] \in DOMAIN st /\ st[c[u]].user = u /\ p.timer
                                  /\ \A r \in DOMAIN st : st[r].user = u => r <= c[u]
  /\ \A r, s \in DOMAIN st : r < s /\ st[r].open /\ st[s].open /\ st[r].user = st[s].user => st[s].odd
  /\ \A s \in DOMAIN st : st[s].open /\ ~st[s].told /\ ~st[s].odd => c[st[s].user] = s /\ p.timer

Live(c, st, s) == c[st[s].user] = s /\ ~st[s].odd

First(S) == CHOOSE f \in S : \A g \in S : f <= g

\* What the tick has found was read, and what it is about to read was not.
TickReads(sz, p, off, t, tn) ==
  /\ p.dir => tn \subseteq Lines!UpTo(off)
  /\ Scans(t) /\ p.dir => /\ t.first = ~p.init
                          /\ \A v \in DOMAIN t.rows : Lines!Range(t.rows[v]) \subseteq Lines!UpTo(off)
  /\ t.at = "read" => /\ t.from \in Nat /\ t.from < t.size /\ t.size <= sz[First(t.todo)]
                      /\ p.dir => off[First(t.todo)] = t.from

\* What a stream is not owed was read, or will be passed over by the first scan.
BaseIsOld(sz, c, st, p, off, t) ==
  /\ \A s \in DOMAIN st : st[s].base \subseteq Lines!UpTo(sz)
  /\ p.dir => \A s \in DOMAIN st : Live(c, st, s) => \A q \in st[s].base :
       /\ off[q[1]] # -1 => q[2] <= off[q[1]]
       /\ off[q[1]] = -1 => ~p.init /\ (Scans(t) => q[1] \in t.todo)

Owed(st, off, tn, s) == (Lines!UpTo(off) \ st[s].base) \ tn
RowsOf(t, u) == IF u \in DOMAIN t.rows THEN t.rows[u] ELSE <<>>

\* What the other streams have been read in this tick, the stream has too; one that
\* the tick does not know is owed nothing.
Shared(t, u, o) ==
  IF u \in DOMAIN t.rows
  THEN \A v \in DOMAIN t.rows : Lines!Range(t.rows[v]) \subseteq Lines!Range(t.rows[u])
  ELSE o = {}

\* A stream gets what it is owed.
Exact(c, st, p, off, t, tn) ==
  p.dir => \A s \in DOMAIN st : Live(c, st, s) =>
    /\ Sound(Owed(st, off, tn, s), st[s].sent, st[s].more, RowsOf(t, st[s].user))
    /\ Scans(t) => Shared(t, st[s].user, Owed(st, off, tn, s))

\* A tick that outlives its poller finds nothing for the streams of the next one.
Fresh(c, st, p, off, t) ==
  ~p.dir =>
    /\ t.at = "readdir" => ~p.init /\ off = Lines!Forgotten
    /\ \A s \in DOMAIN st : Live(c, st, s) =>
         /\ st[s].sent = <<>> /\ st[s].more = 0
         /\ Scans(t) /\ st[s].user \in DOMAIN t.rows =>
              /\ t.at = "stat" /\ t.first /\ t.rows[st[s].user] = <<>>
              /\ \A f \in t.todo : off[f] = -1

TailOK(sz, c, st, p, off, t, tn) ==
  /\ TailTypes(sz, c, st, p, off, t) /\ Served(c, st, p) /\ TickReads(sz, p, off, t, tn)
  /\ BaseIsOld(sz, c, st, p, off, t) /\ Exact(c, st, p, off, t, tn) /\ Fresh(c, st, p, off, t)

Sizes == [f \in Lines!Files |-> Len(logFiles[f])]

TailInv ==
  /\ TailOK(Sizes, conns, stream, poller, offsets, tick, torn)
  /\ Scans(tick) => tick.todo # {}

LEMMA FilesAre == Lines!Files \subseteq Nat /\ Rolls \in Nat /\ Lines!Files = 0..Rolls
BY LinesAssumption DEF Lines!Files

LEMMA FirstIs ==
  ASSUME NEW S \in SUBSET Lines!Files, S # {}
  PROVE  First(S) \in S /\ First(S) \in Lines!Files
<1>1. S \subseteq Nat
  BY FilesAre
<1>2. PICK f \in S : \A g \in S : ~(<<g, f>> \in OpToRel(<, Nat))
  BY <1>1, NatLessThanWellFounded, WFMin
<1>3. \A g \in S : f <= g
  <2> SUFFICES ASSUME NEW g \in S PROVE ~(g < f)
    BY <1>1
  <2> QED BY <1>1, <1>2 DEF OpToRel
<1> QED BY <1>3 DEF First

LEMMA CurrentIsFirst == Lines!Current = First(tick.todo)
BY DEF Lines!Current, First

LEMMA StreamsAre ==
  ASSUME NEW st, StreamList(st)
  PROVE  DOMAIN st = 1..Len(st) /\ Len(st) \in Nat /\ \A s \in DOMAIN st : st[s] \in StreamRecs
BY DEF StreamList

LEMMA StreamsMap ==
  ASSUME NEW st, StreamList(st), NEW e \in [DOMAIN st -> StreamRecs]
  PROVE  StreamList(e) /\ DOMAIN e = DOMAIN st
<1>1. PICK n \in Nat : DOMAIN st = 1..n
  BY StreamsAre
<1>2. e \in [1..n -> StreamRecs]
  BY <1>1
<1> QED BY <1>1, <1>2 DEF StreamList

\* Streams to which nothing happens that concerns their connections.
Same(st, e) ==
  /\ StreamList(e) /\ DOMAIN e = DOMAIN st
  /\ \A s \in DOMAIN st : /\ e[s].user = st[s].user /\ e[s].open = st[s].open /\ e[s].told = st[s].told
                          /\ st[s].odd => e[s].odd

LEMMA ServedStays ==
  ASSUME NEW c, NEW st, NEW e, NEW p, NEW q, Served(c, st, p), Same(st, e), q.timer = p.timer
  PROVE  Served(c, e, q)
BY DEF Served, Same

-----------------------------------------------------------------------------
(* LogTail: a tick goes on, or ends                                        *)

LEMMA RowsAre ==
  ASSUME NEW r \in RowLists
  PROVE  DOMAIN r \subseteq Viewers /\ \A u \in DOMAIN r : r[u] \in Seq(Spots) /\ Len(r[u]) \in Nat
<1>1. PICK U \in SUBSET Viewers : r \in [U -> Seq(Spots)]
  BY DEF RowLists
<1>2. DOMAIN r = U /\ \A u \in U : r[u] \in Seq(Spots)
  BY <1>1
<1>3. \A q \in Seq(Spots) : Len(q) \in Nat
  OBVIOUS
<1> QED BY <1>2, <1>3

\* What a stream gets of the rows of a tick.
Given(x, y, r) ==
  \E n \in Nat : /\ n <= Len(r)
                 /\ y = [x EXCEPT !.sent = @ \o SubSeq(r, 1, n), !.more = @ + Len(r) - n]

LEMMA DispatchedIs ==
  ASSUME NEW st, StreamList(st), NEW r \in RowLists, NEW s \in DOMAIN st
  PROVE  LET e == Lines!Dispatched(r, st)
             u == st[s].user
         IN  /\ DOMAIN e = DOMAIN st
             /\ ~(conns[u] = s /\ u \in DOMAIN r) => e[s] = st[s]
             /\ conns[u] = s /\ u \in DOMAIN r => Given(st[s], e[s], r[u])
<1>1. DOMAIN st = 1..Len(st)
  BY StreamsAre
<1> DEFINE e == Lines!Dispatched(r, st)
           u == st[s].user
           n == IF Len(r[u]) > RowsMax THEN RowsMax ELSE Len(r[u])
<1>2. /\ DOMAIN e = DOMAIN st
      /\ e[s] = IF conns[u] # s \/ u \notin DOMAIN r THEN st[s]
                ELSE [st[s] EXCEPT !.sent = @ \o SubSeq(r[u], 1, n), !.more = @ + Len(r[u]) - n]
  BY <1>1 DEF Lines!Dispatched
<1>3. ASSUME conns[u] = s, u \in DOMAIN r PROVE Given(st[s], e[s], r[u])
  <2>1. Len(r[u]) \in Nat
    BY <1>3, RowsAre
  <2>2. n \in Nat /\ n <= Len(r[u])
    BY <2>1, LinesAssumption
  <2>3. e[s] = [st[s] EXCEPT !.sent = @ \o SubSeq(r[u], 1, n), !.more = @ + Len(r[u]) - n]
    BY <1>2, <1>3
  <2> HIDE DEF e, n
  <2> QED BY <2>2, <2>3 DEF Given
<1> QED BY <1>2, <1>3

LEMMA GivenIs ==
  ASSUME NEW x \in StreamRecs, NEW y, NEW r \in Seq(Spots), Given(x, y, r)
  PROVE  /\ y \in StreamRecs
         /\ y.user = x.user /\ y.open = x.open /\ y.told = x.told /\ y.base = x.base /\ y.odd = x.odd
         /\ \E n \in Nat : n <= Len(r) /\ y.sent = x.sent \o SubSeq(r, 1, n) /\ y.more = x.more + Len(r) - n
<1>1. PICK n \in Nat : /\ n <= Len(r)
                       /\ y = [x EXCEPT !.sent = @ \o SubSeq(r, 1, n), !.more = @ + Len(r) - n]
  BY DEF Given
<1>2. x.sent \in Seq(Spots) /\ x.more \in Nat
  BY DEF StreamRecs
<1>3. SubSeq(r, 1, n) \in Seq(Spots)
  BY <1>1
<1> DEFINE snt == x.sent \o SubSeq(r, 1, n)
           mor == x.more + Len(r) - n
<1>4. snt \in Seq(Spots)
  BY <1>2, <1>3
<1>5. Len(r) \in Nat
  OBVIOUS
<1>6. mor \in Nat
  BY <1>1, <1>2, <1>5
<1>7. y = [x EXCEPT !.sent = snt, !.more = mor]
  BY <1>1
<1> HIDE DEF snt, mor
<1>8. /\ y \in StreamRecs
      /\ y.user = x.user /\ y.open = x.open /\ y.told = x.told /\ y.base = x.base /\ y.odd = x.odd
      /\ y.sent = snt /\ y.more = mor
  BY <1>4, <1>6, <1>7 DEF StreamRecs
<1> QED BY <1>1, <1>8 DEF snt, mor

\* The last file of a tick was read: the streams are given their rows.
LEMMA TickEnds ==
  ASSUME NEW sz, NEW st, NEW p, NEW off, NEW t, NEW tn, TailOK(sz, conns, st, p, off, t, tn),
         t.at = "stat", t.todo = {}
  PROVE  TailOK(sz, conns, Lines!Dispatched(t.rows, st), [p EXCEPT !.init = TRUE, !.errors = 0], off,
                Lines!NoTick, tn)
<1> DEFINE e == Lines!Dispatched(t.rows, st)
           q == [p EXCEPT !.init = TRUE, !.errors = 0]
           N == Lines!NoTick
<1>1. /\ StreamList(st) /\ t.rows \in RowLists /\ p \in Pollers
      /\ conns \in [Viewers -> Nat] /\ sz \in [Lines!Files -> Nat]
  BY DEF TailOK, TailTypes, Ticks
<1>2. q \in Pollers /\ q.timer = p.timer /\ q.dir = p.dir /\ q.init = TRUE
  BY <1>1 DEF Pollers
<1>3. /\ N.at = "idle" /\ N.rows = <<>> /\ ~Scans(N) /\ N \in Ticks /\ N.at # "read" /\ N.at # "readdir"
  <2>1. <<>> \in RowLists
    <3>1. <<>> \in [{} -> Seq(Spots)]
      OBVIOUS
    <3> QED BY <3>1 DEF RowLists
  <2> QED BY <2>1 DEF Lines!NoTick, Ticks, Scans
<1>4. Scans(t) /\ t.at # "readdir"
  BY DEF Scans
<1>5. /\ DOMAIN e = DOMAIN st
      /\ \A s \in DOMAIN st :
           /\ ~(conns[st[s].user] = s /\ st[s].user \in DOMAIN t.rows) => e[s] = st[s]
           /\ conns[st[s].user] = s /\ st[s].user \in DOMAIN t.rows => Given(st[s], e[s], t.rows[st[s].user])
  <2>1. DOMAIN e = DOMAIN st
    <3>1. DOMAIN st = 1..Len(st)
      BY <1>1, StreamsAre
    <3> QED BY <3>1 DEF Lines!Dispatched
  <2> QED BY <2>1, <1>1, DispatchedIs
<1> HIDE DEF e, q, N
<1>6. \A s \in DOMAIN st : st[s] \in StreamRecs
  BY <1>1, StreamsAre
<1>7. \A u \in DOMAIN t.rows : t.rows[u] \in Seq(Spots) /\ Len(t.rows[u]) \in Nat
  BY <1>1, RowsAre
<1>8. \A s \in DOMAIN st : /\ e[s] \in StreamRecs
                           /\ e[s].user = st[s].user /\ e[s].open = st[s].open /\ e[s].told = st[s].told
                           /\ e[s].base = st[s].base /\ e[s].odd = st[s].odd
  <2> SUFFICES ASSUME NEW s \in DOMAIN st
               PROVE  /\ e[s] \in StreamRecs
                      /\ e[s].user = st[s].user /\ e[s].open = st[s].open /\ e[s].told = st[s].told
                      /\ e[s].base = st[s].base /\ e[s].odd = st[s].odd
    OBVIOUS
  <2>1. CASE conns[st[s].user] = s /\ st[s].user \in DOMAIN t.rows
    <3>1. Given(st[s], e[s], t.rows[st[s].user]) /\ t.rows[st[s].user] \in Seq(Spots) /\ st[s] \in StreamRecs
      BY <2>1, <1>5, <1>6, <1>7
    <3> QED BY <3>1, GivenIs
  <2>2. CASE ~(conns[st[s].user] = s /\ st[s].user \in DOMAIN t.rows)
    BY <2>2, <1>5, <1>6
  <2> QED BY <2>1, <2>2
<1>17. ASSUME NEW s \in DOMAIN st, conns[st[s].user] = s, NEW r, r = t.rows[st[s].user], st[s].user \in DOMAIN t.rows
       PROVE  /\ r \in Seq(Spots)
              /\ \E n \in Nat : n <= Len(r) /\ e[s].sent = st[s].sent \o SubSeq(r, 1, n) /\ e[s].more = st[s].more + Len(r) - n
  <2>1. Given(st[s], e[s], r) /\ r \in Seq(Spots) /\ st[s] \in StreamRecs
    BY <1>5, <1>6, <1>7, <1>17
  <2>2. \A x \in StreamRecs, v \in Seq(Spots) : \A y : Given(x, y, v) =>
          \E n \in Nat : n <= Len(v) /\ y.sent = x.sent \o SubSeq(v, 1, n) /\ y.more = x.more + Len(v) - n
    BY GivenIs
  <2>3. \A y : Given(st[s], y, r) =>
          \E n \in Nat : n <= Len(r) /\ y.sent = st[s].sent \o SubSeq(r, 1, n) /\ y.more = st[s].more + Len(r) - n
    BY <2>1, <2>2, Zenon
  <2> QED BY <2>1, <2>3, Zenon
<1>9. StreamList(e) /\ Same(st, e)
  <2>1. e \in [DOMAIN st -> StreamRecs]
    <3>1. e = [s \in DOMAIN e |-> e[s]]
      BY DEF e, Lines!Dispatched
    <3> QED BY <3>1, <1>5, <1>8
  <2>2. StreamList(e)
    BY <2>1, <1>1, StreamsMap
  <2> QED BY <2>2, <1>5, <1>8 DEF Same
<1>10. \A s \in DOMAIN st : Live(conns, e, s) <=> Live(conns, st, s)
  BY <1>8 DEF Live
<1>11. TailTypes(sz, conns, e, q, off, N)
  BY <1>2, <1>3, <1>9 DEF TailOK, TailTypes
<1>12. Served(conns, e, q)
  <2>1. Served(conns, st, p)
    BY DEF TailOK
  <2> QED BY <2>1, <1>2, <1>9, ServedStays
<1>13. TickReads(sz, q, off, N, tn)
  BY <1>2, <1>3 DEF TailOK, TickReads
<1>14. BaseIsOld(sz, conns, e, q, off, N)
  BY <1>2, <1>3, <1>4, <1>5, <1>8, <1>10 DEF TailOK, BaseIsOld
<1>15. Exact(conns, e, q, off, N, tn)
  <2> SUFFICES ASSUME q.dir, NEW s \in DOMAIN e, Live(conns, e, s)
               PROVE  Sound(Owed(e, off, tn, s), e[s].sent, e[s].more, RowsOf(N, e[s].user))
    BY <1>3 DEF Exact
  <2>1. s \in DOMAIN st /\ Live(conns, st, s) /\ p.dir /\ conns[st[s].user] = s
    BY <1>2, <1>5, <1>10 DEF Live
  <2>2. /\ Sound(Owed(st, off, tn, s), st[s].sent, st[s].more, RowsOf(t, st[s].user))
        /\ Owed(e, off, tn, s) = Owed(st, off, tn, s) /\ RowsOf(N, e[s].user) = <<>>
    <3>1. Sound(Owed(st, off, tn, s), st[s].sent, st[s].more, RowsOf(t, st[s].user))
      BY <2>1 DEF TailOK, Exact
    <3>2. Owed(e, off, tn, s) = Owed(st, off, tn, s)
      BY <2>1, <1>8 DEF Owed
    <3>3. RowsOf(N, e[s].user) = <<>>
      BY <1>3 DEF RowsOf
    <3> QED BY <3>1, <3>2, <3>3
  <2>3. CASE st[s].user \in DOMAIN t.rows
    <3>1. PICK r : r = t.rows[st[s].user]
      OBVIOUS
    <3>2. RowsOf(t, st[s].user) = r
      BY <2>3, <3>1 DEF RowsOf
    <3>3. PICK n \in Nat : n <= Len(r) /\ e[s].sent = st[s].sent \o SubSeq(r, 1, n) /\ e[s].more = st[s].more + Len(r) - n
      BY <2>1, <2>3, <3>1, <1>17, ZenonT(60)
    <3>4. Sound(Owed(st, off, tn, s), st[s].sent \o SubSeq(r, 1, n), st[s].more + Len(r) - n, <<>>)
      BY <3>2, <3>3, <2>2, SoundSent
    <3> QED BY <3>3, <3>4, <2>2
  <2>4. CASE st[s].user \notin DOMAIN t.rows
    <3>1. e[s] = st[s] /\ RowsOf(t, st[s].user) = <<>>
      BY <2>1, <2>4, <1>5 DEF RowsOf
    <3> QED BY <3>1, <2>2
  <2> QED BY <2>3, <2>4
<1>16. Fresh(conns, e, q, off, N)
  <2> SUFFICES ASSUME ~q.dir, NEW s \in DOMAIN e, Live(conns, e, s) PROVE e[s].sent = <<>> /\ e[s].more = 0
    BY <1>3 DEF Fresh
  <2>1. s \in DOMAIN st /\ Live(conns, st, s) /\ ~p.dir /\ conns[st[s].user] = s
    BY <1>2, <1>5, <1>10 DEF Live
  <2>2. /\ st[s].sent = <<>> /\ st[s].more = 0
        /\ st[s].user \in DOMAIN t.rows => t.rows[st[s].user] = <<>>
    BY <2>1, <1>4 DEF TailOK, Fresh
  <2>3. CASE st[s].user \in DOMAIN t.rows
    <3>1. PICK r : r = t.rows[st[s].user]
      OBVIOUS
    <3>3. PICK n \in Nat : n <= Len(r) /\ e[s].sent = st[s].sent \o SubSeq(r, 1, n) /\ e[s].more = st[s].more + Len(r) - n
      BY <2>1, <2>3, <3>1, <1>17
    <3>4. r = <<>> /\ Len(<<>>) = 0
      BY <3>1, <2>2, <2>3
    <3>5. n = 0 /\ <<>> \o SubSeq(<<>>, 1, 0) = <<>>
      BY <3>3, <3>4
    <3> QED BY <3>3, <3>4, <3>5, <2>2
  <2>4. CASE st[s].user \notin DOMAIN t.rows
    BY <2>1, <2>2, <2>4, <1>5
  <2> QED BY <2>3, <2>4
<1> QED BY <1>11, <1>12, <1>13, <1>14, <1>15, <1>16 DEF TailOK, e, q, N

-----------------------------------------------------------------------------
(* LogTail: steps of the tail                                              *)

\* The tick with one file less, and some rows.
Onward(f, r) == [tick EXCEPT !.at = "stat", !.todo = @ \ {f}, !.rows = r]

LEMMA OnwardIs ==
  ASSUME tick \in Ticks, NEW r \in RowLists, NEW f
  PROVE  /\ Onward(f, r) \in Ticks /\ Onward(f, r).at = "stat" /\ Scans(Onward(f, r))
         /\ Onward(f, r).todo = tick.todo \ {f} /\ Onward(f, r).rows = r
         /\ Onward(f, r).first = tick.first
BY DEF Onward, Ticks, Scans

LEMMA ContinueKeeps ==
  ASSUME NEW r, NEW st, NEW off, NEW tn, TailInv, Scans(tick), Lines!Continue(r, st), r \in RowLists,
         UNCHANGED <<conns, logFiles>>, offsets' = off, torn' = tn,
         TailOK(Sizes, conns, st, poller, off, Onward(Lines!Current, r), tn)
  PROVE  TailInv'
<1>1. Sizes' = Sizes
  BY DEF Sizes
<1>2. tick \in Ticks /\ tick.todo # {} /\ tick.todo \subseteq Lines!Files
  BY DEF TailInv, TailOK, TailTypes, Ticks
<1>3. Lines!Current \in tick.todo
  BY <1>2, FirstIs, CurrentIsFirst
<1>4. CASE tick.todo # {Lines!Current}
  <2>1. tick' = Onward(Lines!Current, r) /\ stream' = st /\ poller' = poller
    BY <1>4 DEF Lines!Continue, Onward
  <2>2. Onward(Lines!Current, r).todo # {}
    BY <1>2, <1>3, <1>4, OnwardIs
  <2> QED BY <1>1, <2>1, <2>2 DEF TailInv
<1>5. CASE tick.todo = {Lines!Current}
  <2>1. /\ tick' = Lines!NoTick /\ stream' = Lines!Dispatched(r, st)
        /\ poller' = [poller EXCEPT !.init = TRUE, !.errors = 0]
    BY <1>5 DEF Lines!Continue
  <2>2. PICK sz, p, t : sz = Sizes /\ p = poller /\ t = Onward(Lines!Current, r)
    OBVIOUS
  <2>3. t.at = "stat" /\ t.todo = {} /\ t.rows = r
    BY <1>2, <1>5, <2>2, OnwardIs
  <2>4. TailOK(sz, conns, st, p, off, t, tn)
    BY <2>2
  <2>5. TailOK(sz, conns, Lines!Dispatched(t.rows, st), [p EXCEPT !.init = TRUE, !.errors = 0], off, Lines!NoTick, tn)
    BY <2>3, <2>4, TickEnds
  <2>6. tick'.at = "idle"
    BY <2>1 DEF Lines!NoTick
  <2> QED BY <1>1, <2>1, <2>2, <2>3, <2>5, <2>6 DEF TailInv, Scans
<1> QED BY <1>4, <1>5

LEMMA OddIs ==
  ASSUME NEW b \in BOOLEAN, StreamList(stream)
  PROVE  /\ StreamList(Lines!Odd(b)) /\ DOMAIN Lines!Odd(b) = DOMAIN stream /\ Same(stream, Lines!Odd(b))
         /\ \A s \in DOMAIN stream :
              /\ Lines!Odd(b)[s].user = stream[s].user /\ Lines!Odd(b)[s].sent = stream[s].sent
              /\ Lines!Odd(b)[s].more = stream[s].more /\ Lines!Odd(b)[s].base = stream[s].base
              /\ Lines!Odd(b)[s].odd <=> stream[s].odd \/ b
<1> DEFINE e == Lines!Odd(b)
<1>1. DOMAIN stream = 1..Len(stream) /\ \A s \in DOMAIN stream : stream[s] \in StreamRecs
  BY StreamsAre
<1>2. e = [s \in DOMAIN stream |-> [stream[s] EXCEPT !.odd = @ \/ b]]
  BY <1>1 DEF Lines!Odd
<1> HIDE DEF e
<1>3. \A s \in DOMAIN stream :
        /\ e[s] \in StreamRecs
        /\ e[s].user = stream[s].user /\ e[s].sent = stream[s].sent /\ e[s].more = stream[s].more
        /\ e[s].base = stream[s].base /\ e[s].open = stream[s].open /\ e[s].told = stream[s].told
        /\ e[s].odd <=> stream[s].odd \/ b
  <2> SUFFICES ASSUME NEW s \in DOMAIN stream
               PROVE  /\ e[s] \in StreamRecs
                      /\ e[s].user = stream[s].user /\ e[s].sent = stream[s].sent /\ e[s].more = stream[s].more
                      /\ e[s].base = stream[s].base /\ e[s].open = stream[s].open /\ e[s].told = stream[s].told
                      /\ e[s].odd <=> stream[s].odd \/ b
    OBVIOUS
  <2>1. PICK x \in StreamRecs : x = stream[s]
    BY <1>1
  <2>2. e[s] = [x EXCEPT !.odd = @ \/ b]
    BY <1>2, <2>1
  <2> QED BY <2>1, <2>2 DEF StreamRecs
<1>4. e \in [DOMAIN stream -> StreamRecs]
  BY <1>2, <1>3
<1>5. StreamList(e) /\ DOMAIN e = DOMAIN stream
  BY <1>4, StreamsMap
<1>6. Same(stream, e)
  BY <1>3, <1>5 DEF Same
<1> QED BY <1>3, <1>5, <1>6 DEF e

LEMMA StatFailsKeeps == ASSUME TailInv, Lines!StatFails PROVE TailInv'
<1>1. PICK st : st = Lines!Odd(tick.first)
  OBVIOUS
<1>2. PICK r, off, tn, f : r = tick.rows /\ off = offsets /\ tn = torn /\ f = Lines!Current
  OBVIOUS
<1>3. /\ tick.at = "stat" /\ Lines!Continue(r, st) /\ UNCHANGED <<logFiles, conns, offsets, torn>>
  BY <1>1, <1>2 DEF Lines!StatFails, Lines!Continue
<1>4. TailOK(Sizes, conns, stream, poller, offsets, tick, torn)
  BY DEF TailInv
<1>5. /\ tick \in Ticks /\ StreamList(stream) /\ tick.first \in BOOLEAN /\ r \in RowLists /\ Scans(tick)
      /\ poller.init \in BOOLEAN
  BY <1>2, <1>3, <1>4 DEF TailOK, TailTypes, Ticks, Scans, Pollers
<1>6. PICK t : t = Onward(f, r)
  OBVIOUS
<1>7. t \in Ticks /\ t.at = "stat" /\ Scans(t) /\ t.todo = tick.todo \ {f} /\ t.rows = tick.rows /\ t.first = tick.first
  BY <1>2, <1>5, <1>6, OnwardIs
<1>8. /\ StreamList(st) /\ DOMAIN st = DOMAIN stream /\ Same(stream, st)
      /\ \A s \in DOMAIN stream :
           /\ st[s].user = stream[s].user /\ st[s].sent = stream[s].sent /\ st[s].more = stream[s].more
           /\ st[s].base = stream[s].base /\ (st[s].odd <=> stream[s].odd \/ tick.first)
  BY <1>1, <1>5, OddIs
<1>9. \A s \in DOMAIN stream : Live(conns, st, s) => Live(conns, stream, s) /\ ~tick.first
  BY <1>8 DEF Live
<1>10. TailTypes(Sizes, conns, st, poller, off, t)
  BY <1>2, <1>4, <1>7, <1>8 DEF TailOK, TailTypes
<1>11. Served(conns, st, poller)
  <2>1. Served(conns, stream, poller)
    BY <1>4 DEF TailOK
  <2> QED BY <2>1, <1>8 DEF Served, Same
<1>12. TickReads(Sizes, poller, off, t, tn)
  BY <1>2, <1>4, <1>5, <1>7 DEF TailOK, TickReads
<1>13. BaseIsOld(Sizes, conns, st, poller, off, t)
  <2>1. \A s \in DOMAIN st : st[s].base \subseteq Lines!UpTo(Sizes)
    BY <1>4, <1>8 DEF TailOK, BaseIsOld
  <2>2. ASSUME poller.dir, NEW s \in DOMAIN st, Live(conns, st, s), NEW q \in st[s].base
        PROVE  off[q[1]] # -1 /\ q[2] <= off[q[1]]
    <3>1. Live(conns, stream, s) /\ s \in DOMAIN stream /\ q \in stream[s].base /\ ~tick.first
      BY <2>2, <1>8, <1>9
    <3>2. tick.first = ~poller.init
      BY <2>2, <1>4, <1>5 DEF TailOK, TickReads
    <3> QED BY <2>2, <3>1, <3>2, <1>2, <1>4, <1>5 DEF TailOK, BaseIsOld
  <2> QED BY <2>1, <2>2 DEF BaseIsOld
<1>14. Exact(conns, st, poller, off, t, tn)
  <2> SUFFICES ASSUME poller.dir, NEW s \in DOMAIN st, Live(conns, st, s)
               PROVE  /\ Sound(Owed(st, off, tn, s), st[s].sent, st[s].more, RowsOf(t, st[s].user))
                      /\ Shared(t, st[s].user, Owed(st, off, tn, s))
    BY DEF Exact
  <2>1. s \in DOMAIN stream /\ Live(conns, stream, s)
    BY <1>8, <1>9
  <2>2. /\ Sound(Owed(stream, offsets, torn, s), stream[s].sent, stream[s].more, RowsOf(tick, stream[s].user))
        /\ Shared(tick, stream[s].user, Owed(stream, offsets, torn, s))
    BY <2>1, <1>4, <1>5 DEF TailOK, Exact
  <2>3. Owed(st, off, tn, s) = Owed(stream, offsets, torn, s)
    BY <2>1, <1>2, <1>8 DEF Owed
  <2>4. RowsOf(t, st[s].user) = RowsOf(tick, stream[s].user)
    BY <2>1, <1>7, <1>8 DEF RowsOf
  <2>5. Shared(t, st[s].user, Owed(stream, offsets, torn, s))
    BY <2>1, <2>2, <1>7, <1>8 DEF Shared
  <2> QED BY <2>1, <2>2, <2>3, <2>4, <2>5, <1>8
<1>15. Fresh(conns, st, poller, off, t)
  BY <1>4, <1>5, <1>7, <1>8, <1>9 DEF TailOK, Fresh
<1>16. TailOK(Sizes, conns, st, poller, off, t, tn)
  BY <1>10, <1>11, <1>12, <1>13, <1>14, <1>15 DEF TailOK
<1> QED BY <1>2, <1>3, <1>5, <1>6, <1>16, ContinueKeeps

\* The logger only adds to the files.
LEMMA TailGrows ==
  ASSUME TailInv, UNCHANGED Lines!tail, Sizes' \in [Lines!Files -> Nat],
         \A f \in Lines!Files : Sizes[f] <= Sizes'[f]
  PROVE  TailInv'
<1> PICK sz, c, st, p, off, t, tn : sz = Sizes /\ c = conns /\ st = stream /\ p = poller /\ off = offsets /\ t = tick /\ tn = torn
  OBVIOUS
<1>1. TailOK(sz, c, st, p, off, t, tn) /\ (Scans(t) => t.todo # {})
  BY DEF TailInv
<1>2. PICK big : big = Sizes'
  OBVIOUS
<1>3. /\ sz \in [Lines!Files -> Nat] /\ big \in [Lines!Files -> Nat] /\ \A f \in Lines!Files : sz[f] <= big[f]
  BY <1>1, <1>2 DEF TailOK, TailTypes
<1>4. Lines!UpTo(sz) \subseteq Lines!UpTo(big)
  <2>1. sz \in [Lines!Files -> Int] /\ big \in [Lines!Files -> Int]
    BY <1>3
  <2>2. \A q \in Lines!UpTo(sz) : q = <<q[1], q[2]>> /\ q[1] \in Lines!Files /\ q[2] \in 1..sz[q[1]]
    BY <2>1, InUpTo
  <2>3. \A f \in Lines!Files : \A i \in 1..big[f] : <<f, i>> \in Lines!UpTo(big)
    BY <2>1, InUpTo
  <2>4. \A f \in Lines!Files : \A i \in 1..sz[f] : i \in 1..big[f]
    BY <1>3
  <2> QED BY <2>2, <2>3, <2>4
<1>5. TailTypes(big, c, st, p, off, t)
  <2>1. ASSUME NEW f \in Lines!Files PROVE off[f] <= big[f]
    <3>1. off[f] \in Int /\ off[f] <= sz[f]
      BY <1>1 DEF TailOK, TailTypes
    <3> QED BY <3>1, <1>3
  <2> QED BY <2>1, <1>1, <1>3 DEF TailOK, TailTypes
<1>6. TickReads(big, p, off, t, tn)
  <2>1. ASSUME t.at = "read" PROVE t.size <= big[First(t.todo)]
    <3>1. t \in Ticks /\ t.todo # {} /\ t.todo \in SUBSET Lines!Files /\ t.size \in Int
      BY <2>1, <1>1 DEF TailOK, TailTypes, Ticks, Scans
    <3>2. First(t.todo) \in Lines!Files
      BY <3>1, FirstIs
    <3>3. t.size <= sz[First(t.todo)]
      BY <2>1, <1>1 DEF TailOK, TickReads
    <3> QED BY <3>1, <3>2, <3>3, <1>3
  <2> QED BY <2>1, <1>1 DEF TailOK, TickReads
<1>7. BaseIsOld(big, c, st, p, off, t)
  BY <1>1, <1>4 DEF TailOK, BaseIsOld
<1>8. TailOK(big, c, st, p, off, t, tn)
  BY <1>1, <1>5, <1>6, <1>7 DEF TailOK
<1>9. conns' = c /\ stream' = st /\ poller' = p /\ offsets' = off /\ tick' = t /\ torn' = tn
  BY DEF Lines!tail
<1> QED BY <1>1, <1>2, <1>8, <1>9 DEF TailInv

LEMMA NothingRead == Lines!UpTo(Lines!Forgotten) = {} /\ Lines!Forgotten \in [Lines!Files -> Int]
<1>1. Lines!Forgotten \in [Lines!Files -> Int] /\ \A f \in Lines!Files : Lines!Forgotten[f] = -1
  BY DEF Lines!Forgotten, Lines!Unseen
<1>2. ASSUME NEW q \in Lines!UpTo(Lines!Forgotten) PROVE FALSE
  <2>1. q[1] \in Lines!Files /\ q[2] \in 1..Lines!Forgotten[q[1]]
    BY <1>1, InUpTo
  <2>2. q[2] \in 1..-1
    BY <2>1, <1>1
  <2> QED BY <2>2
<1> QED BY <1>1, <1>2

\* The interval fires.
LEMMA PollerTicks == ASSUME TailInv, Lines!Tick PROVE TailInv'
<1> PICK sz, c, st, p, off, t, tn : sz = Sizes /\ c = conns /\ st = stream /\ p = poller /\ off = offsets /\ t = tick /\ tn = torn
  OBVIOUS
<1>1. TailOK(sz, c, st, p, off, t, tn)
  BY DEF TailInv
<1>2. Sizes' = sz /\ conns' = c /\ stream' = st
  BY DEF Lines!Tick, Sizes
<1>3. PICK u, q, new, m : u = tick' /\ q = poller' /\ new = offsets' /\ m = torn'
  OBVIOUS
<1>4. /\ u \in Ticks /\ u.at = "readdir" /\ ~Scans(u) /\ u.rows = <<>>
  <2>1. u = [at |-> "readdir", first |-> FALSE, todo |-> {}, from |-> 0, size |-> 0, rows |-> <<>>]
    BY <1>3 DEF Lines!Tick, Lines!NoTick
  <2>2. <<>> \in RowLists
    <3>1. <<>> \in [{} -> Seq(Spots)]
      OBVIOUS
    <3> QED BY <3>1 DEF RowLists
  <2> QED BY <2>1, <2>2 DEF Ticks, Scans
<1>5. t.at = "idle" /\ ~Scans(t)
  BY DEF Lines!Tick, Scans
<1>6. q \in Pollers /\ q.timer = p.timer /\ q.dir = TRUE
  <2>1. p \in Pollers
    BY <1>1 DEF TailOK, TailTypes
  <2>2. (q = p /\ p.dir) \/ q = [p EXCEPT !.dir = TRUE, !.init = FALSE]
    BY <1>3 DEF Lines!Tick
  <2> QED BY <2>1, <2>2 DEF Pollers
<1>7. CASE p.dir
  <2>1. q = p /\ new = off /\ m = tn
    BY <1>3, <1>7 DEF Lines!Tick
  <2>2. TailTypes(sz, c, st, q, new, u) /\ TickReads(sz, q, new, u, m) /\ BaseIsOld(sz, c, st, q, new, u)
    BY <1>1, <1>4, <1>5, <2>1 DEF TailOK, TailTypes, TickReads, BaseIsOld
  <2>3. Exact(c, st, q, new, u, m) /\ Fresh(c, st, q, new, u)
    <3>1. t.rows = <<>>
      BY <1>1, <1>5 DEF TailOK, TailTypes
    <3>2. \A v : RowsOf(u, v) = RowsOf(t, v)
      BY <3>1, <1>4 DEF RowsOf
    <3> QED BY <3>2, <1>1, <1>4, <1>7, <2>1 DEF TailOK, Exact, Fresh
  <2> QED BY <2>1, <2>2, <2>3, <1>1, <1>2, <1>3, <1>4 DEF TailInv, TailOK
<1>8. CASE ~p.dir
  <2>1. q.init = FALSE /\ new = Lines!Forgotten /\ m = {}
    <3>1. p \in Pollers
      BY <1>1 DEF TailOK, TailTypes
    <3>2. q = [p EXCEPT !.dir = TRUE, !.init = FALSE] /\ new = Lines!Forgotten /\ m = {}
      BY <1>3, <1>8 DEF Lines!Tick, Lines!Forget
    <3> QED BY <3>1, <3>2 DEF Pollers
  <2>2. /\ Lines!UpTo(new) = {} /\ new \in [Lines!Files -> Int] /\ \A f \in Lines!Files : new[f] = -1
    BY <2>1, NothingRead DEF Lines!Forgotten, Lines!Unseen
  <2>3. TailTypes(sz, c, st, q, new, u)
    <3>1. \A f \in Lines!Files : -1 <= new[f] /\ new[f] <= sz[f]
      BY <2>2, <1>1 DEF TailOK, TailTypes
    <3> QED BY <3>1, <1>1, <1>4, <1>6, <2>2 DEF TailOK, TailTypes
  <2>4. TickReads(sz, q, new, u, m)
    BY <1>4, <2>1 DEF TickReads
  <2>5. BaseIsOld(sz, c, st, q, new, u)
    <3>1. \A s \in DOMAIN st : st[s].base \subseteq Lines!UpTo(sz)
      BY <1>1 DEF TailOK, BaseIsOld
    <3>2. sz \in [Lines!Files -> Int]
      BY <1>1 DEF TailOK, TailTypes
    <3>3. \A s \in DOMAIN st : \A a \in st[s].base : new[a[1]] = -1
      BY <3>1, <3>2, <2>2, InUpTo
    <3> QED BY <3>1, <3>3, <1>4, <2>1 DEF BaseIsOld
  <2>6. Exact(c, st, q, new, u, m)
    <3> SUFFICES ASSUME NEW s \in DOMAIN st, Live(c, st, s)
                 PROVE  Sound(Owed(st, new, m, s), st[s].sent, st[s].more, RowsOf(u, st[s].user))
      BY <1>4 DEF Exact
    <3>1. Owed(st, new, m, s) = {} /\ RowsOf(u, st[s].user) = <<>>
      BY <1>4, <2>2 DEF Owed, RowsOf
    <3>2. st[s].sent = <<>> /\ st[s].more = 0
      BY <1>1, <1>8 DEF TailOK, Fresh
    <3> QED BY <3>1, <3>2, NothingOwed
  <2>7. Served(c, st, q) /\ Fresh(c, st, q, new, u)
    BY <1>1, <1>6 DEF TailOK, Served, Fresh
  <2> QED BY <2>3, <2>4, <2>5, <2>6, <2>7, <1>2, <1>3, <1>4 DEF TailInv, TailOK
<1> QED BY <1>7, <1>8

\* A socket closes, and the last one out stops the poller.
Closes(st, e, c, k, s, p, q) ==
  /\ e = [st EXCEPT ![s].open = FALSE] /\ k = [c EXCEPT ![st[s].user] = 0]
  /\ q.timer = p.timer \/ \A u \in Viewers : k[u] = 0

LEMMA CloseStaysServed ==
  ASSUME NEW c \in [Viewers -> Nat], NEW st, StreamList(st), NEW p, Served(c, st, p), NEW s \in DOMAIN st, st[s].open,
         NEW e, NEW k, NEW q, Closes(st, e, c, k, s, p, q)
  PROVE  /\ StreamList(e) /\ DOMAIN e = DOMAIN st /\ k \in [Viewers -> Nat] /\ Served(k, e, q)
         /\ \A r \in DOMAIN st : /\ e[r].user = st[r].user /\ e[r].sent = st[r].sent /\ e[r].more = st[r].more
                                 /\ e[r].base = st[r].base /\ e[r].odd = st[r].odd
         /\ \A r \in DOMAIN st : Live(k, e, r) => Live(c, st, r)
<1>1. /\ DOMAIN st = 1..Len(st) /\ Len(st) \in Nat /\ \A r \in DOMAIN st : st[r] \in StreamRecs
  BY StreamsAre
<1>2. \A r \in DOMAIN st : r \in Nat /\ r # 0
  BY <1>1
<1>3. /\ DOMAIN e = DOMAIN st /\ e = [r \in DOMAIN st |-> e[r]]
      /\ e[s] = [st[s] EXCEPT !.open = FALSE] /\ \A r \in DOMAIN st : r # s => e[r] = st[r]
  BY DEF Closes
<1>4. \A r \in DOMAIN st : /\ e[r].user = st[r].user /\ e[r].sent = st[r].sent /\ e[r].more = st[r].more
                           /\ e[r].base = st[r].base /\ e[r].odd = st[r].odd /\ e[r].told = st[r].told
                           /\ e[r] \in StreamRecs
                           /\ e[r].open <=> st[r].open /\ r # s
  <2>1. /\ e[s].user = st[s].user /\ e[s].sent = st[s].sent /\ e[s].more = st[s].more
        /\ e[s].base = st[s].base /\ e[s].odd = st[s].odd /\ e[s].told = st[s].told
        /\ e[s] \in StreamRecs /\ e[s].open = FALSE
    <3>1. PICK x \in StreamRecs : x = st[s]
      BY <1>1
    <3>2. e[s] = [x EXCEPT !.open = FALSE]
      BY <1>3, <3>1
    <3> QED BY <3>1, <3>2 DEF StreamRecs
  <2> QED BY <2>1, <1>1, <1>3
<1>5. StreamList(e)
  <2>1. e \in [DOMAIN st -> StreamRecs]
    BY <1>3, <1>4
  <2> QED BY <2>1, StreamsMap
<1>6. st[s].user \in Viewers /\ \A r \in DOMAIN st : st[r].user \in Viewers
  BY <1>1 DEF StreamRecs
<1>7. k \in [Viewers -> Nat] /\ k[st[s].user] = 0 /\ \A u \in Viewers : u # st[s].user => k[u] = c[u]
  BY <1>6 DEF Closes
<1>8. \A r \in DOMAIN st : Live(k, e, r) => Live(c, st, r)
  BY <1>2, <1>4, <1>6, <1>7 DEF Live
<1>9. \A u \in Viewers : k[u] # 0 => k[u] = c[u] /\ q.timer = p.timer
  BY <1>7 DEF Closes
<1>10. \A u \in Viewers : k[u] # 0 => /\ k[u] \in DOMAIN e /\ e[k[u]].user = u /\ q.timer
                                    /\ \A r \in DOMAIN e : e[r].user = u => r <= k[u]
  BY <1>3, <1>4, <1>9 DEF Served
<1>11. \A r, v \in DOMAIN e : r < v /\ e[r].open /\ e[v].open /\ e[r].user = e[v].user => e[v].odd
  BY <1>3, <1>4 DEF Served
<1>12. ASSUME NEW r \in DOMAIN e, e[r].open, ~e[r].told, ~e[r].odd PROVE k[e[r].user] = r /\ q.timer
  <2>1. r \in DOMAIN st /\ r # s /\ st[r].open /\ ~st[r].told /\ ~st[r].odd /\ e[r].user = st[r].user
    BY <1>3, <1>4, <1>12
  <2>2. c[st[r].user] = r /\ p.timer
    BY <2>1 DEF Served
  <2>3. st[r].user # st[s].user
    <3> SUFFICES ASSUME st[r].user = st[s].user PROVE FALSE
      OBVIOUS
    <3>1. s <= r
      BY <2>1, <2>2, <1>2, <1>6 DEF Served
    <3>2. s < r
      BY <3>1, <2>1, <1>2
    <3> QED BY <3>2, <2>1 DEF Served
  <2>4. k[st[r].user] = r
    BY <2>1, <2>2, <2>3, <1>6, <1>7
  <2> QED BY <2>1, <2>2, <2>4, <1>2, <1>6, <1>9
<1>13. Served(k, e, q)
  BY <1>10, <1>11, <1>12 DEF Served
<1> QED BY <1>3, <1>4, <1>5, <1>7, <1>8, <1>13

LEMMA CloseKeeps == ASSUME TailInv, NEW s \in 1..Len(stream), Lines!Close(s) PROVE TailInv'
<1> PICK sz, c, st, p, off, t, tn : sz = Sizes /\ c = conns /\ st = stream /\ p = poller /\ off = offsets /\ t = tick /\ tn = torn
  OBVIOUS
<1>1. TailOK(sz, c, st, p, off, t, tn) /\ (Scans(t) => t.todo # {})
  BY DEF TailInv
<1>2. Sizes' = sz /\ tick' = t
  BY DEF Lines!Close, Sizes
<1>3. PICK k, e, q, new, m : k = conns' /\ e = stream' /\ q = poller' /\ new = offsets' /\ m = torn'
  OBVIOUS
<1>4. /\ c \in [Viewers -> Nat] /\ StreamList(st) /\ Served(c, st, p) /\ p \in Pollers
      /\ s \in DOMAIN st /\ st[s].open
  <2>1. DOMAIN st = 1..Len(st)
    BY <1>1, StreamsAre DEF TailOK, TailTypes
  <2> QED BY <2>1, <1>1 DEF TailOK, TailTypes, Lines!Close
<1>6. \/ q = p /\ new = off /\ m = tn
      \/ /\ q = [Lines!Stopped EXCEPT !.errors = p.errors] /\ new = Lines!Forgotten /\ m = {}
         /\ \A u \in Viewers : k[u] = 0
  BY <1>3 DEF Lines!Close, Lines!Forget
<1>7. Closes(st, e, c, k, s, p, q)
  BY <1>3, <1>6 DEF Lines!Close, Closes
<1>8. /\ StreamList(e) /\ DOMAIN e = DOMAIN st /\ k \in [Viewers -> Nat] /\ Served(k, e, q)
      /\ \A r \in DOMAIN st : /\ e[r].user = st[r].user /\ e[r].sent = st[r].sent /\ e[r].more = st[r].more
                              /\ e[r].base = st[r].base /\ e[r].odd = st[r].odd
      /\ \A r \in DOMAIN st : Live(k, e, r) => Live(c, st, r)
  BY <1>4, <1>7, CloseStaysServed
<1>9. CASE q = p /\ new = off /\ m = tn
  <2>1. TailTypes(sz, k, e, q, new, t) /\ TickReads(sz, q, new, t, m)
    BY <1>1, <1>8, <1>9 DEF TailOK, TailTypes
  <2>2. BaseIsOld(sz, k, e, q, new, t)
    BY <1>1, <1>8, <1>9 DEF TailOK, BaseIsOld
  <2>3. \A r \in DOMAIN st : Owed(e, new, m, r) = Owed(st, off, tn, r)
    BY <1>8, <1>9 DEF Owed
  <2>4. Exact(k, e, q, new, t, m)
    BY <1>1, <1>8, <1>9, <2>3 DEF TailOK, Exact
  <2>5. Fresh(k, e, q, new, t)
    BY <1>1, <1>8, <1>9 DEF TailOK, Fresh
  <2> QED BY <2>1, <2>2, <2>4, <2>5, <1>1, <1>2, <1>3, <1>8 DEF TailInv, TailOK
<1>10. CASE /\ q = [Lines!Stopped EXCEPT !.errors = p.errors] /\ new = Lines!Forgotten /\ m = {}
            /\ \A u \in Viewers : k[u] = 0
  <2>1. q \in Pollers /\ q.dir = FALSE /\ q.init = FALSE
    BY <1>4, <1>10 DEF Lines!Stopped, Pollers
  <2>2. new \in [Lines!Files -> Int] /\ \A f \in Lines!Files : new[f] = -1
    BY <1>10, NothingRead DEF Lines!Forgotten, Lines!Unseen
  <2>3. TailTypes(sz, k, e, q, new, t)
    <3>1. \A f \in Lines!Files : -1 <= new[f] /\ new[f] <= sz[f]
      BY <2>2, <1>1 DEF TailOK, TailTypes
    <3> QED BY <3>1, <1>1, <1>8, <2>1, <2>2 DEF TailOK, TailTypes
  <2>4. TickReads(sz, q, new, t, m)
    BY <1>1, <2>1 DEF TailOK, TickReads
  <2>5. BaseIsOld(sz, k, e, q, new, t) /\ Exact(k, e, q, new, t, m)
    BY <1>1, <1>8, <2>1 DEF TailOK, BaseIsOld, Exact
  <2>6. \A r \in DOMAIN st : ~Live(k, e, r)
    <3>1. \A r \in DOMAIN e : r # 0 /\ e[r].user \in Viewers
      <4>1. DOMAIN e = 1..Len(e) /\ \A r \in DOMAIN e : e[r] \in StreamRecs
        BY <1>8, StreamsAre
      <4> QED BY <4>1 DEF StreamRecs
    <3> QED BY <3>1, <1>8, <1>10 DEF Live
  <2>7. Fresh(k, e, q, new, t)
    BY <2>1, <2>6, <1>8, <1>10 DEF Fresh
  <2> QED BY <2>3, <2>4, <2>5, <2>7, <1>1, <1>2, <1>3, <1>8 DEF TailInv, TailOK
<1> QED BY <1>6, <1>9, <1>10

\* A directory is read, and the tick begins.
LEMMA ReaddirKeeps == ASSUME TailInv, Lines!Readdir PROVE TailInv'
<1> PICK sz, c, st, p, off, t, tn : sz = Sizes /\ c = conns /\ st = stream /\ p = poller /\ off = offsets /\ t = tick /\ tn = torn
  OBVIOUS
<1>1. TailOK(sz, c, st, p, off, t, tn)
  BY DEF TailInv
<1>2. Sizes' = sz /\ conns' = c /\ stream' = st /\ poller' = p /\ offsets' = off /\ torn' = tn
  BY DEF Lines!Readdir, Sizes
<1>3. PICK u, names : u = tick' /\ names = {f \in Lines!Files : logFiles[f] # <<>>}
  OBVIOUS
<1> DEFINE r == [v \in Lines!Connected |-> <<>>]
<1>4. /\ t.at = "readdir" /\ names # {} /\ ~Scans(t)
      /\ u = [t EXCEPT !.at = "stat", !.todo = names, !.first = ~p.init, !.rows = r]
  BY <1>3 DEF Lines!Readdir, Scans
<1>5. DOMAIN r = Lines!Connected /\ (\A v \in DOMAIN r : r[v] = <<>>) /\ r \in RowLists
  <2>1. Lines!Connected \in SUBSET Viewers
    BY DEF Lines!Connected
  <2>2. r \in [Lines!Connected -> Seq(Spots)]
    OBVIOUS
  <2> QED BY <2>1, <2>2 DEF RowLists
<1> HIDE DEF r
<1>6. /\ u \in Ticks /\ u.at = "stat" /\ Scans(u) /\ u.todo = names /\ (u.first = ~p.init) /\ u.rows = r
  <2>1. t \in Ticks /\ p.init \in BOOLEAN /\ names \subseteq Lines!Files
    BY <1>1, <1>3 DEF TailOK, TailTypes, Pollers
  <2> QED BY <2>1, <1>4, <1>5 DEF Ticks, Scans
<1>7. TailTypes(sz, c, st, p, off, u)
  BY <1>1, <1>6 DEF TailOK, TailTypes
<1>8. \A v \in DOMAIN r : Lines!Range(r[v]) = {}
  BY <1>5, NoneDistinct
<1>9. TickReads(sz, p, off, u, tn)
  BY <1>1, <1>6, <1>8 DEF TailOK, TickReads
<1>10. BaseIsOld(sz, c, st, p, off, u)
  <2>1. \A s \in DOMAIN st : st[s].base \subseteq Lines!UpTo(sz)
    BY <1>1 DEF TailOK, BaseIsOld
  <2>2. \A q \in Lines!UpTo(sz) : q[1] \in names
    <3>1. sz \in [Lines!Files -> Int]
      BY <1>1 DEF TailOK, TailTypes
    <3>2. \A q \in Lines!UpTo(sz) : q[1] \in Lines!Files /\ q[2] \in 1..sz[q[1]]
      BY <3>1, InUpTo
    <3>3. \A f \in Lines!Files : logFiles[f] = <<>> => sz[f] = 0
      BY DEF Sizes
    <3>4. \A i : i \notin 1..0
      OBVIOUS
    <3> QED BY <3>2, <3>3, <3>4, <1>3
  <2> QED BY <2>1, <2>2, <1>1, <1>6 DEF TailOK, BaseIsOld
<1>11. \A s \in DOMAIN st : Live(c, st, s) => st[s].user \in DOMAIN r
  <2>1. \A s \in DOMAIN st : s # 0 /\ st[s].user \in Viewers
    <3>1. StreamList(st)
      BY <1>1 DEF TailOK, TailTypes
    <3>2. DOMAIN st = 1..Len(st) /\ \A s \in DOMAIN st : st[s] \in StreamRecs
      BY <3>1, StreamsAre
    <3> QED BY <3>2 DEF StreamRecs
  <2> QED BY <2>1, <1>5 DEF Live, Lines!Connected
<1>12. t.rows = <<>>
  BY <1>1, <1>4 DEF TailOK, TailTypes
<1>13. Exact(c, st, p, off, u, tn)
  <2> SUFFICES ASSUME p.dir, NEW s \in DOMAIN st, Live(c, st, s)
               PROVE  /\ Sound(Owed(st, off, tn, s), st[s].sent, st[s].more, RowsOf(u, st[s].user))
                      /\ Shared(u, st[s].user, Owed(st, off, tn, s))
    BY DEF Exact
  <2>1. Sound(Owed(st, off, tn, s), st[s].sent, st[s].more, RowsOf(t, st[s].user))
    BY <1>1 DEF TailOK, Exact
  <2>2. RowsOf(t, st[s].user) = <<>> /\ RowsOf(u, st[s].user) = <<>>
    BY <1>5, <1>6, <1>12 DEF RowsOf
  <2>3. Shared(u, st[s].user, Owed(st, off, tn, s))
    BY <1>6, <1>8, <1>11 DEF Shared
  <2> QED BY <2>1, <2>2, <2>3
<1>14. Fresh(c, st, p, off, u)
  <2> SUFFICES ASSUME ~p.dir, NEW s \in DOMAIN st, Live(c, st, s)
               PROVE  /\ st[s].sent = <<>> /\ st[s].more = 0
                      /\ u.first /\ u.rows[st[s].user] = <<>> /\ \A f \in u.todo : off[f] = -1
    BY <1>6 DEF Fresh
  <2>1. st[s].sent = <<>> /\ st[s].more = 0 /\ ~p.init /\ off = Lines!Forgotten
    BY <1>1, <1>4 DEF TailOK, Fresh
  <2>2. \A f \in u.todo : off[f] = -1
    BY <2>1, <1>3, <1>6 DEF Lines!Forgotten, Lines!Unseen
  <2> QED BY <2>1, <2>2, <1>5, <1>6, <1>11
<1> QED BY <1>1, <1>2, <1>3, <1>4, <1>6, <1>7, <1>9, <1>10, <1>13, <1>14 DEF TailInv, TailOK

LEMMA NoTickIs ==
  LET N == Lines!NoTick
  IN  /\ N \in Ticks /\ N.at = "idle" /\ N.rows = <<>> /\ ~Scans(N)
      /\ \A u : RowsOf(N, u) = <<>>
<1>1. <<>> \in RowLists
  <2>1. <<>> \in [{} -> Seq(Spots)]
    OBVIOUS
  <2> QED BY <2>1 DEF RowLists
<1> QED BY <1>1 DEF Lines!NoTick, Ticks, Scans, RowsOf

\* There is no directory, or it is taken for empty.
LEMMA NoDirectoryKeeps == ASSUME TailInv, Lines!NoDirectory PROVE TailInv'
<1> PICK sz, c, st, p, off, t, tn : sz = Sizes /\ c = conns /\ st = stream /\ p = poller /\ off = offsets /\ t = tick /\ tn = torn
  OBVIOUS
<1>1. TailOK(sz, c, st, p, off, t, tn)
  BY DEF TailInv
<1>2. Sizes' = sz /\ conns' = c /\ offsets' = off /\ torn' = tn
  BY DEF Lines!NoDirectory, Sizes
<1>3. PICK e, q, N : e = stream' /\ q = poller' /\ N = tick' /\ N = Lines!NoTick
  BY DEF Lines!NoDirectory
<1>4. N \in Ticks /\ N.at = "idle" /\ N.rows = <<>> /\ ~Scans(N) /\ \A u : RowsOf(N, u) = <<>>
  BY <1>3, NoTickIs
<1>5. t.at = "readdir" /\ ~Scans(t) /\ t.rows = <<>>
  BY <1>1 DEF Lines!NoDirectory, Scans, TailOK, TailTypes
<1>6. q \in Pollers /\ q.timer = p.timer /\ q.dir = p.dir /\ q.init = TRUE /\ p.init \in BOOLEAN
  <2>1. p \in Pollers
    BY <1>1 DEF TailOK, TailTypes
  <2>2. q = [p EXCEPT !.init = TRUE, !.errors = 0]
    BY <1>3 DEF Lines!NoDirectory
  <2> QED BY <2>1, <2>2 DEF Pollers
<1>7. StreamList(st)
  BY <1>1 DEF TailOK, TailTypes
<1>8. /\ StreamList(e) /\ DOMAIN e = DOMAIN st /\ Same(st, e)
      /\ \A s \in DOMAIN st : /\ e[s].user = st[s].user /\ e[s].sent = st[s].sent /\ e[s].more = st[s].more
                              /\ e[s].base = st[s].base /\ (st[s].odd => e[s].odd)
                              /\ e[s].odd \/ p.init \/ Lines!OnDisk = {}
  <2>1. CASE Lines!OnDisk = {} /\ e = st
    <3>1. Same(st, e)
      BY <2>1, <1>7 DEF Same
    <3> QED BY <2>1, <3>1, <1>7
  <2>2. CASE e = Lines!Odd(~p.init)
    <3>1. (~p.init) \in BOOLEAN
      BY <1>6
    <3>2. /\ StreamList(e) /\ DOMAIN e = DOMAIN st /\ Same(st, e)
          /\ \A s \in DOMAIN st : /\ e[s].user = st[s].user /\ e[s].sent = st[s].sent /\ e[s].more = st[s].more
                                  /\ e[s].base = st[s].base /\ (e[s].odd <=> st[s].odd \/ ~p.init)
      BY <2>2, <3>1, <1>7, OddIs
    <3> QED BY <3>2
  <2> QED BY <2>1, <2>2, <1>3 DEF Lines!NoDirectory
<1>9. \A s \in DOMAIN st : Live(c, e, s) => Live(c, st, s) /\ (p.init \/ Lines!OnDisk = {})
  BY <1>8 DEF Live
<1>10. TailTypes(sz, c, e, q, off, N) /\ TickReads(sz, q, off, N, tn)
  BY <1>1, <1>4, <1>6, <1>8 DEF TailOK, TailTypes, TickReads
<1>11. Served(c, e, q)
  <2>1. Served(c, st, p)
    BY <1>1 DEF TailOK
  <2> QED BY <2>1, <1>6, <1>8, ServedStays
<1>12. BaseIsOld(sz, c, e, q, off, N)
  <2>1. \A s \in DOMAIN e : e[s].base = st[s].base /\ e[s].base \subseteq Lines!UpTo(sz)
    BY <1>1, <1>8 DEF TailOK, BaseIsOld
  <2>2. Lines!OnDisk = Lines!UpTo(sz)
    BY DEF Lines!OnDisk, Sizes
  <2>3. ASSUME p.dir, NEW s \in DOMAIN e, Live(c, e, s), NEW a \in e[s].base PROVE off[a[1]] # -1 /\ a[2] <= off[a[1]]
    <3>1. p.init /\ s \in DOMAIN st /\ Live(c, st, s) /\ a \in st[s].base
      BY <2>1, <2>2, <2>3, <1>8, <1>9
    <3> QED BY <2>3, <3>1, <1>1 DEF TailOK, BaseIsOld
  <2> QED BY <2>1, <2>3, <1>6 DEF BaseIsOld
<1>13. Exact(c, e, q, off, N, tn)
  <2> SUFFICES ASSUME p.dir, NEW s \in DOMAIN e, Live(c, e, s)
               PROVE  Sound(Owed(e, off, tn, s), e[s].sent, e[s].more, <<>>)
    BY <1>4, <1>6 DEF Exact
  <2>1. Sound(Owed(st, off, tn, s), st[s].sent, st[s].more, RowsOf(t, st[s].user))
    BY <1>1, <1>8, <1>9 DEF TailOK, Exact
  <2>2. RowsOf(t, st[s].user) = <<>> /\ Owed(e, off, tn, s) = Owed(st, off, tn, s)
    BY <1>5, <1>8 DEF RowsOf, Owed
  <2> QED BY <2>1, <2>2, <1>8
<1>14. Fresh(c, e, q, off, N)
  BY <1>1, <1>4, <1>6, <1>8, <1>9 DEF TailOK, Fresh
<1> QED BY <1>2, <1>3, <1>4, <1>10, <1>11, <1>12, <1>13, <1>14 DEF TailInv, TailOK

\* A list with one more entry.
LEMMA AppendedIs ==
  ASSUME NEW st, StreamList(st), NEW x \in StreamRecs
  PROVE  /\ StreamList(Append(st, x)) /\ Len(st) + 1 \in DOMAIN Append(st, x) /\ Append(st, x)[Len(st) + 1] = x
         /\ DOMAIN Append(st, x) = DOMAIN st \cup {Len(st) + 1}
         /\ \A s \in DOMAIN st : Append(st, x)[s] = st[s] /\ s < Len(st) + 1 /\ s # 0 /\ s \in Nat
         /\ Len(st) + 1 \in Nat /\ Len(st) + 1 # 0 /\ Len(st) + 1 \notin DOMAIN st
<1>1. st \in Seq(StreamRecs)
  BY DEF StreamList
<1>2. /\ Append(st, x) \in Seq(StreamRecs) /\ Len(st) \in Nat
      /\ DOMAIN st = 1..Len(st) /\ DOMAIN Append(st, x) = 1..(Len(st) + 1)
      /\ \A i \in 1..Len(st) : Append(st, x)[i] = st[i]
      /\ Append(st, x)[Len(st) + 1] = x
  BY <1>1, AppendIs
<1> PICK n \in Nat : n = Len(st)
  BY <1>2
<1>3. /\ 1..(n + 1) = 1..n \cup {n + 1} /\ n + 1 \notin 1..n /\ n + 1 # 0
      /\ \A s \in 1..n : s < n + 1 /\ s # 0 /\ s \in Nat
  OBVIOUS
<1> QED BY <1>2, <1>3 DEF StreamList

LEMMA SpotsRead ==
  ASSUME NEW off \in [Lines!Files -> Int]
  PROVE  Lines!UpTo(off) \subseteq Spots
<1>1. \A q \in Lines!UpTo(off) : q = <<q[1], q[2]>> /\ q[1] \in Lines!Files /\ q[2] \in Int
  BY InUpTo
<1> QED BY <1>1 DEF Spots

\* A stream is opened.
LEMMA OpenKeeps == ASSUME TailInv, NEW u \in Viewers, Lines!Open(u) PROVE TailInv'
<1> PICK sz, c, st, p, off, t, tn : sz = Sizes /\ c = conns /\ st = stream /\ p = poller /\ off = offsets /\ t = tick /\ tn = torn
  OBVIOUS
<1>1. TailOK(sz, c, st, p, off, t, tn) /\ (Scans(t) => t.todo # {})
  BY DEF TailInv
<1>2. Sizes' = sz /\ offsets' = off /\ torn' = tn /\ tick' = t
  BY DEF Lines!Open, Sizes
<1>3. PICK k, e, q : k = conns' /\ e = stream' /\ q = poller'
  OBVIOUS
<1>4. /\ sz \in [Lines!Files -> Nat] /\ c \in [Viewers -> Nat] /\ StreamList(st) /\ p \in Pollers
      /\ off \in [Lines!Files -> Int] /\ \A f \in Lines!Files : off[f] <= sz[f]
  BY <1>1 DEF TailOK, TailTypes
<1>5. PICK n : n = Len(st) + 1
  OBVIOUS
<1> DEFINE x == [user |-> u, open |-> TRUE, told |-> FALSE, sent |-> <<>>, more |-> 0,
                 base |-> IF p.timer THEN Lines!UpTo(off) ELSE Lines!UpTo(sz),
                 odd |-> \/ u \in DOMAIN t.rows
                         \/ ~p.timer /\ p.dir
                         \/ \E r \in {r \in 1..Len(st) : st[r].user = u} : st[r].open]
<1>6. /\ c[u] = 0 /\ k = [c EXCEPT ![u] = n] /\ e = Append(st, x)
      /\ q = IF p.timer THEN p ELSE [p EXCEPT !.timer = TRUE, !.errors = 0]
  BY <1>3, <1>5 DEF Lines!Open, Lines!Read, Lines!OnDisk, Sizes
<1>7. Lines!UpTo(off) \subseteq Spots /\ Lines!UpTo(sz) \subseteq Spots /\ Lines!UpTo(off) \subseteq Lines!UpTo(sz)
  <2>1. sz \in [Lines!Files -> Int]
    BY <1>4
  <2>2. \A a \in Lines!UpTo(off) : a = <<a[1], a[2]>> /\ a[1] \in Lines!Files /\ a[2] \in 1..off[a[1]]
    BY <1>4, InUpTo
  <2>3. \A f \in Lines!Files : \A i \in 1..sz[f] : <<f, i>> \in Lines!UpTo(sz)
    BY <2>1, InUpTo
  <2>4. \A f \in Lines!Files : \A i \in 1..off[f] : i \in 1..sz[f]
    BY <1>4
  <2>5. Lines!UpTo(off) \subseteq Lines!UpTo(sz)
    BY <2>2, <2>3, <2>4
  <2> QED BY <2>1, <2>5, <1>4, SpotsRead
<1>8. /\ x \in StreamRecs /\ x.user = u /\ x.open = TRUE /\ x.told = FALSE /\ x.sent = <<>> /\ x.more = 0
      /\ x.base = IF p.timer THEN Lines!UpTo(off) ELSE Lines!UpTo(sz)
      /\ x.odd <=> \/ u \in DOMAIN t.rows
                   \/ ~p.timer /\ p.dir
                   \/ \E r \in DOMAIN st : st[r].user = u /\ st[r].open
  <2>1. DOMAIN st = 1..Len(st)
    BY <1>4, StreamsAre
  <2>2. <<>> \in Seq(Spots) /\ x.base \in SUBSET Spots /\ x.odd \in BOOLEAN
    BY <1>7
  <2> QED BY <2>1, <2>2 DEF StreamRecs
<1> HIDE DEF x
<1>9. /\ StreamList(e) /\ n \in DOMAIN e /\ e[n] = x /\ DOMAIN e = DOMAIN st \cup {n}
      /\ \A s \in DOMAIN st : e[s] = st[s] /\ s < n /\ s # 0 /\ s \in Nat
      /\ n \in Nat /\ n # 0 /\ n \notin DOMAIN st
  BY <1>4, <1>5, <1>6, <1>8, AppendedIs
<1>10. q \in Pollers /\ q.timer = TRUE /\ q.dir = p.dir /\ q.init = p.init
  BY <1>4, <1>6 DEF Pollers
<1>11. k \in [Viewers -> Nat] /\ k[u] = n /\ \A v \in Viewers : v # u => k[v] = c[v]
  BY <1>4, <1>6, <1>9
<1>12. \A s \in DOMAIN st : st[s].user \in Viewers /\ st[s] \in StreamRecs
  <2>1. \A s \in DOMAIN st : st[s] \in StreamRecs
    BY <1>4, StreamsAre
  <2> QED BY <2>1 DEF StreamRecs
<1>13. \A s \in DOMAIN st : Live(k, e, s) => Live(c, st, s)
  BY <1>9, <1>11, <1>12 DEF Live
<1>14. TailTypes(sz, k, e, q, off, t)
  BY <1>1, <1>9, <1>10, <1>11 DEF TailOK, TailTypes
<1>15. Served(k, e, q)
  <2>0. Served(c, st, p)
    BY <1>1 DEF TailOK
  <2>1. ASSUME NEW v \in Viewers, k[v] # 0
        PROVE  k[v] \in DOMAIN e /\ e[k[v]].user = v /\ q.timer /\ \A r \in DOMAIN e : e[r].user = v => r <= k[v]
    <3>1. CASE v = u
      BY <3>1, <1>8, <1>9, <1>10, <1>11
    <3>2. CASE v # u
      <4>1. k[v] = c[v] /\ c[v] # 0
        BY <2>1, <3>2, <1>11
      <4>2. c[v] \in DOMAIN st /\ st[c[v]].user = v /\ \A r \in DOMAIN st : st[r].user = v => r <= c[v]
        BY <4>1, <2>0 DEF Served
      <4> QED BY <3>2, <4>1, <4>2, <1>8, <1>9, <1>10
    <3> QED BY <3>1, <3>2
  <2>2. ASSUME NEW r \in DOMAIN e, NEW s \in DOMAIN e, r < s, e[r].open, e[s].open, e[r].user = e[s].user
        PROVE  e[s].odd
    <3>1. r \in DOMAIN st
      <4>1. CASE r = n
        BY <4>1, <2>2, <1>9
      <4> QED BY <4>1, <1>9
    <3>2. CASE s = n
      BY <2>2, <3>1, <3>2, <1>8, <1>9
    <3>3. CASE s # n
      BY <2>0, <2>2, <3>1, <3>3, <1>9 DEF Served
    <3> QED BY <3>2, <3>3
  <2>3. ASSUME NEW s \in DOMAIN e, e[s].open, ~e[s].told, ~e[s].odd PROVE k[e[s].user] = s /\ q.timer
    <3>1. CASE s = n
      BY <3>1, <1>8, <1>9, <1>10, <1>11
    <3>2. CASE s # n
      <4>1. s \in DOMAIN st /\ e[s] = st[s] /\ c[st[s].user] = s
        BY <2>0, <2>3, <3>2, <1>9 DEF Served
      <4>2. st[s].user # u
        BY <4>1, <1>6, <1>9
      <4> QED BY <4>1, <4>2, <1>10, <1>11, <1>12
    <3> QED BY <3>1, <3>2
  <2> QED BY <2>1, <2>2, <2>3 DEF Served
<1>16. TickReads(sz, q, off, t, tn)
  BY <1>1, <1>10 DEF TailOK, TickReads
<1>17. Live(k, e, n) => u \notin DOMAIN t.rows /\ (p.timer \/ ~p.dir)
  BY <1>8, <1>9 DEF Live
<1>18. BaseIsOld(sz, k, e, q, off, t)
  <2>1. ASSUME NEW s \in DOMAIN e PROVE e[s].base \subseteq Lines!UpTo(sz)
    <3>1. CASE s = n
      BY <3>1, <1>7, <1>8, <1>9
    <3>2. CASE s # n
      BY <3>2, <1>1, <1>9 DEF TailOK, BaseIsOld
    <3> QED BY <3>1, <3>2
  <2>2. ASSUME q.dir, NEW s \in DOMAIN e, Live(k, e, s), NEW a \in e[s].base
        PROVE  /\ off[a[1]] # -1 => a[2] <= off[a[1]]
               /\ off[a[1]] = -1 => ~q.init /\ (Scans(t) => a[1] \in t.todo)
    <3>1. CASE s = n
      <4>1. a \in Lines!UpTo(off)
        BY <2>2, <3>1, <1>8, <1>9, <1>10, <1>17
      <4>2. a[1] \in Lines!Files /\ a[2] \in 1..off[a[1]] /\ off[a[1]] \in Int
        BY <4>1, <1>4, InUpTo
      <4>3. a[2] <= off[a[1]] /\ off[a[1]] # -1
        BY <4>2
      <4> QED BY <4>3
    <3>2. CASE s # n
      <4>1. s \in DOMAIN st /\ Live(c, st, s) /\ a \in st[s].base /\ p.dir
        BY <2>2, <3>2, <1>9, <1>10, <1>13
      <4> QED BY <4>1, <1>1, <1>10 DEF TailOK, BaseIsOld
    <3> QED BY <3>1, <3>2
  <2> QED BY <2>1, <2>2 DEF BaseIsOld
<1>19. Exact(k, e, q, off, t, tn)
  <2> SUFFICES ASSUME p.dir, NEW s \in DOMAIN e, Live(k, e, s)
               PROVE  /\ Sound(Owed(e, off, tn, s), e[s].sent, e[s].more, RowsOf(t, e[s].user))
                      /\ Scans(t) => Shared(t, e[s].user, Owed(e, off, tn, s))
    BY <1>10 DEF Exact
  <2>1. CASE s = n
    <3>1. Owed(e, off, tn, s) = {} /\ RowsOf(t, e[s].user) = <<>> /\ u \notin DOMAIN t.rows
      BY <2>1, <1>8, <1>9, <1>17 DEF Owed, RowsOf
    <3> QED BY <2>1, <3>1, <1>8, <1>9, NothingOwed DEF Shared
  <2>2. CASE s # n
    <3>1. s \in DOMAIN st /\ Live(c, st, s) /\ e[s] = st[s]
      BY <2>2, <1>9, <1>13
    <3>2. Owed(e, off, tn, s) = Owed(st, off, tn, s)
      BY <3>1 DEF Owed
    <3> QED BY <3>1, <3>2, <1>1 DEF TailOK, Exact
  <2> QED BY <2>1, <2>2
<1>20. Fresh(k, e, q, off, t)
  <2>1. ASSUME ~q.dir, NEW s \in DOMAIN e, Live(k, e, s)
        PROVE  /\ e[s].sent = <<>> /\ e[s].more = 0
               /\ Scans(t) /\ e[s].user \in DOMAIN t.rows =>
                    /\ t.at = "stat" /\ t.first /\ t.rows[e[s].user] = <<>>
                    /\ \A f \in t.todo : off[f] = -1
    <3>1. CASE s = n
      BY <2>1, <3>1, <1>8, <1>9, <1>17
    <3>2. CASE s # n
      BY <2>1, <3>2, <1>1, <1>9, <1>10, <1>13 DEF TailOK, Fresh
    <3> QED BY <3>1, <3>2
  <2> QED BY <2>1, <1>1, <1>10 DEF TailOK, Fresh
<1> QED BY <1>1, <1>2, <1>3, <1>14, <1>15, <1>16, <1>18, <1>19, <1>20 DEF TailInv, TailOK

\* What a scan has found of a stream's file: an operator for the state before the
\* tick goes on.
LEMMA SkippingIs ==
  ASSUME StreamList(stream), NEW f \in Lines!Files, Len(logFiles[f]) \in Nat
  PROVE  /\ StreamList(Lines!Skipping(f)) /\ DOMAIN Lines!Skipping(f) = DOMAIN stream
         /\ Same(stream, Lines!Skipping(f))
         /\ \A s \in DOMAIN stream :
              /\ Lines!Skipping(f)[s].user = stream[s].user /\ Lines!Skipping(f)[s].sent = stream[s].sent
              /\ Lines!Skipping(f)[s].more = stream[s].more
              /\ Lines!Skipping(f)[s].base = stream[s].base \cup Between(f, 0, Len(logFiles[f]))
              /\ Lines!Skipping(f)[s].odd = stream[s].odd
<1> DEFINE e == Lines!Skipping(f)
           X == {<<f, i>> : i \in 1..Len(logFiles[f])}
<1>1. DOMAIN stream = 1..Len(stream) /\ \A s \in DOMAIN stream : stream[s] \in StreamRecs
  BY StreamsAre
<1>2. X = Between(f, 0, Len(logFiles[f])) /\ X \subseteq Spots
  BY DEF Between, Spots
<1>3. e = [s \in DOMAIN stream |-> [stream[s] EXCEPT !.base = @ \cup X]]
  BY <1>1 DEF Lines!Skipping
<1> HIDE DEF e, X
<1>4. \A s \in DOMAIN stream :
        /\ e[s] \in StreamRecs
        /\ e[s].user = stream[s].user /\ e[s].sent = stream[s].sent /\ e[s].more = stream[s].more
        /\ e[s].base = stream[s].base \cup X /\ e[s].open = stream[s].open /\ e[s].told = stream[s].told
        /\ e[s].odd = stream[s].odd
  <2> SUFFICES ASSUME NEW s \in DOMAIN stream
               PROVE  /\ e[s] \in StreamRecs
                      /\ e[s].user = stream[s].user /\ e[s].sent = stream[s].sent /\ e[s].more = stream[s].more
                      /\ e[s].base = stream[s].base \cup X /\ e[s].open = stream[s].open
                      /\ e[s].told = stream[s].told /\ e[s].odd = stream[s].odd
    OBVIOUS
  <2>1. PICK x \in StreamRecs : x = stream[s]
    BY <1>1
  <2>2. e[s] = [x EXCEPT !.base = @ \cup X]
    BY <1>3, <2>1
  <2>3. x.base \cup X \in SUBSET Spots
    BY <1>2 DEF StreamRecs
  <2> QED BY <2>1, <2>2, <2>3 DEF StreamRecs
<1>5. e \in [DOMAIN stream -> StreamRecs]
  BY <1>3, <1>4
<1>6. StreamList(e) /\ DOMAIN e = DOMAIN stream
  BY <1>5, StreamsMap
<1>7. Same(stream, e)
  BY <1>4, <1>6 DEF Same
<1> QED BY <1>2, <1>4, <1>6, <1>7 DEF e

\* A file has nothing new, or is skipped to its end.
LEMMA StatSkips ==
  ASSUME TailInv, Lines!Stat, NEW st, NEW from, NEW f, f = Lines!Current,
         from = IF offsets[f] = -1 THEN Lines!Sighted(f) ELSE offsets[f],
         from = Len(logFiles[f]),
         st = IF offsets[f] = -1 /\ tick.first THEN Lines!Skipping(f) ELSE stream
  PROVE  TailOK(Sizes, conns, st, poller, [offsets EXCEPT ![f] = from], Onward(f, tick.rows), torn)
<1> PICK sz, c, s0, p, off, t, tn : sz = Sizes /\ c = conns /\ s0 = stream /\ p = poller /\ off = offsets /\ t = tick /\ tn = torn
  OBVIOUS
<1>1. TailOK(sz, c, s0, p, off, t, tn) /\ t.at = "stat" /\ Scans(t) /\ t.todo # {}
  BY DEF TailInv, Lines!Stat, Scans
<1>2. /\ t \in Ticks /\ StreamList(s0) /\ t.first \in BOOLEAN /\ t.rows \in RowLists /\ p.init \in BOOLEAN
      /\ sz \in [Lines!Files -> Nat] /\ off \in [Lines!Files -> Int]
      /\ \A g \in Lines!Files : -1 <= off[g] /\ off[g] <= sz[g]
      /\ t.todo \in SUBSET Lines!Files
  BY <1>1 DEF TailOK, TailTypes, Ticks, Pollers
<1>3. f \in t.todo /\ f \in Lines!Files
  BY <1>1, <1>2, FirstIs, CurrentIsFirst
<1>4. sz[f] = Len(logFiles[f]) /\ from = sz[f] /\ from \in Nat
  BY <1>2, <1>3 DEF Sizes
<1>5. PICK new, u : new = [off EXCEPT ![f] = from] /\ u = Onward(f, t.rows)
  OBVIOUS
<1>6. u \in Ticks /\ u.at = "stat" /\ Scans(u) /\ u.todo = t.todo \ {f} /\ u.rows = t.rows /\ u.first = t.first
  BY <1>2, <1>5, OnwardIs
<1>7. new \in [Lines!Files -> Int] /\ new[f] = from /\ \A g \in Lines!Files : g # f => new[g] = off[g]
  BY <1>2, <1>3, <1>4, <1>5
\* The new base of a stream, and what was read.
<1>8. PICK X : X = IF off[f] = -1 /\ t.first THEN Between(f, 0, from) ELSE {}
  OBVIOUS
<1>9. Lines!UpTo(new) = Lines!UpTo(off) \cup X /\ X \cap Lines!UpTo(off) = {}
  <2>1. CASE off[f] = -1 /\ t.first
    <3>1. ReadOn(off, new, f, 0, from)
      <4>1. 0 \in Nat /\ from \in Int /\ 0 <= from
        BY <1>4
      <4> QED BY <4>1, <2>1, <1>2, <1>3, <1>5 DEF ReadOn
    <3> QED BY <2>1, <3>1, <1>8, ReadMoves
  <2>2. CASE off[f] = -1 /\ ~t.first
    <3>1. from = 0
      BY <2>2 DEF Lines!Sighted
    <3>4. ReadOn(off, new, f, 0, 0)
      BY <2>2, <3>1, <1>2, <1>3, <1>5 DEF ReadOn
    <3>2. Lines!UpTo(new) = Lines!UpTo(off) \cup Between(f, 0, 0)
      BY <3>4, ReadMoves
    <3>3. Between(f, 0, 0) = {}
      BY DEF Between
    <3> QED BY <2>2, <3>2, <3>3, <1>8
  <2>3. CASE off[f] # -1
    <3>1. new = off
      BY <2>3, <1>2, <1>3, <1>5
    <3> QED BY <2>3, <3>1, <1>8
  <2> QED BY <2>1, <2>2, <2>3
<1>10. X \subseteq Lines!UpTo(sz)
  <2>1. sz \in [Lines!Files -> Int]
    BY <1>2
  <2>2. \A i \in 1..sz[f] : <<f, i>> \in Lines!UpTo(sz)
    BY <2>1, <1>3, InUpTo
  <2>3. (0 + 1)..from = 1..sz[f]
    BY <1>4
  <2>4. ASSUME NEW q \in Between(f, 0, from) PROVE q \in Lines!UpTo(sz)
    <3>1. PICK i \in (0 + 1)..from : q = <<f, i>>
      BY DEF Between
    <3> QED BY <3>1, <2>2, <2>3
  <2> QED BY <2>4, <1>8
<1>11. /\ StreamList(st) /\ DOMAIN st = DOMAIN s0 /\ Same(s0, st)
       /\ \A s \in DOMAIN s0 : /\ st[s].user = s0[s].user /\ st[s].sent = s0[s].sent /\ st[s].more = s0[s].more
                               /\ st[s].base = s0[s].base \cup X /\ st[s].odd = s0[s].odd
  <2>1. CASE off[f] = -1 /\ t.first
    <3>1. st = Lines!Skipping(f) /\ X = Between(f, 0, Len(logFiles[f])) /\ Len(logFiles[f]) \in Nat
      BY <2>1, <1>4, <1>8
    <3> QED BY <3>1, <1>2, <1>3, SkippingIs
  <2>2. CASE ~(off[f] = -1 /\ t.first)
    <3>1. st = s0 /\ X = {}
      BY <2>2, <1>8
    <3> QED BY <3>1, <1>2 DEF Same
  <2> QED BY <2>1, <2>2
<1>12. \A s \in DOMAIN s0 : Live(c, st, s) <=> Live(c, s0, s)
  BY <1>11 DEF Live
<1>13. TailTypes(sz, c, st, p, new, u)
  <2>1. ASSUME NEW g \in Lines!Files PROVE -1 <= new[g] /\ new[g] <= sz[g]
    <3>1. CASE g = f
      <4>1. -1 <= from /\ from <= sz[f]
        BY <1>4
      <4> QED BY <3>1, <4>1, <1>7
    <3>2. CASE g # f
      BY <3>2, <1>2, <1>7
    <3> QED BY <3>1, <3>2
  <2> QED BY <2>1, <1>1, <1>6, <1>7, <1>11 DEF TailOK, TailTypes
<1>14. Served(c, st, p)
  <2>1. Served(c, s0, p)
    BY <1>1 DEF TailOK
  <2> QED BY <2>1, <1>11 DEF Served, Same
<1>15. TickReads(sz, p, new, u, tn)
  BY <1>1, <1>6, <1>9 DEF TailOK, TickReads
<1>16. BaseIsOld(sz, c, st, p, new, u)
  <2>1. \A s \in DOMAIN st : st[s].base \subseteq Lines!UpTo(sz)
    BY <1>1, <1>10, <1>11 DEF TailOK, BaseIsOld
  <2>2. ASSUME p.dir, NEW s \in DOMAIN st, Live(c, st, s), NEW q \in st[s].base
        PROVE  /\ new[q[1]] # -1 => q[2] <= new[q[1]]
               /\ new[q[1]] = -1 => ~p.init /\ q[1] \in u.todo
    <3>1. s \in DOMAIN s0 /\ Live(c, s0, s)
      BY <2>2, <1>11, <1>12
    <3>2. q \in Lines!UpTo(sz) /\ sz \in [Lines!Files -> Int]
      BY <2>1, <2>2, <1>2
    <3>3. q[1] \in Lines!Files /\ q[2] \in 1..sz[q[1]]
      BY <3>2, InUpTo
    <3>4. CASE q[1] = f
      <4>1. q[2] <= new[f] /\ new[f] # -1
        BY <3>3, <3>4, <1>4, <1>7
      <4> QED BY <3>4, <4>1
    <3>5. CASE q[1] # f
      <4>1. new[q[1]] = off[q[1]]
        BY <3>3, <3>5, <1>7
      <4>2. q \in s0[s].base
        <5>1. q \notin X
          BY <3>5, <1>8 DEF Between
        <5> QED BY <5>1, <3>1, <2>2, <1>11
      <4> QED BY <2>2, <3>1, <3>5, <4>1, <4>2, <1>1, <1>6 DEF TailOK, BaseIsOld
    <3> QED BY <3>4, <3>5
  <2> QED BY <2>1, <2>2 DEF BaseIsOld
<1>17. Exact(c, st, p, new, u, tn)
  <2> SUFFICES ASSUME p.dir, NEW s \in DOMAIN st, Live(c, st, s)
               PROVE  /\ Sound(Owed(st, new, tn, s), st[s].sent, st[s].more, RowsOf(u, st[s].user))
                      /\ Shared(u, st[s].user, Owed(st, new, tn, s))
    BY DEF Exact
  <2>1. s \in DOMAIN s0 /\ Live(c, s0, s)
    BY <1>11, <1>12
  <2>2. Owed(st, new, tn, s) = Owed(s0, off, tn, s)
    BY <2>1, <1>9, <1>11 DEF Owed
  <2>3. RowsOf(u, st[s].user) = RowsOf(t, s0[s].user)
    BY <2>1, <1>6, <1>11 DEF RowsOf
  <2>4. /\ Sound(Owed(s0, off, tn, s), s0[s].sent, s0[s].more, RowsOf(t, s0[s].user))
        /\ Shared(t, s0[s].user, Owed(s0, off, tn, s))
    BY <2>1, <1>1 DEF TailOK, Exact
  <2>5. Shared(u, st[s].user, Owed(s0, off, tn, s))
    BY <2>1, <2>4, <1>6, <1>11 DEF Shared
  <2> QED BY <2>1, <2>2, <2>3, <2>4, <2>5, <1>11
<1>18. Fresh(c, st, p, new, u)
  <2>1. \A g \in u.todo : new[g] = off[g] /\ g \in t.todo
    BY <1>2, <1>6, <1>7
  <2> QED BY <2>1, <1>1, <1>6, <1>11, <1>12 DEF TailOK, Fresh
<1>19. TailOK(sz, c, st, p, new, u, tn)
  BY <1>13, <1>14, <1>15, <1>16, <1>17, <1>18 DEF TailOK
<1> QED BY <1>5, <1>19

\* A file is looked at.
LEMMA StatKeeps == ASSUME TailInv, Lines!Stat PROVE TailInv'
<1> PICK sz, c, st, p, off, t, tn, f : sz = Sizes /\ c = conns /\ st = stream /\ p = poller /\ off = offsets /\ t = tick /\ tn = torn /\ f = Lines!Current
  OBVIOUS
<1>1. PICK from : from = IF offsets[f] = -1 THEN Lines!Sighted(f) ELSE offsets[f]
  OBVIOUS
<1>2. TailOK(sz, c, st, p, off, t, tn) /\ t.at = "stat" /\ Scans(t) /\ t.todo # {} /\ t.at # "read"
  BY DEF TailInv, Lines!Stat, Scans
<1>3. /\ offsets' = [off EXCEPT ![f] = from] /\ UNCHANGED <<logFiles, conns, torn>>
      /\ \/ /\ Len(logFiles[f]) > from
            /\ tick' = [t EXCEPT !.at = "read", !.from = from, !.size = Len(logFiles[f])]
            /\ stream' = st /\ poller' = p
         \/ /\ Len(logFiles[f]) = from
            /\ Lines!Continue(tick.rows, IF off[f] = -1 /\ tick.first THEN Lines!Skipping(f) ELSE stream)
  BY <1>1 DEF Lines!Stat, Lines!Unseen
<1>4. CASE Len(logFiles[f]) = from
  <2>1. PICK e, new, r : /\ e = IF off[f] = -1 /\ tick.first THEN Lines!Skipping(f) ELSE stream
                         /\ new = [off EXCEPT ![f] = from] /\ r = tick.rows
    OBVIOUS
  <2>2. Lines!Continue(r, e)
    BY <1>3, <1>4, <2>1 DEF Lines!Continue
  <2>3. TailOK(Sizes, conns, e, poller, [offsets EXCEPT ![f] = from], Onward(f, tick.rows), torn)
    BY <1>1, <1>4, <2>1, StatSkips
  <2>4. r \in RowLists
    BY <1>2, <2>1 DEF TailOK, TailTypes, Ticks
  <2>5. TailOK(Sizes, conns, e, poller, new, Onward(Lines!Current, r), tn) /\ Scans(tick) /\ offsets' = new /\ torn' = tn
    BY <1>2, <1>3, <2>1, <2>3
  <2> QED BY <1>3, <2>2, <2>4, <2>5, ContinueKeeps
<1>5. CASE Len(logFiles[f]) > from
  <2>1. /\ t \in Ticks /\ t.first \in BOOLEAN /\ p.init \in BOOLEAN /\ t.todo \in SUBSET Lines!Files
        /\ sz \in [Lines!Files -> Nat] /\ off \in [Lines!Files -> Int]
        /\ \A g \in Lines!Files : -1 <= off[g] /\ off[g] <= sz[g]
    BY <1>2 DEF TailOK, TailTypes, Ticks, Pollers
  <2>2. f \in t.todo /\ f \in Lines!Files /\ f = First(t.todo)
    BY <1>2, <2>1, FirstIs, CurrentIsFirst
  <2>3. sz[f] = Len(logFiles[f]) /\ sz[f] \in Nat
    BY <2>1, <2>2 DEF Sizes
  <2>4. from \in Nat /\ from < sz[f] /\ (off[f] = -1 => ~t.first /\ from = 0) /\ (off[f] # -1 => from = off[f])
    <3>1. CASE off[f] = -1
      <4>1. from = IF t.first THEN sz[f] ELSE 0
        BY <3>1, <1>1, <2>3 DEF Lines!Sighted
      <4> QED BY <4>1, <3>1, <1>5, <2>3
    <3>2. CASE off[f] # -1
      <4>1. from = off[f] /\ off[f] \in Int /\ -1 <= off[f]
        BY <3>2, <1>1, <2>1, <2>2
      <4> QED BY <4>1, <3>2, <1>5, <2>3
    <3> QED BY <3>1, <3>2
  <2>5. PICK new, u : new = offsets' /\ u = tick'
    OBVIOUS
  <2>6. /\ u = [t EXCEPT !.at = "read", !.from = from, !.size = sz[f]]
        /\ stream' = st /\ poller' = p /\ conns' = c /\ torn' = tn /\ Sizes' = sz
    <3>1. ~(Len(logFiles[f]) = from)
      BY <1>5, <2>3, <2>4
    <3>2. tick' = [t EXCEPT !.at = "read", !.from = from, !.size = sz[f]] /\ stream' = st /\ poller' = p
      BY <3>1, <1>3, <2>3
    <3>3. Sizes' = sz
      BY <1>3 DEF Sizes
    <3> QED BY <3>2, <3>3, <2>5, <1>3
  <2>7. /\ u \in Ticks /\ u.at = "read" /\ Scans(u) /\ u.todo = t.todo /\ u.rows = t.rows /\ (u.first = t.first)
        /\ u.from = from /\ u.size = sz[f]
    <3>1. from \in Int /\ sz[f] \in Int
      BY <2>3, <2>4
    <3> QED BY <3>1, <2>1, <2>6 DEF Ticks, Scans
  <2>8. new \in [Lines!Files -> Int] /\ new[f] = from /\ \A g \in Lines!Files : g # f => new[g] = off[g]
    <3>1. new = [off EXCEPT ![f] = from]
      BY <1>3, <2>5
    <3> QED BY <3>1, <2>1, <2>2, <2>4
  <2>9. Lines!UpTo(new) = Lines!UpTo(off)
    <3>1. Between(f, from, from) = {}
      BY <2>4 DEF Between
    <3>2. new = [off EXCEPT ![f] = from]
      BY <1>3, <2>5
    <3>3. off[f] = from \/ (off[f] = -1 /\ from = 0)
      BY <2>4
    <3>4. ReadOn(off, new, f, from, from)
      BY <3>2, <3>3, <2>1, <2>2, <2>4 DEF ReadOn
    <3>5. Lines!UpTo(new) = Lines!UpTo(off) \cup Between(f, from, from)
      BY <3>4, ReadMoves
    <3> QED BY <3>1, <3>5
  <2>10. TailTypes(sz, c, st, p, new, u)
    <3>1. ASSUME NEW g \in Lines!Files PROVE -1 <= new[g] /\ new[g] <= sz[g]
      <4>1. CASE g = f
        <5>1. -1 <= from /\ from <= sz[f]
          BY <2>3, <2>4
        <5> QED BY <4>1, <5>1, <2>8
      <4>2. CASE g # f
        BY <4>2, <2>1, <2>8
      <4> QED BY <4>1, <4>2
    <3> QED BY <3>1, <1>2, <2>7, <2>8 DEF TailOK, TailTypes
  <2>11. TickReads(sz, p, new, u, tn)
    BY <1>2, <2>2, <2>3, <2>4, <2>7, <2>8, <2>9 DEF TailOK, TickReads
  <2>12. BaseIsOld(sz, c, st, p, new, u)
    <3>1. ASSUME p.dir, NEW s \in DOMAIN st, Live(c, st, s), NEW q \in st[s].base
          PROVE  /\ new[q[1]] # -1 => q[2] <= new[q[1]]
                 /\ new[q[1]] = -1 => ~p.init /\ q[1] \in u.todo
      <4>1. /\ off[q[1]] # -1 => q[2] <= off[q[1]]
            /\ off[q[1]] = -1 => ~p.init /\ q[1] \in t.todo
        BY <3>1, <1>2 DEF TailOK, BaseIsOld
      <4>2. q[1] \in Lines!Files
        <5>1. q \in Lines!UpTo(sz) /\ sz \in [Lines!Files -> Int]
          BY <3>1, <1>2, <2>1 DEF TailOK, BaseIsOld
        <5> QED BY <5>1, InUpTo
      <4>3. CASE q[1] = f
        <5>1. t.first = ~p.init
          BY <3>1, <1>2 DEF TailOK, TickReads
        <5>2. off[f] # -1
          BY <4>1, <4>3, <5>1, <2>4, <2>1
        <5> QED BY <4>1, <4>3, <5>2, <2>4, <2>8
      <4>4. CASE q[1] # f
        BY <4>1, <4>2, <4>4, <2>7, <2>8
      <4> QED BY <4>3, <4>4
    <3> QED BY <3>1, <1>2 DEF TailOK, BaseIsOld
  <2>13. Exact(c, st, p, new, u, tn)
    <3>1. \A s : Owed(st, new, tn, s) = Owed(st, off, tn, s)
      BY <2>9 DEF Owed
    <3>2. \A v : RowsOf(u, v) = RowsOf(t, v)
      BY <2>7 DEF RowsOf
    <3>3. \A v, o : Shared(u, v, o) <=> Shared(t, v, o)
      BY <2>7 DEF Shared
    <3> QED BY <3>1, <3>2, <3>3, <1>2 DEF TailOK, Exact
  <2>14. Fresh(c, st, p, new, u)
    <3> SUFFICES ASSUME ~p.dir, NEW s \in DOMAIN st, Live(c, st, s)
                 PROVE  st[s].sent = <<>> /\ st[s].more = 0 /\ st[s].user \notin DOMAIN t.rows
      BY <2>7 DEF Fresh
    <3>1. /\ st[s].sent = <<>> /\ st[s].more = 0
          /\ st[s].user \in DOMAIN t.rows => t.first /\ \A g \in t.todo : off[g] = -1
      BY <1>2 DEF TailOK, Fresh
    <3> QED BY <3>1, <2>2, <2>4
  <2>15. TailOK(sz, c, st, p, new, u, tn)
    BY <2>10, <2>11, <2>12, <2>13, <2>14, <1>2 DEF TailOK
  <2> QED BY <2>5, <2>6, <2>7, <2>15, <1>2 DEF TailInv
<1>6. Len(logFiles[f]) = from \/ Len(logFiles[f]) > from
  BY <1>3
<1> QED BY <1>4, <1>5, <1>6

\* A file is being read: X is what is read of it, and new the offsets after.
Reads(f, new, X) ==
  /\ f \in tick.todo /\ f \in Lines!Files /\ f = Lines!Current
  /\ Distinct(Lines!Delta) /\ Lines!Range(Lines!Delta) = X
  /\ new \in [Lines!Files -> Int] /\ \A g \in Lines!Files : -1 <= new[g] /\ new[g] <= Sizes[g]
  /\ poller.dir => Lines!UpTo(new) = Lines!UpTo(offsets) \cup X /\ Lines!UpTo(offsets) \cap X = {}
  /\ poller.dir => \A s \in DOMAIN stream : Live(conns, stream, s) =>
       /\ stream[s].base \cap X = {}
       /\ \A q \in stream[s].base : /\ new[q[1]] # -1 => q[2] <= new[q[1]]
                                    /\ new[q[1]] = -1 => ~poller.init /\ q[1] \in tick.todo \ {f}

LEMMA ReadingIs ==
  ASSUME TailInv, tick.at = "read", NEW f, f = Lines!Current,
         NEW new, new = [offsets EXCEPT ![f] = tick.size]
  PROVE  Reads(f, new, Between(f, tick.from, tick.size))
<1> PICK sz, c, st, p, off, t, tn : sz = Sizes /\ c = conns /\ st = stream /\ p = poller /\ off = offsets /\ t = tick /\ tn = torn
  OBVIOUS
<1> PICK a, b : a = t.from /\ b = t.size
  OBVIOUS
<1>1. TailOK(sz, c, st, p, off, t, tn) /\ t.at = "read" /\ Scans(t) /\ t.todo # {}
  BY DEF TailInv, Scans
<1>2. /\ t \in Ticks /\ sz \in [Lines!Files -> Nat] /\ off \in [Lines!Files -> Int]
      /\ \A g \in Lines!Files : -1 <= off[g] /\ off[g] <= sz[g]
      /\ t.todo \in SUBSET Lines!Files /\ b \in Int
  BY <1>1 DEF TailOK, TailTypes, Ticks
<1>3. f \in t.todo /\ f \in Lines!Files /\ f = First(t.todo)
  BY <1>1, <1>2, FirstIs, CurrentIsFirst
<1>4. a \in Nat /\ b \in Nat /\ a < b /\ b <= sz[f] /\ (p.dir => off[f] = a)
  <2>1. a \in Nat /\ a < b /\ b <= sz[f] /\ (p.dir => off[f] = a)
    BY <1>1, <1>3 DEF TailOK, TickReads
  <2> QED BY <2>1, <1>2
<1>5. Distinct(Lines!Delta) /\ Lines!Range(Lines!Delta) = Between(f, a, b)
  <2>1. Lines!Delta = Span(f, a, b)
    BY DEF Lines!Delta, Span
  <2>2. a <= b
    BY <1>4
  <2> QED BY <2>1, <2>2, <1>3, <1>4, SpanIs
<1>6. new \in [Lines!Files -> Int] /\ new[f] = b /\ \A g \in Lines!Files : g # f => new[g] = off[g]
  BY <1>2, <1>3, <1>4
<1>7. ASSUME NEW g \in Lines!Files PROVE -1 <= new[g] /\ new[g] <= sz[g]
  <2>1. CASE g = f
    <3>1. -1 <= b /\ b <= sz[f]
      BY <1>4
    <3> QED BY <2>1, <3>1, <1>6
  <2>2. CASE g # f
    BY <2>2, <1>2, <1>6
  <2> QED BY <2>1, <2>2
<1>8. ASSUME p.dir
      PROVE  Lines!UpTo(new) = Lines!UpTo(off) \cup Between(f, a, b) /\ Lines!UpTo(off) \cap Between(f, a, b) = {}
  <2>1. a <= b /\ off[f] = a /\ new = [off EXCEPT ![f] = b] /\ b \in Int
    BY <1>4, <1>8
  <2>2. ReadOn(off, new, f, a, b)
    BY <2>1, <1>2, <1>3, <1>4 DEF ReadOn
  <2> QED BY <2>2, ReadMoves
<1>9. ASSUME p.dir, NEW s \in DOMAIN st, Live(c, st, s), NEW q \in st[s].base
      PROVE  /\ q \notin Between(f, a, b)
             /\ new[q[1]] # -1 => q[2] <= new[q[1]]
             /\ new[q[1]] = -1 => ~p.init /\ q[1] \in t.todo \ {f}
  <2>1. /\ off[q[1]] # -1 => q[2] <= off[q[1]]
        /\ off[q[1]] = -1 => ~p.init /\ q[1] \in t.todo
    BY <1>1, <1>9 DEF TailOK, BaseIsOld
  <2>2. q[1] \in Lines!Files /\ q[2] \in Int
    <3>1. q \in Lines!UpTo(sz) /\ sz \in [Lines!Files -> Int]
      BY <1>1, <1>2, <1>9 DEF TailOK, BaseIsOld
    <3> QED BY <3>1, InUpTo
  <2>3. CASE q[1] = f
    <3>1. q[2] <= a /\ new[q[1]] = b
      BY <2>1, <2>3, <1>4, <1>6, <1>9
    <3>2. q[2] \notin (a + 1)..b /\ q[2] <= b /\ b # -1
      BY <3>1, <2>2, <1>4
    <3>3. q \notin Between(f, a, b)
      BY <3>2 DEF Between
    <3> QED BY <3>1, <3>2, <3>3
  <2>4. CASE q[1] # f
    <3>1. q \notin Between(f, a, b)
      BY <2>4 DEF Between
    <3> QED BY <2>1, <2>2, <2>4, <3>1, <1>6
  <2> QED BY <2>3, <2>4
<1>10. ASSUME p.dir, NEW s \in DOMAIN st, Live(c, st, s) PROVE st[s].base \cap Between(f, a, b) = {}
  BY <1>9, <1>10
<1> QED BY <1>3, <1>5, <1>6, <1>7, <1>8, <1>9, <1>10 DEF Reads

\* The read fails: what was to be read is passed over.
LEMMA ReadFailsKeeps == ASSUME TailInv, Lines!ReadFails PROVE TailInv'
<1> PICK sz, c, st, p, off, t, tn, f : sz = Sizes /\ c = conns /\ st = stream /\ p = poller /\ off = offsets /\ t = tick /\ tn = torn /\ f = Lines!Current
  OBVIOUS
<1>1. TailOK(sz, c, st, p, off, t, tn) /\ t.at = "read" /\ Scans(t)
  BY DEF TailInv, Lines!ReadFails, Scans
<1>2. PICK new, r, X : new = [off EXCEPT ![f] = t.size] /\ r = t.rows /\ X = Between(f, t.from, t.size)
  OBVIOUS
<1>3. Reads(f, new, X)
  <2>1. tick.at = "read" /\ f = Lines!Current /\ new = [offsets EXCEPT ![f] = tick.size] /\ X = Between(f, tick.from, tick.size)
    BY <1>1, <1>2
  <2> QED BY <2>1, ReadingIs
<1>4. PICK m : m = tn \cup X
  OBVIOUS
<1>5. offsets' = new /\ torn' = m /\ Lines!Continue(r, st) /\ UNCHANGED <<logFiles, conns>>
  <2>1. offsets' = new /\ Lines!Continue(r, st) /\ UNCHANGED <<logFiles, conns>>
    BY <1>2 DEF Lines!ReadFails, Lines!Reached, Lines!Continue
  <2>2. torn' = torn \cup Lines!Range(Lines!Delta)
    BY DEF Lines!ReadFails
  <2>3. Lines!Range(Lines!Delta) = X
    BY <1>3 DEF Reads
  <2> QED BY <2>1, <2>2, <2>3, <1>4
<1>6. PICK u : u = Onward(f, r)
  OBVIOUS
<1>7. t \in Ticks /\ r \in RowLists /\ StreamList(st)
  BY <1>1, <1>2 DEF TailOK, TailTypes, Ticks
<1>8. u \in Ticks /\ u.at = "stat" /\ Scans(u) /\ u.todo = t.todo \ {f} /\ u.rows = t.rows /\ (u.first = t.first)
  BY <1>2, <1>6, <1>7, OnwardIs
<1>9. TailTypes(sz, c, st, p, new, u)
  <2>1. new \in [Lines!Files -> Int] /\ \A g \in Lines!Files : -1 <= new[g] /\ new[g] <= sz[g]
    BY <1>3 DEF Reads
  <2> QED BY <2>1, <1>1, <1>8 DEF TailOK, TailTypes
<1>10. TickReads(sz, p, new, u, m)
  <2>1. p.dir => Lines!UpTo(new) = Lines!UpTo(off) \cup X
    BY <1>3 DEF Reads
  <2> QED BY <2>1, <1>1, <1>4, <1>8 DEF TailOK, TickReads
<1>11. BaseIsOld(sz, c, st, p, new, u)
  BY <1>1, <1>3, <1>8 DEF TailOK, BaseIsOld, Reads
<1>12. Exact(c, st, p, new, u, m)
  <2> SUFFICES ASSUME p.dir, NEW s \in DOMAIN st, Live(c, st, s)
               PROVE  /\ Sound(Owed(st, new, m, s), st[s].sent, st[s].more, RowsOf(u, st[s].user))
                      /\ Shared(u, st[s].user, Owed(st, new, m, s))
    BY DEF Exact
  <2>1. Lines!UpTo(new) = Lines!UpTo(off) \cup X /\ Lines!UpTo(off) \cap X = {}
    BY <1>3 DEF Reads
  <2>2. Owed(st, new, m, s) = Owed(st, off, tn, s)
    BY <2>1, <1>4 DEF Owed
  <2>3. RowsOf(u, st[s].user) = RowsOf(t, st[s].user) /\ \A o : Shared(u, st[s].user, o) <=> Shared(t, st[s].user, o)
    BY <1>8 DEF RowsOf, Shared
  <2> QED BY <2>2, <2>3, <1>1 DEF TailOK, Exact
<1>13. Fresh(c, st, p, new, u)
  BY <1>1, <1>8 DEF TailOK, Fresh
<1>14. TailOK(Sizes, conns, st, poller, new, Onward(Lines!Current, r), m)
  BY <1>1, <1>6, <1>9, <1>10, <1>11, <1>12, <1>13 DEF TailOK
<1> QED BY <1>1, <1>5, <1>7, <1>14, ContinueKeeps

\* What was read is added to the rows of the users that are connected.
LEMMA ReadDeltaKeeps ==
  ASSUME TailInv, Lines!ReadDelta, Lines!Connected \subseteq DOMAIN tick.rows
  PROVE  TailInv'
<1> PICK sz, c, st, p, off, t, tn, f : sz = Sizes /\ c = conns /\ st = stream /\ p = poller /\ off = offsets /\ t = tick /\ tn = torn /\ f = Lines!Current
  OBVIOUS
<1>1. TailOK(sz, c, st, p, off, t, tn) /\ t.at = "read" /\ Scans(t)
  BY DEF TailInv, Lines!ReadDelta, Scans
<1>2. PICK new, X, d : new = [off EXCEPT ![f] = t.size] /\ X = Between(f, t.from, t.size) /\ d = Lines!Delta
  OBVIOUS
<1>3. Reads(f, new, X)
  <2>1. tick.at = "read" /\ f = Lines!Current /\ new = [offsets EXCEPT ![f] = tick.size] /\ X = Between(f, tick.from, tick.size)
    BY <1>1, <1>2
  <2> QED BY <2>1, ReadingIs
<1>4. PICK C : C = Lines!Connected
  OBVIOUS
<1>5. PICK r : r = [u \in DOMAIN t.rows |-> t.rows[u] \o (IF u \in C THEN d ELSE <<>>)]
  OBVIOUS
<1>6. offsets' = new /\ torn' = tn /\ Lines!Continue(r, st) /\ UNCHANGED <<logFiles, conns>>
  BY <1>2, <1>4, <1>5 DEF Lines!ReadDelta, Lines!Reached, Lines!Continue
<1>7. /\ t \in Ticks /\ t.rows \in RowLists /\ StreamList(st)
      /\ \A s \in DOMAIN st : s # 0 /\ st[s].user \in Viewers
  <2>1. t \in Ticks /\ t.rows \in RowLists /\ StreamList(st)
    BY <1>1, <1>2 DEF TailOK, TailTypes, Ticks
  <2>2. DOMAIN st = 1..Len(st) /\ \A s \in DOMAIN st : st[s] \in StreamRecs
    BY <2>1, StreamsAre
  <2> QED BY <2>1, <2>2 DEF StreamRecs
<1>8. Distinct(d) /\ Lines!Range(d) = X /\ d \in Seq(Spots)
  BY <1>2, <1>3 DEF Reads, Distinct
<1>9. /\ DOMAIN r = DOMAIN t.rows /\ r \in RowLists
      /\ \A u \in DOMAIN r : /\ u \in C => r[u] = t.rows[u] \o d
                             /\ Lines!Range(r[u]) \subseteq Lines!Range(t.rows[u]) \cup X
  <2>1. DOMAIN t.rows \subseteq Viewers /\ \A u \in DOMAIN t.rows : t.rows[u] \in Seq(Spots)
    BY <1>7, RowsAre
  <2>2. DOMAIN r = DOMAIN t.rows /\ \A u \in DOMAIN r : r[u] = t.rows[u] \o (IF u \in C THEN d ELSE <<>>)
    BY <1>5
  <2>3. ASSUME NEW u \in DOMAIN r
        PROVE  /\ r[u] \in Seq(Spots) /\ (u \in C => r[u] = t.rows[u] \o d)
               /\ Lines!Range(r[u]) \subseteq Lines!Range(t.rows[u]) \cup X
    <3>1. PICK x \in Seq(Spots) : x = t.rows[u]
      BY <2>1, <2>2, <2>3
    <3>2. PICK y \in Seq(Spots) : y = (IF u \in C THEN d ELSE <<>>)
      <4>1. <<>> \in Seq(Spots)
        OBVIOUS
      <4> QED BY <4>1, <1>8
    <3>3. r[u] = x \o y
      BY <2>2, <2>3, <3>1, <3>2
    <3>4. x \o y \in Seq(Spots) /\ Lines!Range(x \o y) = Lines!Range(x) \cup Lines!Range(y)
      BY ConcatIs
    <3>5. Lines!Range(y) \subseteq X
      BY <3>2, <1>8, NoneDistinct
    <3> QED BY <3>1, <3>2, <3>3, <3>4, <3>5
  <2>4. r \in [DOMAIN t.rows -> Seq(Spots)]
    BY <2>2, <2>3, <1>5
  <2> QED BY <2>1, <2>2, <2>3, <2>4 DEF RowLists
<1>10. PICK u : u = Onward(f, r)
  OBVIOUS
<1>11. u \in Ticks /\ u.at = "stat" /\ Scans(u) /\ u.todo = t.todo \ {f} /\ u.rows = r /\ (u.first = t.first)
  BY <1>7, <1>9, <1>10, OnwardIs
<1>12. TailTypes(sz, c, st, p, new, u)
  <2>1. new \in [Lines!Files -> Int] /\ \A g \in Lines!Files : -1 <= new[g] /\ new[g] <= sz[g]
    BY <1>3 DEF Reads
  <2> QED BY <2>1, <1>1, <1>11 DEF TailOK, TailTypes
<1>13. TickReads(sz, p, new, u, tn)
  <2>1. p.dir => Lines!UpTo(new) = Lines!UpTo(off) \cup X
    BY <1>3 DEF Reads
  <2>2. p.dir => \A v \in DOMAIN r : Lines!Range(r[v]) \subseteq Lines!UpTo(new)
    BY <2>1, <1>1, <1>9 DEF TailOK, TickReads
  <2> QED BY <2>1, <2>2, <1>1, <1>11 DEF TailOK, TickReads
<1>14. BaseIsOld(sz, c, st, p, new, u)
  BY <1>1, <1>3, <1>11 DEF TailOK, BaseIsOld, Reads
<1>15. \A s \in DOMAIN st : Live(c, st, s) => st[s].user \in C /\ st[s].user \in DOMAIN r
  BY <1>4, <1>7, <1>9 DEF Live, Lines!Connected
<1>16. Exact(c, st, p, new, u, tn)
  <2> SUFFICES ASSUME p.dir, NEW s \in DOMAIN st, Live(c, st, s)
               PROVE  /\ Sound(Owed(st, new, tn, s), st[s].sent, st[s].more, RowsOf(u, st[s].user))
                      /\ Shared(u, st[s].user, Owed(st, new, tn, s))
    BY DEF Exact
  <2>1. PICK o, x, w : o = Owed(st, off, tn, s) /\ w = st[s].user /\ x = t.rows[w]
    OBVIOUS
  <2>2. w \in C /\ w \in DOMAIN r /\ w \in DOMAIN t.rows
    BY <2>1, <1>9, <1>15
  <2>3. Sound(o, st[s].sent, st[s].more, x) /\ \A v \in DOMAIN t.rows : Lines!Range(t.rows[v]) \subseteq Lines!Range(x)
    <3>1. Sound(o, st[s].sent, st[s].more, RowsOf(t, w)) /\ Shared(t, w, o)
      BY <2>1, <1>1 DEF TailOK, Exact
    <3> QED BY <3>1, <2>1, <2>2 DEF RowsOf, Shared
  <2>4. /\ Lines!UpTo(new) = Lines!UpTo(off) \cup X /\ Lines!UpTo(off) \cap X = {} /\ st[s].base \cap X = {}
        /\ tn \subseteq Lines!UpTo(off)
    <3>1. tn \subseteq Lines!UpTo(off)
      BY <1>1 DEF TailOK, TickReads
    <3> QED BY <3>1, <1>3 DEF Reads
  <2>5. Owed(st, new, tn, s) = o \cup X /\ X \cap o = {}
    BY <2>1, <2>4 DEF Owed
  <2>6. Sound(o \cup X, st[s].sent, st[s].more, x \o d)
    BY <2>3, <2>5, <1>8, SoundGrows
  <2>7. RowsOf(u, w) = x \o d /\ r[w] = x \o d
    BY <2>1, <2>2, <1>9, <1>11 DEF RowsOf
  <2>8. Lines!Range(x \o d) = Lines!Range(x) \cup X
    <3>1. x \in Seq(Spots) /\ d \in Seq(Spots)
      BY <2>3, <1>8 DEF Sound, Distinct
    <3>2. Lines!Range(x \o d) = Lines!Range(x) \cup Lines!Range(d)
      BY <3>1, ConcatIs
    <3> QED BY <3>2, <1>8
  <2>9. Shared(u, w, o \cup X)
    <3>1. ASSUME NEW v \in DOMAIN r PROVE Lines!Range(r[v]) \subseteq Lines!Range(r[w])
      BY <2>3, <2>7, <2>8, <1>9
    <3> QED BY <3>1, <2>2, <1>11 DEF Shared
  <2> QED BY <2>1, <2>5, <2>6, <2>7, <2>9
<1>17. Fresh(c, st, p, new, u)
  <2> SUFFICES ASSUME ~p.dir, NEW s \in DOMAIN st, Live(c, st, s)
               PROVE  st[s].sent = <<>> /\ st[s].more = 0 /\ st[s].user \notin DOMAIN r
    BY <1>11 DEF Fresh
  <2> QED BY <1>1, <1>9 DEF TailOK, Fresh
<1>18. TailOK(Sizes, conns, st, poller, new, Onward(Lines!Current, r), tn)
  BY <1>1, <1>10, <1>12, <1>13, <1>14, <1>16, <1>17 DEF TailOK
<1> QED BY <1>1, <1>6, <1>9, <1>18, ContinueKeeps

\* A tick throws: what it has found is passed over, and too many such ticks end
\* every stream.
LEMMA ThrowsKeeps ==
  ASSUME TailInv, Lines!ReadDelta, ~(Lines!Connected \subseteq DOMAIN tick.rows)
  PROVE  TailInv'
<1> PICK sz, c, st, p, off, t, tn, f : sz = Sizes /\ c = conns /\ st = stream /\ p = poller /\ off = offsets /\ t = tick /\ tn = torn /\ f = Lines!Current
  OBVIOUS
<1>1. TailOK(sz, c, st, p, off, t, tn) /\ t.at = "read" /\ Scans(t)
  BY DEF TailInv, Lines!ReadDelta, Scans
<1>2. PICK new, X, R, m : /\ new = [off EXCEPT ![f] = t.size] /\ X = Between(f, t.from, t.size)
                          /\ R = UNION {Lines!Range(t.rows[u]) : u \in DOMAIN t.rows} /\ m = tn \cup X \cup R
  OBVIOUS
<1>3. Reads(f, new, X)
  <2>1. tick.at = "read" /\ f = Lines!Current /\ new = [offsets EXCEPT ![f] = tick.size] /\ X = Between(f, tick.from, tick.size)
    BY <1>1, <1>2
  <2> QED BY <2>1, ReadingIs
<1>4. PICK b \in BOOLEAN : b <=> (p.errors + 1 >= MaxErrors)
  <2>1. CASE p.errors + 1 >= MaxErrors
    <3> WITNESS TRUE \in BOOLEAN
    <3> QED BY <2>1
  <2>2. CASE ~(p.errors + 1 >= MaxErrors)
    <3> WITNESS FALSE \in BOOLEAN
    <3> QED BY <2>2
  <2> QED BY <2>1, <2>2
<1>5. PICK k, e, q, N : k = conns' /\ e = stream' /\ q = poller' /\ N = tick' /\ N = Lines!NoTick
  BY DEF Lines!ReadDelta, Lines!Throws
<1>6. /\ offsets' = new /\ torn' = m /\ Sizes' = sz
      /\ k = IF b THEN [u \in Viewers |-> 0] ELSE c
      /\ e = [s \in 1..Len(st) |-> [st[s] EXCEPT !.told = @ \/ (b /\ c[st[s].user] = s)]]
      /\ q = [p EXCEPT !.errors = @ + 1, !.timer = @ /\ ~b]
  <2>1. offsets' = new /\ Sizes' = sz
    BY <1>2 DEF Lines!ReadDelta, Lines!Reached, Sizes
  <2>2. torn' = tn \cup Lines!Range(Lines!Delta) \cup R
    BY <1>2 DEF Lines!ReadDelta, Lines!Throws
  <2>3. Lines!Range(Lines!Delta) = X
    BY <1>3 DEF Reads
  <2>4. /\ k = IF b THEN [u \in Viewers |-> 0] ELSE c
        /\ e = [s \in 1..Len(st) |-> [st[s] EXCEPT !.told = @ \/ (b /\ c[st[s].user] = s)]]
        /\ q = [p EXCEPT !.errors = @ + 1, !.timer = @ /\ ~b]
    BY <1>4, <1>5 DEF Lines!ReadDelta, Lines!Throws
  <2> QED BY <2>1, <2>2, <2>3, <2>4, <1>2
<1>7. /\ StreamList(st) /\ p \in Pollers /\ c \in [Viewers -> Nat] /\ t.rows \in RowLists
      /\ DOMAIN st = 1..Len(st) /\ (\A s \in DOMAIN st : st[s] \in StreamRecs /\ s # 0)
  <2>1. StreamList(st) /\ p \in Pollers /\ c \in [Viewers -> Nat] /\ t.rows \in RowLists
    BY <1>1 DEF TailOK, TailTypes, Ticks
  <2>2. DOMAIN st = 1..Len(st) /\ \A s \in DOMAIN st : st[s] \in StreamRecs
    BY <2>1, StreamsAre
  <2> QED BY <2>1, <2>2
<1>8. N \in Ticks /\ N.at = "idle" /\ N.rows = <<>> /\ ~Scans(N) /\ \A u : RowsOf(N, u) = <<>>
  BY <1>5, NoTickIs
<1>9. q \in Pollers /\ q.dir = p.dir /\ q.init = p.init /\ (q.timer <=> p.timer /\ ~b)
  <2>1. /\ p.errors + 1 \in Nat /\ (p.timer /\ ~b) \in BOOLEAN
        /\ p = [timer |-> p.timer, dir |-> p.dir, init |-> p.init, errors |-> p.errors]
    BY <1>7 DEF Pollers
  <2>2. PICK v \in BOOLEAN : v = (p.timer /\ ~b)
    BY <2>1
  <2>3. q = [p EXCEPT !.errors = @ + 1, !.timer = v]
    BY <1>6, <2>2
  <2>4. q.timer = v /\ q.dir = p.dir /\ q.init = p.init /\ q \in Pollers
    BY <1>7, <2>1, <2>3 DEF Pollers
  <2> QED BY <2>2, <2>4
<1>10. e = [s \in DOMAIN st |-> [st[s] EXCEPT !.told = @ \/ (b /\ c[st[s].user] = s)]]
  BY <1>6, <1>7
<1>11. \A s \in DOMAIN st : /\ e[s] \in StreamRecs
                            /\ e[s].user = st[s].user /\ e[s].sent = st[s].sent /\ e[s].more = st[s].more
                            /\ e[s].base = st[s].base /\ e[s].odd = st[s].odd /\ e[s].open = st[s].open
                            /\ e[s].told <=> st[s].told \/ (b /\ c[st[s].user] = s)
  <2> SUFFICES ASSUME NEW s \in DOMAIN st
               PROVE  /\ e[s] \in StreamRecs
                      /\ e[s].user = st[s].user /\ e[s].sent = st[s].sent /\ e[s].more = st[s].more
                      /\ e[s].base = st[s].base /\ e[s].odd = st[s].odd /\ e[s].open = st[s].open
                      /\ e[s].told <=> st[s].told \/ (b /\ c[st[s].user] = s)
    OBVIOUS
  <2>1. PICK x \in StreamRecs : x = st[s]
    BY <1>7
  <2>2. PICK v \in BOOLEAN : v <=> b /\ c[st[s].user] = s
    OBVIOUS
  <2>3. e[s] = [x EXCEPT !.told = @ \/ v]
    BY <1>10, <2>1, <2>2
  <2> QED BY <2>1, <2>2, <2>3 DEF StreamRecs
<1>12. StreamList(e) /\ DOMAIN e = DOMAIN st
  <2>1. e \in [DOMAIN st -> StreamRecs]
    BY <1>10, <1>11
  <2> QED BY <2>1, <1>7, StreamsMap
<1>13. k \in [Viewers -> Nat] /\ (b => \A u \in Viewers : k[u] = 0) /\ (~b => k = c)
  BY <1>6, <1>7
<1>14. \A s \in DOMAIN st : st[s].user \in Viewers
  BY <1>7 DEF StreamRecs
<1>15. \A s \in DOMAIN st : Live(k, e, s) => Live(c, st, s) /\ ~b
  BY <1>7, <1>11, <1>13, <1>14 DEF Live
<1>16. TailTypes(sz, k, e, q, new, N)
  <2>1. new \in [Lines!Files -> Int] /\ \A g \in Lines!Files : -1 <= new[g] /\ new[g] <= sz[g]
    BY <1>3 DEF Reads
  <2> QED BY <2>1, <1>1, <1>8, <1>9, <1>12, <1>13 DEF TailOK, TailTypes
<1>17. Served(k, e, q)
  <2>1. Served(c, st, p)
    BY <1>1 DEF TailOK
  <2>2. CASE b
    <3>1. \A s \in DOMAIN e : ~(e[s].open /\ ~e[s].told /\ ~e[s].odd)
      BY <2>1, <2>2, <1>11, <1>12 DEF Served
    <3>2. \A r, s \in DOMAIN e : r < s /\ e[r].open /\ e[s].open /\ e[r].user = e[s].user => e[s].odd
      BY <2>1, <1>11, <1>12 DEF Served
    <3> QED BY <2>2, <3>1, <3>2, <1>13 DEF Served
  <2>3. CASE ~b
    <3>1. k = c /\ (q.timer <=> p.timer)
      BY <2>3, <1>9, <1>13
    <3>2. Same(st, e)
      <4>1. ASSUME NEW s \in DOMAIN st PROVE e[s].told = st[s].told
        <5>1. e[s].told \in BOOLEAN /\ st[s].told \in BOOLEAN
          BY <1>7, <1>11 DEF StreamRecs
        <5> QED BY <5>1, <2>3, <1>11
      <4> QED BY <4>1, <2>3, <1>11, <1>12 DEF Same
    <3>3. q.timer \in BOOLEAN /\ p.timer \in BOOLEAN
      BY <1>7, <1>9 DEF Pollers
    <3> QED BY <3>1, <3>2, <3>3, <2>1, ServedStays
  <2> QED BY <2>2, <2>3
<1>18. /\ p.dir => Lines!UpTo(new) = Lines!UpTo(off) \cup X /\ Lines!UpTo(off) \cap X = {}
       /\ p.dir => \A u \in DOMAIN t.rows : Lines!Range(t.rows[u]) \subseteq Lines!UpTo(off)
       /\ p.dir => tn \subseteq Lines!UpTo(off)
  BY <1>1, <1>3 DEF Reads, TailOK, TickReads
<1>19. TickReads(sz, q, new, N, m)
  <2>1. p.dir => R \subseteq Lines!UpTo(off)
    BY <1>2, <1>18
  <2> QED BY <2>1, <1>2, <1>8, <1>9, <1>18 DEF TickReads
<1>20. BaseIsOld(sz, k, e, q, new, N)
  <2>1. \A s \in DOMAIN e : e[s].base \subseteq Lines!UpTo(sz)
    BY <1>1, <1>11, <1>12 DEF TailOK, BaseIsOld
  <2> QED BY <2>1, <1>3, <1>8, <1>9, <1>11, <1>12, <1>15 DEF BaseIsOld, Reads
<1>21. Exact(k, e, q, new, N, m)
  <2> SUFFICES ASSUME p.dir, NEW s \in DOMAIN st, Live(k, e, s)
               PROVE  Sound(Owed(e, new, m, s), e[s].sent, e[s].more, <<>>)
    BY <1>8, <1>9, <1>12 DEF Exact
  <2>1. PICK o, w : o = Owed(st, off, tn, s) /\ w = st[s].user
    OBVIOUS
  <2>2. Sound(o, st[s].sent, st[s].more, RowsOf(t, w)) /\ Shared(t, w, o)
    BY <2>1, <1>1, <1>15 DEF TailOK, Exact
  <2>3. Owed(e, new, m, s) = o \ R
    BY <2>1, <1>2, <1>11, <1>18 DEF Owed
  <2>4. CASE w \in DOMAIN t.rows
    <3>1. PICK r : r = t.rows[w]
      OBVIOUS
    <3>2. RowsOf(t, w) = r /\ \A v \in DOMAIN t.rows : Lines!Range(t.rows[v]) \subseteq Lines!Range(r)
      BY <3>1, <2>2, <2>4 DEF RowsOf, Shared
    <3>3. R = Lines!Range(r)
      BY <3>1, <3>2, <2>4, <1>2
    <3>4. Sound(o \ Lines!Range(r), st[s].sent, st[s].more, <<>>)
      BY <2>2, <3>2, SoundDrops
    <3> QED BY <3>3, <3>4, <2>3, <1>11
  <2>5. CASE w \notin DOMAIN t.rows
    <3>1. o = {} /\ RowsOf(t, w) = <<>>
      BY <2>2, <2>5 DEF Shared, RowsOf
    <3>2. Owed(e, new, m, s) = {}
      BY <3>1, <2>3
    <3> QED BY <3>1, <3>2, <2>2, <1>11
  <2> QED BY <2>4, <2>5
<1>22. Fresh(k, e, q, new, N)
  <2>1. ASSUME ~p.dir, NEW s \in DOMAIN st, Live(k, e, s) PROVE e[s].sent = <<>> /\ e[s].more = 0
    BY <2>1, <1>1, <1>11, <1>15 DEF TailOK, Fresh
  <2> QED BY <2>1, <1>8, <1>9, <1>12 DEF Fresh
<1> QED BY <1>5, <1>6, <1>8, <1>16, <1>17, <1>19, <1>20, <1>21, <1>22 DEF TailInv, TailOK

LEMMA TailInvInit == Lines!Init => TailInv
<1> SUFFICES ASSUME Lines!Init PROVE TailInv
  OBVIOUS
<1>1. /\ logFiles = [f \in Lines!Files |-> <<>>] /\ conns = [u \in Viewers |-> 0] /\ stream = <<>>
      /\ poller = Lines!Stopped /\ offsets = Lines!Forgotten /\ tick = Lines!NoTick /\ torn = {}
  BY DEF Lines!Init
<1>2. tick \in Ticks /\ tick.at = "idle" /\ tick.rows = <<>> /\ ~Scans(tick)
  BY <1>1, NoTickIs
<1>3. Sizes \in [Lines!Files -> Nat] /\ \A f \in Lines!Files : Sizes[f] = 0
  <2>1. Len(<<>>) = 0
    OBVIOUS
  <2> QED BY <2>1, <1>1 DEF Sizes
<1>4. StreamList(stream) /\ DOMAIN stream = {} /\ conns \in [Viewers -> Nat] /\ \A u \in Viewers : conns[u] = 0
  BY <1>1 DEF StreamList
<1>5. poller \in Pollers /\ poller.dir = FALSE /\ poller.init = FALSE
  BY <1>1 DEF Lines!Stopped, Pollers
<1>6. offsets \in [Lines!Files -> Int] /\ \A f \in Lines!Files : offsets[f] = -1
  BY <1>1 DEF Lines!Forgotten, Lines!Unseen
<1>7. TailTypes(Sizes, conns, stream, poller, offsets, tick)
  <2>1. \A f \in Lines!Files : -1 <= offsets[f] /\ offsets[f] <= Sizes[f]
    BY <1>3, <1>6
  <2> QED BY <2>1, <1>2, <1>3, <1>4, <1>5, <1>6 DEF TailTypes
<1>8. /\ Served(conns, stream, poller) /\ TickReads(Sizes, poller, offsets, tick, torn)
      /\ BaseIsOld(Sizes, conns, stream, poller, offsets, tick) /\ Exact(conns, stream, poller, offsets, tick, torn)
      /\ Fresh(conns, stream, poller, offsets, tick)
  BY <1>2, <1>4, <1>5 DEF Served, TickReads, BaseIsOld, Exact, Fresh
<1> QED BY <1>2, <1>7, <1>8 DEF TailInv, TailOK

\* A step of the logger.
LEMMA LoggerStep ==
  ASSUME LogInv, TailInv, Lines!Log \/ Lines!Written \/ Lines!WriteFails \/ Lines!Flush
  PROVE  LogInv' /\ TailInv'
<1>1. CASE Lines!Log
  <2>1. LogInv' /\ UNCHANGED Lines!tail /\ Sizes' = Sizes
    BY <1>1, LinesLogKeeps DEF Lines!Log, Lines!tail, Sizes
  <2> QED BY <2>1 DEF TailInv, Lines!tail
<1>2. CASE Lines!Written
  <2>1. LogInv' /\ UNCHANGED Lines!tail
    BY <1>2, WrittenKeeps DEF Lines!Written, Lines!tail
  <2>2. logFiles \in [Lines!Files -> Seq(Int)] /\ logFiles' \in [Lines!Files -> Seq(Int)] /\ writing \in Int
    BY <2>1 DEF LogInv, LogTypes
  <2>3. Sizes' \in [Lines!Files -> Nat]
    BY <2>2 DEF Sizes
  <2>4. PICK g \in Lines!Files : logFiles' = [logFiles EXCEPT ![g] = Append(@, writing)]
    BY <1>2 DEF Lines!Written
  <2>5. ASSUME NEW f \in Lines!Files PROVE Sizes[f] <= Sizes'[f]
    <3>1. Sizes[f] = Len(logFiles[f]) /\ Sizes'[f] = Len(logFiles'[f])
      BY DEF Sizes
    <3>2. CASE f = g
      <4>1. logFiles'[f] = Append(logFiles[f], writing)
        BY <3>2, <2>2, <2>4
      <4> QED BY <3>1, <4>1, <2>2
    <3>3. CASE f # g
      BY <3>1, <3>3, <2>2, <2>4
    <3> QED BY <3>2, <3>3
  <2> QED BY <2>1, <2>3, <2>5, TailGrows
<1>3. CASE Lines!WriteFails
  <2>1. LogInv' /\ UNCHANGED Lines!tail /\ Sizes' = Sizes
    BY <1>3, WriteFailsKeeps DEF Lines!WriteFails, Lines!tail, Sizes
  <2> QED BY <2>1 DEF TailInv, Lines!tail
<1>4. CASE Lines!Flush
  <2>1. LogInv' /\ UNCHANGED Lines!tail /\ Sizes' = Sizes
    BY <1>4, LinesFlushKeeps DEF Lines!Flush, Lines!tail, Sizes
  <2> QED BY <2>1 DEF TailInv, Lines!tail
<1> QED BY <1>1, <1>2, <1>3, <1>4

LEMMA LinesStep == LogInv /\ TailInv /\ [Lines!Next]_Lines!vars => LogInv' /\ TailInv'
<1> SUFFICES ASSUME LogInv, TailInv, [Lines!Next]_Lines!vars PROVE LogInv' /\ TailInv'
  OBVIOUS
<1>1. CASE Lines!Log \/ Lines!Written \/ Lines!WriteFails \/ Lines!Flush
  BY <1>1, LoggerStep
<1>2. ASSUME NEW u \in Viewers, Lines!Open(u) PROVE LogInv' /\ TailInv'
  <2>1. UNCHANGED <<Lines!logger, logFiles>>
    BY <1>2 DEF Lines!Open
  <2> QED BY <1>2, <2>1, OpenKeeps, LogStays
<1>3. ASSUME NEW s \in 1..Len(stream), Lines!Close(s) PROVE LogInv' /\ TailInv'
  <2>1. UNCHANGED <<Lines!logger, logFiles>>
    BY <1>3 DEF Lines!Close
  <2> QED BY <1>3, <2>1, CloseKeeps, LogStays
<1>4. CASE Lines!Tick
  <2>1. UNCHANGED <<Lines!logger, logFiles>>
    BY <1>4 DEF Lines!Tick
  <2> QED BY <1>4, <2>1, PollerTicks, LogStays
<1>5. CASE Lines!Readdir
  <2>1. UNCHANGED <<Lines!logger, logFiles>>
    BY <1>5 DEF Lines!Readdir
  <2> QED BY <1>5, <2>1, ReaddirKeeps, LogStays
<1>6. CASE Lines!NoDirectory
  <2>1. UNCHANGED <<Lines!logger, logFiles>>
    BY <1>6 DEF Lines!NoDirectory
  <2> QED BY <1>6, <2>1, NoDirectoryKeeps, LogStays
<1>7. CASE Lines!Stat
  <2>1. UNCHANGED <<Lines!logger, logFiles>>
    BY <1>7 DEF Lines!Stat
  <2> QED BY <1>7, <2>1, StatKeeps, LogStays
<1>8. CASE Lines!StatFails
  <2>1. UNCHANGED <<Lines!logger, logFiles>>
    BY <1>8 DEF Lines!StatFails
  <2> QED BY <1>8, <2>1, StatFailsKeeps, LogStays
<1>9. CASE Lines!ReadDelta
  <2>1. UNCHANGED <<Lines!logger, logFiles>>
    BY <1>9 DEF Lines!ReadDelta
  <2> QED BY <1>9, <2>1, ReadDeltaKeeps, ThrowsKeeps, LogStays
<1>10. CASE Lines!ReadFails
  <2>1. UNCHANGED <<Lines!logger, logFiles>>
    BY <1>10 DEF Lines!ReadFails
  <2> QED BY <1>10, <2>1, ReadFailsKeeps, LogStays
<1>11. CASE UNCHANGED Lines!vars
  <2>1. UNCHANGED Lines!logger /\ UNCHANGED logFiles /\ UNCHANGED Lines!tail
    BY <1>11 DEF Lines!vars, Lines!logger, Lines!tail
  <2>2. Sizes' = Sizes
    BY <2>1 DEF Sizes
  <2> QED BY <2>1, <2>2, LogStays DEF TailInv, Lines!tail
<1> QED BY <1>1, <1>2, <1>3, <1>4, <1>5, <1>6, <1>7, <1>8, <1>9, <1>10, <1>11 DEF Lines!Next

\* Every stream was sent, or told the number of, what it is owed, and is served.
LEMMA TailInvSuffices == TailInv => \A s \in DOMAIN stream : Lines!StreamExact(s) /\ Lines!StreamServed(s)
<1> SUFFICES ASSUME TailInv, NEW s \in DOMAIN stream PROVE Lines!StreamExact(s) /\ Lines!StreamServed(s)
  OBVIOUS
<1>1. TailOK(Sizes, conns, stream, poller, offsets, tick, torn)
  BY DEF TailInv
<1>2. Lines!StreamServed(s)
  BY <1>1 DEF TailOK, Served, Lines!StreamServed
<1>3. ASSUME conns[stream[s].user] = s, ~stream[s].odd, tick.at = "idle", poller.dir
      PROVE  LET o == (Lines!Read \ stream[s].base) \ torn
                 a == stream[s].sent
             IN  /\ Lines!Range(a) \subseteq o /\ Lines!Cardinality(Lines!Range(a)) = Len(a)
                 /\ Len(a) + stream[s].more = Lines!Cardinality(o)
  <2>1. PICK o, a : o = Owed(stream, offsets, torn, s) /\ a = stream[s].sent
    OBVIOUS
  <2>2. tick.rows = <<>>
    BY <1>1, <1>3 DEF TailOK, TailTypes, Scans
  <2>3. Sound(o, a, stream[s].more, <<>>)
    <3>1. RowsOf(tick, stream[s].user) = <<>>
      BY <2>2 DEF RowsOf
    <3> QED BY <3>1, <2>1, <1>1, <1>3 DEF TailOK, Exact, Live
  <2>4. /\ Lines!Range(a) \subseteq o /\ Cardinality(Lines!Range(a)) = Len(a) /\ Len(a) \in Nat /\ stream[s].more \in Nat
        /\ Cardinality(o) = Len(a) + stream[s].more + Len(<<>>)
    BY <2>3 DEF Sound, Distinct
  <2>5. Len(<<>>) = 0
    OBVIOUS
  <2>6. o = (Lines!Read \ stream[s].base) \ torn
    BY <2>1 DEF Owed, Lines!Read
  <2> QED BY <2>1, <2>4, <2>5, <2>6, LinesAreCounted
<1>4. Lines!StreamExact(s)
  BY <1>3 DEF Lines!StreamExact
<1> QED BY <1>2, <1>4

\* Every logged line is on disk once, or accounted for, and between two ticks an open
\* stream has been sent, or told the number of, exactly the lines read since it was
\* opened (LogTail by itself).
THEOREM LogIsWholeTheorem == Lines!Spec => []Lines!LogIsWhole
<1>1. Lines!Init => LogInv /\ TailInv
  BY LogInvInit, TailInvInit
<1>2. LogInv /\ TailInv => Lines!LogIsWhole
  BY LogInvSuffices, TailInvSuffices DEF Lines!LogIsWhole
<1> QED BY <1>1, <1>2, LinesStep, PTL DEF Lines!Spec

-----------------------------------------------------------------------------
(* Both in the composition                                                 *)

\* A step of the composition is one of the queue, or leaves it alone.
LEMMA AuditSteps == [Next]_vars => [Audit!Next]_Audit!vars
<1> SUFFICES ASSUME [Next]_vars, ~Audit!Next PROVE UNCHANGED Audit!vars
  OBVIOUS
<1>1. UNCHANGED audit
  BY DEF Next, vars
<1> QED BY <1>1 DEF audit, Audit!vars

LEMMA LineSteps == [Next]_vars => [Lines!Next]_Lines!vars
<1> SUFFICES ASSUME [Next]_vars, ~Lines!Next PROVE UNCHANGED Lines!vars
  OBVIOUS
<1>1. UNCHANGED lines
  BY DEF Next, vars
<1> QED BY <1>1 DEF lines, Lines!vars

\* No audit row vanishes without a warning, every logged line is on disk once or
\* accounted for, and a live tail shows each line once.
THEOREM LogsAreWholeTheorem == Spec => []LogsAreWhole
<1>1. Init => QueueInv /\ LogInv /\ TailInv
  BY QueueInvInit, LogInvInit, TailInvInit DEF Init
<1>2. QueueInv /\ [Next]_vars => QueueInv'
  BY QueueInvStep, AuditSteps
<1>3. LogInv /\ TailInv /\ [Next]_vars => LogInv' /\ TailInv'
  BY LinesStep, LineSteps
<1>4. QueueInv /\ LogInv /\ TailInv => LogsAreWhole
  BY QueueInvSuffices, LogInvSuffices, TailInvSuffices DEF LogsAreWhole, Lines!LogIsWhole
<1> QED BY <1>1, <1>2, <1>3, <1>4, PTL DEF Spec
=============================================================================
