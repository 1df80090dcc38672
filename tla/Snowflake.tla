----------------------------- MODULE Snowflake -----------------------------
(***************************************************************************)
(* The generator of request ids that one process keeps:                    *)
(*   Backend/src/utils/snowflake.js                                        *)
(*                                                                         *)
(* An id is a millisecond, the machine and a tail: a counter within the    *)
(* millisecond, from a random base.  The clock of the host passes while    *)
(* nextId spins, and may be set back.  The machine segment does not vary   *)
(* within a process.                                                       *)
(***************************************************************************)
EXTENDS Naturals, FiniteSets

CONSTANTS
  MaxSequence,  \* MAX_SEQUENCE, less than NonceRange
  NonceRange,   \* NONCE_RANGE
  MaxTime,      \* bound on the clock
  MaxFalls,     \* bound on the times it is set back
  MaxIds        \* bound on the ids

VARIABLES
  clock,     \* Date.now()
  falls,     \* times it was set back
  last,      \* _lastTimestamp; -1 is the value None
  sequence,  \* _sequence
  nonce,     \* _nonce
  spinning,  \* nextId waits for the next millisecond
  issued,    \* number of ids
  ids        \* the ids, each with the value of falls

vars == <<clock, falls, last, sequence, nonce, spinning, issued, ids>>

None   == MaxTime + 1
Nonces == 0..(NonceRange - 1)

Init ==
  /\ clock = 0 /\ falls = 0
  /\ last = None /\ sequence = 0 /\ nonce \in Nonces
  /\ spinning = FALSE /\ issued = 0 /\ ids = {}

Tail(s, n) == (s + n) % NonceRange

\* The end of nextId, in the millisecond that it read.
Issue(s, n) ==
  /\ last' = clock /\ sequence' = s /\ nonce' = n
  /\ ids' = ids \cup {[time |-> clock, tail |-> Tail(s, n), falls |-> falls]}
  /\ issued' = issued + 1
  /\ spinning' = FALSE
  /\ UNCHANGED <<clock, falls>>

Enters == ~spinning /\ issued < MaxIds

NewMillisecond == Enters /\ clock # last /\ \E n \in Nonces : Issue(0, n)

NextSequence == (sequence + 1) % (MaxSequence + 1)

SameMillisecond == Enters /\ clock = last /\ NextSequence # 0 /\ Issue(NextSequence, nonce)

\* The millisecond is used up.
Exhausted ==
  /\ Enters /\ clock = last /\ NextSequence = 0
  /\ sequence' = 0 /\ spinning' = TRUE
  /\ UNCHANGED <<clock, falls, last, nonce, issued, ids>>

\* Deviation: the loop ends in the millisecond that is used up.
SpinOverEarly == clock >= last

\* The loop ends in a later millisecond.
SpinOver == clock > last

\* The base of the used up millisecond stays.
SpinEnds == spinning /\ SpinOver /\ Issue(0, nonce)

Tick ==
  /\ clock < MaxTime
  /\ clock' = clock + 1
  /\ UNCHANGED <<falls, last, sequence, nonce, spinning, issued, ids>>

SetBack ==
  /\ falls < MaxFalls
  /\ clock' \in 0..(clock - 1)
  /\ falls' = falls + 1
  /\ UNCHANGED <<last, sequence, nonce, spinning, issued, ids>>

Next == NewMillisecond \/ SameMillisecond \/ Exhausted \/ SpinEnds \/ Tick \/ SetBack

Spec == Init /\ [][Next]_vars

TypeOK ==
  /\ {clock, last} \subseteq 0..None /\ falls \in 0..MaxFalls
  /\ sequence \in 0..MaxSequence /\ nonce \in Nonces
  /\ spinning \in BOOLEAN /\ issued \in 0..MaxIds
  /\ ids \subseteq [time : 0..MaxTime, tail : Nonces, falls : 0..MaxFalls]

\* An id returns only if the clock was set back in between, however many are
\* drawn in a millisecond, and ids go on in the order of their milliseconds
\* (snowflake.js:29-31, the wait when a sequence is exhausted; 173-174, within a
\* millisecond collision-free).
IdsAreFresh ==
  /\ TypeOK
  /\ Cardinality(ids) = issued
  /\ \A id \in ids : id.falls = falls => id.time <= last
=============================================================================
