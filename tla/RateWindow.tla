----------------------------- MODULE RateWindow -----------------------------
(***************************************************************************)
(* One key of a rate limiter that counts failures:                         *)
(*   Backend/src/middleware/security/SlidingWindowCounter.js               *)
(*   Backend/src/middleware/security/RateLimiterMiddleware.js              *)
(*   Backend/src/utils/cluster/PrimaryStateServices.js, #attachRateLimiter *)
(* A request is counted before it runs, by the primary or, when the primary*)
(* does not answer, by its own worker, and given back when it succeeds.    *)
(***************************************************************************)
EXTENDS Integers, FiniteSets

CONSTANTS
  Workers, Requests,
  Limit,        \* max
  Window,       \* windowMs
  MaxTime       \* bound

VARIABLES
  now,
  counts,     \* per owner of a counter: bucket -> count
  request     \* per request: where it was counted, in which bucket

vars == <<now, counts, request>>

Primary == "primary"
Owners  == {Primary} \cup Workers
Buckets == 0..(MaxTime \div Window + 1)

New == [state |-> "new", owner |-> Primary, bucket |-> 0]

Init ==
  /\ now = 0
  /\ counts = [o \in Owners |-> [b \in Buckets |-> 0]]
  /\ request = [r \in Requests |-> New]

-----------------------------------------------------------------------------
(* SlidingWindowCounter; a bucket stands for its windowStart               *)

BucketAt(t) == t \div Window
CountOf(c, b) == IF b \in Buckets THEN c[b] ELSE 0

\* hit: the estimate has reached the limit, at time t.
Refuses(c, t) ==
  LET b == BucketAt(t)
  IN  CountOf(c, b - 1) * (Window - (t % Window)) + CountOf(c, b) * Window >= Limit * Window

\* Deviation: the next window's share is taken for the whole of the limit.
RetryAtNextWindow(c, t) == (BucketAt(t) + 1) * Window

\* _retryAt.
RetryAt(c, t) ==
  LET b     == BucketAt(t)
      prev  == CountOf(c, b - 1)
      curr  == CountOf(c, b)
      start == b * Window
  IN  IF curr < Limit
      THEN start + Window - ((Limit - curr) * Window - 1) \div prev
      ELSE start + Window + (Window - (Limit * Window - 1) \div curr)

\* Deviation: a refund goes to the window that runs now.
RefundedNow(c, b) == [c EXCEPT ![BucketAt(now)] = IF @ > 0 THEN @ - 1 ELSE 0]

\* refund.
Refunded(c, b) ==
  IF b < BucketAt(now) - 1 \/ c[b] = 0 THEN c ELSE [c EXCEPT ![b] = @ - 1]

-----------------------------------------------------------------------------
(* RateLimiterMiddleware                                                   *)

Counted(C, o) == [C EXCEPT ![o][BucketAt(now)] = @ + 1]

Answered(r, o, ok) ==
  request' = [request EXCEPT ![r] = [state |-> IF ok THEN "running" ELSE "refused",
                                     owner |-> o, bucket |-> BucketAt(now)]]

\* handle, answered by o.
HitBy(r, o, C) ==
  LET ok == ~Refuses(C[o], now)
  IN  Answered(r, o, ok) /\ counts' = IF ok THEN Counted(C, o) ELSE C

\* _hitShared: the primary answers, or it does not and the worker counts; a
\* late primary has counted too.
Hit(r, w) ==
  /\ request[r].state = "new"
  /\ \/ HitBy(r, Primary, counts)
     \/ HitBy(r, w, counts)
     \/ ~Refuses(counts[Primary], now) /\ HitBy(r, w, Counted(counts, Primary))
  /\ UNCHANGED now

Becomes(r, s) == request' = [request EXCEPT ![r].state = s]

\* The response was a success: _refund, or the notice to the primary is lost.
Succeed(r) ==
  /\ request[r].state = "running"
  /\ LET o == request[r].owner
         b == request[r].bucket
     IN  \/ Becomes(r, "refunded") /\ counts' = [counts EXCEPT ![o] = Refunded(@, b)]
         \/ o = Primary /\ Becomes(r, "succeeded") /\ UNCHANGED counts
  /\ UNCHANGED now

Fail(r) == request[r].state = "running" /\ Becomes(r, "failed") /\ UNCHANGED <<now, counts>>

Tick == now < MaxTime /\ now' = now + 1 /\ UNCHANGED <<counts, request>>

Next == \/ Tick
        \/ \E r \in Requests : Succeed(r) \/ Fail(r) \/ \E w \in Workers : Hit(r, w)

Spec == Init /\ [][Next]_vars

-----------------------------------------------------------------------------
(* Properties                                                              *)

\* A client that is refused and comes back at retryAt is admitted, and would
\* have been refused at every earlier time, if nobody hits in between.
RetryAtIsExact ==
  \A o \in Owners : Refuses(counts[o], now) =>
    LET t == RetryAt(counts[o], now)
    IN  /\ t > now /\ ~Refuses(counts[o], t)
        /\ \A s \in now..(t - 1) : Refuses(counts[o], s)

\* Hits of o's bucket b that are not given back.
Held(o, b) == {r \in Requests : /\ request[r].state \in {"running", "failed", "succeeded"}
                                /\ request[r].owner = o /\ request[r].bucket = b}

\* A refund takes back its own hit and nobody else's: fallbacks, late answers
\* and lost notices only make the limit stricter, and no bucket holds more than
\* the limit.
RefundsBalance ==
  \A o \in Owners, b \in Buckets :
    b >= BucketAt(now) - 1 => Cardinality(Held(o, b)) <= counts[o][b] /\ counts[o][b] <= Limit

\* The limiter counts what it should and says when to come back.
LimitIsExact == RetryAtIsExact /\ RefundsBalance
=============================================================================
