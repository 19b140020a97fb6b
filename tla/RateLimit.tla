------------------------------ MODULE RateLimit ------------------------------
(***************************************************************************)
(* One dimension of the transport's rate limiter (rate_limit.rs): a        *)
(* bounded map of token buckets, keyed by source address or by token name. *)
(*                                                                         *)
(* A request reads the clock when it enters the middleware and takes the   *)
(* map's mutex afterwards, so the times that reach one bucket need not be  *)
(* in order.  Time is counted in ticks, Second of them to a second, and a  *)
(* bucket in units, Second of them to a request: with the code's           *)
(* TOKEN_SCALE and a nanosecond clock both are 10^9.                       *)
(***************************************************************************)
EXTENDS Integers, Sequences, FiniteSets

CONSTANTS
    Callers,     \* requests between reading the clock and taking the mutex
    Keys,        \* source addresses, or token names
    MaxBuckets,  \* MAX_IP_BUCKETS or MAX_TOKEN_BUCKETS
    Second,      \* ticks per second, and TOKEN_SCALE
    Rate,        \* max_requests_per_second_per_ip or _per_token
    Burst,       \* max_request_burst_per_ip or _per_token
    MaxTicks,    \* bound: how far the clock runs
    MaxChecks    \* bound: how often the map is asked

\* LimitsConfig::validate: a limiter that is enabled has a rate and a burst.
ASSUME RateAssumption ==
    /\ {MaxBuckets, Second, Rate, Burst} \subseteq Nat \ {0}
    /\ {MaxTicks, MaxChecks} \subseteq Nat

VARIABLES
    ticks,    \* the monotonic clock
    buckets,  \* BucketMap.buckets, a function on the keys it holds
    asking,   \* the key and the time a caller brings to the mutex
    checks,   \* how often the map was asked
    grants,   \* history: the bucket's time at each request it let through
    told      \* history: the last answer a key got, if it was Limited

rateVars == <<ticks, buckets, asking, checks, grants, told>>

NoCaller == [key |-> "none", now |-> 0]
NotLimited == [at |-> 0, retry |-> 0]

Least(a, b) == IF a <= b THEN a ELSE b
Greatest(a, b) == IF a >= b THEN a ELSE b
DivCeil(a, b) == (a + b - 1) \div b

FullBucket(now) == [units |-> Burst * Second, refilled |-> now]

RefillEvenBackwards(b, now) ==  \* mutant
    [units |-> Least(b.units + Rate * Greatest(now - b.refilled, 0), Burst * Second),
     refilled |-> now]

\* A time older than the last refill adds nothing and does not move it back.
Refill(b, now) ==
    IF now < b.refilled
    THEN b
    ELSE [units |-> Least(b.units + Rate * (now - b.refilled), Burst * Second),
          refilled |-> now]

\* Whole seconds until the bucket holds one request, at least one.
RetryAfter(b) == Greatest(DivCeil(DivCeil(Second - b.units, Rate), Second), 1)

\* Bucket::check.
CheckBucket(bucket, now) ==
    LET b == Refill(bucket, now)
    IN  IF b.units >= Second
        THEN [bucket |-> [b EXCEPT !.units = @ - Second], allowed |-> TRUE, retry |-> 0]
        ELSE [bucket |-> b, allowed |-> FALSE, retry |-> RetryAfter(b)]

\* What the map holds for a key, or would make for it.
BucketFor(key, now) ==
    IF key \in DOMAIN buckets THEN buckets[key].bucket ELSE FullBucket(now)

\* The keys whose entry may go: of several oldest ones, HashMap picks any.
Oldest ==
    {k \in DOMAIN buckets :
        \A other \in DOMAIN buckets : buckets[k].accessed <= buckets[other].accessed}

MakesRoom(key) == key \notin DOMAIN buckets /\ Cardinality(DOMAIN buckets) >= MaxBuckets

RateInit ==
    /\ ticks = 0
    /\ buckets = [k \in {} |-> [bucket |-> FullBucket(0), accessed |-> 0]]
    /\ asking = [c \in Callers |-> NoCaller]
    /\ checks = 0
    /\ grants = [k \in Keys |-> << >>]
    /\ told = [k \in Keys |-> NotLimited]

\* The middleware reads the clock and names the key.
ReadClock(c) ==
    /\ asking[c] = NoCaller
    /\ \E key \in Keys : asking' = [asking EXCEPT ![c] = [key |-> key, now |-> ticks]]
    /\ UNCHANGED <<ticks, buckets, checks, grants, told>>

\* BucketMap::check under the mutex, with the eviction it may begin with.
CheckKey(c) ==
    LET key == asking[c].key
        now == asking[c].now
        verdict == CheckBucket(BucketFor(key, now), now)
    IN  /\ asking[c] # NoCaller
        /\ checks < MaxChecks
        /\ \E evicted \in (IF MakesRoom(key) THEN {{k} : k \in Oldest} ELSE {{}}) :
              /\ buckets' = [k \in (DOMAIN buckets \ evicted) \cup {key} |->
                                IF k = key THEN [bucket |-> verdict.bucket, accessed |-> now]
                                           ELSE buckets[k]]
              /\ grants' = [k \in Keys |->
                                CASE k \in evicted -> << >>
                                  [] k = key /\ verdict.allowed ->
                                        Append(grants[k], verdict.bucket.refilled)
                                  [] OTHER -> grants[k]]
        /\ told' = [told EXCEPT ![key] = IF verdict.allowed THEN NotLimited
                                         ELSE [at |-> ticks, retry |-> verdict.retry]]
        /\ asking' = [asking EXCEPT ![c] = NoCaller]
        /\ checks' = checks + 1
        /\ UNCHANGED ticks

RateTick ==
    /\ ticks < MaxTicks
    /\ ticks' = ticks + 1
    /\ UNCHANGED <<buckets, asking, checks, grants, told>>

RateNext ==
    \/ \E c \in Callers : ReadClock(c) \/ CheckKey(c)
    \/ RateTick

----------------------------------------------------------------------------
\* Between any two requests a bucket let through, no more passed than the
\* burst and what the rate added in that time, although requests reach the
\* bucket with times out of order (Bucket::check: no refill, and no step
\* back, for a time before the last refill; never above the capacity).
AllowedWithinRate ==
    \A k \in DOMAIN buckets : \A i, j \in DOMAIN grants[k] :
        i <= j => (j - i + 1) * Second
                    <= Burst * Second + Rate * (grants[k][j] - grants[k][i])

\* A caller that was told to retry after some seconds, and whose key nobody
\* used meanwhile, is let through when it asks again at that time: the
\* rounding never sends it back early, not even when its bucket was evicted
\* or the refusal was worked out from an older clock reading.
RetryIsHonest ==
    \A k \in Keys :
        LET again == told[k].at + told[k].retry * Second
        IN  told[k] # NotLimited => CheckBucket(BucketFor(k, again), again).allowed

\* The limiter lets through neither more than its rate nor less than it told a
\* caller it would.
LimiterIsExact == AllowedWithinRate /\ RetryIsHonest
=============================================================================
