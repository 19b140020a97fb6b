----------------------------- MODULE PartProofs -----------------------------
(***************************************************************************)
(* The parts of the system that share no state with each other and are     *)
(* small enough to be proved side by side: the rate limiter, the OIDC key  *)
(* cache, the job poller and the SCP client.  Each section states the      *)
(* part's inductive invariant, one lemma per step and the theorem.         *)
(***************************************************************************)
EXTENDS RateLimit, KeyCache, JobPoll, Scp, TLAPS

----------------------------------------------------------------------------
(***************************************************************************)
(* The rate limiter, for any keys, rate, burst and size of the map, and for *)
(* clock readings that reach a bucket in any order.                        *)
(***************************************************************************)
BucketRecord == [units : Nat, refilled : Nat]
EntryRecord == [bucket : BucketRecord, accessed : Nat]

RateTypeOK ==
    /\ ticks \in Nat
    /\ buckets \in [DOMAIN buckets -> EntryRecord] /\ DOMAIN buckets \subseteq Keys
    /\ \A c \in Callers : asking[c] = NoCaller \/ asking[c] \in [key : Keys, now : Nat]
    /\ asking \in [Callers -> [key : Keys \cup {"none"}, now : Nat]]
    /\ grants \in [Keys -> Seq(Nat)]
    /\ told \in [Keys -> [at : Nat, retry : Nat]]

\* No time lies in the future and no bucket holds more than the burst; a key
\* without a bucket has no history.
TimesInv ==
    /\ \A c \in Callers : asking[c].now <= ticks
    /\ \A k \in DOMAIN buckets : buckets[k].bucket.refilled <= ticks
    /\ \A k \in DOMAIN buckets : buckets[k].bucket.units <= Burst * Second
    /\ \A k \in Keys \ DOMAIN buckets : grants[k] = << >>

\* What passed since a request, and what could still pass at once, is within
\* the burst and what the rate added since then.
Budget(b, g) ==
    \A i \in 1..Len(g) :
        /\ g[i] <= b.refilled
        /\ (Len(g) - i + 1) * Second + b.units <= Burst * Second + Rate * (b.refilled - g[i])
Within(g) ==
    \A i, j \in 1..Len(g) : i <= j => (j - i + 1) * Second <= Burst * Second + Rate * (g[j] - g[i])

BudgetInv == \A k \in DOMAIN buckets : Budget(buckets[k].bucket, grants[k]) /\ Within(grants[k])

\* A refusal leaves a bucket that the wait it named fills.
PromiseInv ==
    \A k \in Keys : told[k] # NotLimited =>
        /\ told[k].retry > 0
        /\ k \in DOMAIN buckets =>
              /\ buckets[k].bucket.refilled <= told[k].at
              /\ Second <= buckets[k].bucket.units + Rate * (told[k].retry * Second)

RateInv == RateTypeOK /\ TimesInv /\ BudgetInv /\ PromiseInv

RateSpec == RateInit /\ [][RateNext]_rateVars
----------------------------------------------------------------------------
LEMMA Rates == /\ Second \in Nat /\ Second > 0 /\ Rate \in Nat /\ Rate > 0 /\ Burst \in Nat /\ Burst > 0
               /\ Burst * Second \in Nat /\ Second <= Burst * Second
<1>1. Second \in Nat /\ Second > 0 /\ Rate \in Nat /\ Rate > 0 /\ Burst \in Nat /\ Burst > 0
    BY RateAssumption DEF RateAssumption
<1>2. Burst * Second \in Nat /\ Second <= Burst * Second
    BY <1>1
<1>. QED
    BY <1>1, <1>2

LEMMA Spread == \A x, y, z \in Int : Rate * (x - z) = Rate * (x - y) + Rate * (y - z)
BY Rates

LEMMA Grows == \A x \in Nat : Rate * x \in Nat
BY Rates

\* Rounding up never falls short.
LEMMA CeilingCovers ==
    ASSUME NEW a \in Nat, NEW b \in Nat, b > 0
    PROVE  DivCeil(a, b) \in Nat /\ a <= b * DivCeil(a, b)
BY DEF DivCeil

\* The wait a refusal names fills the bucket.
LEMMA RetryCovers ==
    ASSUME NEW b \in BucketRecord, b.units < Second
    PROVE  /\ RetryAfter(b) \in Nat /\ RetryAfter(b) > 0
           /\ Second <= b.units + Rate * (RetryAfter(b) * Second)
<1>1. PICK missing \in Nat : missing = Second - b.units
    BY Rates DEF BucketRecord
<1>2. PICK wait \in Nat : wait = DivCeil(missing, Rate) /\ missing <= Rate * wait
    BY Rates, CeilingCovers
<1>3. PICK seconds \in Nat : seconds = DivCeil(wait, Second) /\ wait <= Second * seconds
    BY Rates, CeilingCovers
<1>4. RetryAfter(b) = Greatest(seconds, 1)
    BY <1>1, <1>2, <1>3 DEF RetryAfter
<1>5. PICK retry \in Nat : retry = RetryAfter(b) /\ retry >= seconds /\ retry > 0
    BY <1>4 DEF Greatest
<1>6. wait <= retry * Second
    <2>1. Second * seconds <= Second * retry
        BY <1>5, Rates
    <2>2. Second * retry = retry * Second
        BY <1>5, Rates
    <2>. QED
        BY <1>3, <2>1, <2>2, Rates
<1>7. Rate * wait <= Rate * (retry * Second)
    <2>1. PICK x \in Nat : x = retry * Second
        BY Rates
    <2>2. Rate * wait <= Rate * x
        BY <1>6, <2>1, Rates
    <2>. QED
        BY <2>1, <2>2
<1>8. PICK y \in Nat : y = Rate * (retry * Second)
    <2>1. retry * Second \in Nat
        BY Rates
    <2>. QED
        BY <2>1, Grows
<1>9. Second <= b.units + y
    BY <1>1, <1>2, <1>7, <1>8, Rates DEF BucketRecord
<1>. QED
    BY <1>5, <1>8, <1>9

\* A refill adds at most what the rate allows, and never takes anything.
LEMMA RefillEffect ==
    ASSUME NEW b \in BucketRecord, NEW now \in Nat, b.units <= Burst * Second
    PROVE  /\ Refill(b, now) \in BucketRecord
           /\ Refill(b, now).units <= Burst * Second
           /\ b.refilled <= Refill(b, now).refilled
           /\ Refill(b, now).units <= b.units + Rate * (Refill(b, now).refilled - b.refilled)
           /\ Refill(b, now).refilled = Greatest(now, b.refilled)
<1>1. b.units \in Nat /\ b.refilled \in Nat
    BY DEF BucketRecord
<1>2. CASE now < b.refilled
    <2>1. Refill(b, now) = b
        BY <1>2 DEF Refill
    <2>2. b.refilled - b.refilled = 0 /\ Rate * 0 = 0
        BY <1>1, Rates
    <2>. QED
        BY <1>1, <1>2, <2>1, <2>2 DEF Greatest
<1>3. CASE ~(now < b.refilled)
    <2>1. PICK added \in Nat : added = Rate * (now - b.refilled)
        <3>1. now - b.refilled \in Nat
            BY <1>1, <1>3
        <3>. QED
            BY <3>1, Grows
    <2>2. PICK units \in Nat : units = Least(b.units + added, Burst * Second)
        BY <1>1, Rates DEF Least
    <2>3. Refill(b, now) = [units |-> units, refilled |-> now]
        BY <1>3, <2>1, <2>2 DEF Refill
    <2>4. units <= Burst * Second /\ units <= b.units + added
        BY <1>1, <2>2, Rates DEF Least
    <2>. QED
        BY <1>1, <1>3, <2>1, <2>3, <2>4 DEF BucketRecord, Greatest
<1>. QED
    BY <1>2, <1>3

LEMMA RefillKeepsBudget ==
    ASSUME NEW b \in BucketRecord, NEW c \in BucketRecord, NEW g \in Seq(Nat), Budget(b, g),
           b.refilled <= c.refilled, c.units <= b.units + Rate * (c.refilled - b.refilled)
    PROVE  Budget(c, g)
<1> SUFFICES ASSUME NEW i \in 1..Len(g)
             PROVE  /\ g[i] <= c.refilled
                    /\ (Len(g) - i + 1) * Second + c.units <= Burst * Second + Rate * (c.refilled - g[i])
    BY DEF Budget
<1>1. /\ b.units \in Nat /\ b.refilled \in Nat /\ c.units \in Nat /\ c.refilled \in Nat
      /\ g[i] \in Nat /\ Len(g) \in Nat /\ i \in Int
    BY DEF BucketRecord
<1>2. PICK spent \in Int : spent = (Len(g) - i + 1) * Second
    BY <1>1, Rates
<1>3. PICK old \in Int : old = Rate * (b.refilled - g[i])
    BY <1>1, Rates
<1>4. PICK added \in Int : added = Rate * (c.refilled - b.refilled)
    BY <1>1, Rates
<1>5. Rate * (c.refilled - g[i]) = added + old
    <2>1. PICK x \in Int, y \in Int, z \in Int : x = c.refilled /\ y = b.refilled /\ z = g[i]
        BY <1>1
    <2>2. Rate * (x - z) = Rate * (x - y) + Rate * (y - z)
        BY <2>1, Spread
    <2>. QED
        BY <1>3, <1>4, <2>1, <2>2
<1>6. g[i] <= b.refilled /\ spent + b.units <= Burst * Second + old
    BY <1>2, <1>3 DEF Budget
<1>7. spent + c.units <= Burst * Second + (added + old)
    <2>1. PICK cap \in Nat : cap = Burst * Second
        BY Rates
    <2>2. c.units <= b.units + added
        BY <1>4
    <2>3. spent + b.units <= cap + old
        BY <1>6, <2>1
    <2>4. spent + c.units <= cap + (added + old)
        BY <1>1, <2>2, <2>3, SMTT(40)
    <2>. QED
        BY <2>1, <2>4
<1>. QED
    BY <1>1, <1>2, <1>5, <1>6, <1>7, SMTT(40)

LEMMA GrantKeepsBudget ==
    ASSUME NEW c \in BucketRecord, NEW d \in BucketRecord, NEW g \in Seq(Nat), Budget(c, g), Within(g),
           c.units <= Burst * Second, d.units = c.units - Second, d.refilled = c.refilled
    PROVE  Budget(d, Append(g, c.refilled)) /\ Within(Append(g, c.refilled))
<1> DEFINE new == Append(g, c.refilled)
<1>1. c.units \in Nat /\ d.units \in Nat /\ c.refilled \in Nat /\ Len(g) \in Nat
    BY DEF BucketRecord
<1>2. new \in Seq(Nat) /\ Len(new) = Len(g) + 1 /\ new[Len(g) + 1] = c.refilled
      /\ \A i \in 1..Len(g) : new[i] = g[i] /\ g[i] \in Nat
    BY <1>1
<1>3. PICK cap \in Nat : cap = Burst * Second
    BY Rates
<1> HIDE DEF new
<1>4. ASSUME NEW i \in 1..Len(new)
      PROVE  /\ new[i] <= d.refilled
             /\ (Len(new) - i + 1) * Second + d.units <= cap + Rate * (d.refilled - new[i])
    <2>1. CASE i = Len(g) + 1
        <3>1. (Len(new) - i + 1) * Second = Second /\ new[i] = c.refilled
            BY <1>1, <1>2, <2>1, Rates
        <3>2. Rate * (d.refilled - new[i]) = 0
            BY <1>1, <3>1, Rates
        <3>. QED
            BY <1>1, <1>3, <3>1, <3>2, Rates
    <2>2. CASE i # Len(g) + 1
        <3>1. i \in 1..Len(g)
            BY <1>1, <1>2, <2>2
        <3>2. new[i] = g[i] /\ g[i] \in Nat /\ i \in Int
            BY <1>2, <3>1
        <3>3. g[i] <= c.refilled /\ (Len(g) - i + 1) * Second + c.units <= cap + Rate * (c.refilled - g[i])
            BY <1>3, <3>1 DEF Budget
        <3>4. PICK spent \in Int : spent = (Len(g) - i + 1) * Second
            BY <1>1, <3>2, Rates
        <3>5. (Len(new) - i + 1) * Second = spent + Second
            <4>1. PICK n \in Int : n = Len(g) - i + 1
                <5>1. Len(g) - i + 1 \in Int
                    BY <1>1, <3>2
                <5>. QED
                    BY <5>1, Zenon
            <4>2. Len(new) - i + 1 = n + 1
                BY <1>1, <1>2, <3>2, <4>1
            <4>3. (n + 1) * Second = n * Second + Second
                BY <4>1, Rates
            <4>. QED
                BY <3>4, <4>1, <4>2, <4>3
        <3>6. PICK gained \in Int : gained = Rate * (c.refilled - g[i])
            BY <1>1, <3>2, Rates
        <3>7. spent + c.units <= cap + gained
            BY <3>3, <3>4, <3>6
        <3>8. (spent + Second) + d.units <= cap + gained
            BY <1>1, <3>7, Rates
        <3>. QED
            BY <3>2, <3>3, <3>5, <3>6, <3>8
    <2>. QED
        BY <2>1, <2>2
<1>5. Budget(d, new)
    BY <1>3, <1>4 DEF Budget
<1>6. ASSUME NEW i \in 1..Len(new), NEW j \in 1..Len(new), i <= j
      PROVE  (j - i + 1) * Second <= cap + Rate * (new[j] - new[i])
    <2>1. CASE j = Len(new)
        <3>1. new[j] = d.refilled /\ new[i] \in Nat
            BY <1>2, <2>1
        <3>2. (j - i + 1) * Second + d.units <= cap + Rate * (new[j] - new[i])
            BY <1>4, <2>1, <3>1
        <3>3. PICK spent \in Int : spent = (j - i + 1) * Second
            BY Rates
        <3>4. PICK gained \in Int : gained = Rate * (new[j] - new[i])
            BY <1>1, <3>1, Rates
        <3>. QED
            BY <1>1, <3>2, <3>3, <3>4
    <2>2. CASE j # Len(new)
        <3>1. j \in 1..Len(g) /\ i \in 1..Len(g)
            BY <1>1, <1>2, <1>6, <2>2
        <3>. QED
            BY <1>2, <1>3, <1>6, <3>1 DEF Within
    <2>. QED
        BY <2>1, <2>2
<1>7. Within(new)
    BY <1>3, <1>6 DEF Within
<1>. QED
    BY <1>5, <1>7 DEF new

\* Bucket::check keeps the budget, and a refusal names a wait that suffices.
LEMMA CheckEffect ==
    ASSUME NEW b \in BucketRecord, b.units <= Burst * Second, NEW now \in Nat, NEW g \in Seq(Nat),
           Budget(b, g), Within(g), NEW v, v = CheckBucket(b, now)
    PROVE  /\ v.bucket \in BucketRecord /\ v.bucket.units <= Burst * Second
           /\ v.bucket.refilled = Greatest(now, b.refilled) /\ v.allowed \in BOOLEAN
           /\ v.allowed => /\ Budget(v.bucket, Append(g, v.bucket.refilled))
                           /\ Within(Append(g, v.bucket.refilled))
           /\ ~v.allowed => /\ Budget(v.bucket, g) /\ v.retry \in Nat /\ v.retry > 0
                            /\ Second <= v.bucket.units + Rate * (v.retry * Second)
<1>1. PICK c \in BucketRecord :
          /\ c = Refill(b, now) /\ c.units <= Burst * Second /\ b.refilled <= c.refilled
          /\ c.units <= b.units + Rate * (c.refilled - b.refilled)
          /\ c.refilled = Greatest(now, b.refilled)
    BY RefillEffect
<1>2. Budget(c, g)
    BY <1>1, RefillKeepsBudget
<1>3. c.units \in Nat
    BY DEF BucketRecord
<1>4. CASE c.units >= Second
    <2>1. PICK units \in Nat : units = c.units - Second
        BY <1>3, <1>4, Rates
    <2>2. v = [bucket |-> [c EXCEPT !.units = units], allowed |-> TRUE, retry |-> 0]
        BY <1>1, <1>4, <2>1 DEF CheckBucket, BucketRecord
    <2>3. v.bucket \in BucketRecord /\ v.bucket.units = units /\ v.bucket.refilled = c.refilled /\ v.allowed = TRUE
        BY <2>2 DEF BucketRecord
    <2>4. PICK d \in BucketRecord : d = v.bucket
        BY <2>3
    <2>5. Budget(d, Append(g, c.refilled)) /\ Within(Append(g, c.refilled))
        BY <1>1, <1>2, <2>1, <2>3, <2>4, GrantKeepsBudget
    <2>6. units <= Burst * Second
        BY <1>1, <1>3, <2>1, Rates
    <2>. QED
        BY <1>1, <2>3, <2>4, <2>5, <2>6
<1>5. CASE ~(c.units >= Second)
    <2>1. v = [bucket |-> c, allowed |-> FALSE, retry |-> RetryAfter(c)]
        BY <1>1, <1>5 DEF CheckBucket
    <2>2. v.bucket = c /\ v.allowed = FALSE /\ v.retry = RetryAfter(c)
        BY <2>1
    <2>3. c.units < Second
        BY <1>3, <1>5, Rates
    <2>. QED
        BY <1>1, <1>2, <2>2, <2>3, RetryCovers
<1>. QED
    BY <1>4, <1>5

LEMMA RateInitial == RateInit => RateInv
<1> SUFFICES ASSUME RateInit PROVE RateInv
    OBVIOUS
<1>1. /\ ticks = 0 /\ asking = [c \in Callers |-> NoCaller] /\ DOMAIN buckets = {}
      /\ grants = [k \in Keys |-> << >>] /\ told = [k \in Keys |-> NotLimited]
      /\ buckets = [k \in {} |-> [bucket |-> FullBucket(0), accessed |-> 0]]
    BY DEF RateInit
<1>2. << >> \in Seq(Nat)
    OBVIOUS
<1>3. RateTypeOK
    <2>1. buckets \in [DOMAIN buckets -> EntryRecord] /\ DOMAIN buckets \subseteq Keys
        BY <1>1
    <2>2. grants \in [Keys -> Seq(Nat)]
        BY <1>1, <1>2
    <2>3. NoCaller \in [key : Keys \cup {"none"}, now : Nat] /\ NotLimited \in [at : Nat, retry : Nat]
        BY DEF NoCaller, NotLimited
    <2>. QED
        BY <1>1, <2>1, <2>2, <2>3 DEF RateTypeOK
<1>4. TimesInv
    BY <1>1 DEF TimesInv, NoCaller
<1>5. BudgetInv
    BY <1>1 DEF BudgetInv
<1>6. PromiseInv
    BY <1>1 DEF PromiseInv
<1>. QED
    BY <1>3, <1>4, <1>5, <1>6 DEF RateInv

LEMMA ReadClockStep ==
    ASSUME RateInv, NEW c \in Callers, ReadClock(c)
    PROVE  RateInv'
<1>1. PICK key \in Keys : asking' = [asking EXCEPT ![c] = [key |-> key, now |-> ticks]]
    BY DEF ReadClock
<1>2. UNCHANGED <<ticks, buckets, checks, grants, told>>
    BY DEF ReadClock
<1>3. asking \in [Callers -> [key : Keys \cup {"none"}, now : Nat]] /\ ticks \in Nat
    BY DEF RateInv, RateTypeOK
<1>4. PICK new \in [key : Keys, now : Nat] : new = [key |-> key, now |-> ticks]
    BY <1>3
<1>5. asking' = [asking EXCEPT ![c] = new] /\ new.now = ticks /\ new \in [key : Keys \cup {"none"}, now : Nat]
    BY <1>1, <1>4
<1>6. asking' \in [Callers -> [key : Keys \cup {"none"}, now : Nat]]
    BY <1>3, <1>5
<1>7. \A d \in Callers : asking'[d] = IF d = c THEN new ELSE asking[d]
    BY <1>3, <1>5
<1>8. RateTypeOK'
    BY <1>2, <1>4, <1>6, <1>7 DEF RateInv, RateTypeOK
<1>9. TimesInv'
    BY <1>2, <1>3, <1>5, <1>7 DEF RateInv, TimesInv
<1>10. BudgetInv' /\ PromiseInv'
    BY <1>2 DEF RateInv, BudgetInv, PromiseInv
<1>. QED
    BY <1>8, <1>9, <1>10 DEF RateInv

LEMMA RateTickStep == RateInv /\ RateTick => RateInv'
<1> SUFFICES ASSUME RateInv, RateTick PROVE RateInv'
    OBVIOUS
<1>1. ticks' = ticks + 1 /\ UNCHANGED <<buckets, asking, checks, grants, told>> /\ ticks \in Nat
    BY DEF RateTick, RateInv, RateTypeOK
<1>2. RateTypeOK'
    BY <1>1 DEF RateInv, RateTypeOK
<1>3. TimesInv'
    <2>1. \A c \in Callers : asking[c].now \in Nat
        BY DEF RateInv, RateTypeOK
    <2>2. \A k \in DOMAIN buckets : buckets[k].bucket.refilled \in Nat
        BY DEF RateInv, RateTypeOK, EntryRecord, BucketRecord
    <2>3. \A c \in Callers : asking'[c].now <= ticks'
        BY <1>1, <2>1 DEF RateInv, TimesInv
    <2>4. \A k \in DOMAIN buckets' : buckets'[k].bucket.refilled <= ticks'
        BY <1>1, <2>2 DEF RateInv, TimesInv
    <2>5. \A k \in DOMAIN buckets' : buckets'[k].bucket.units <= Burst * Second
        BY <1>1 DEF RateInv, TimesInv
    <2>6. \A k \in Keys \ DOMAIN buckets' : grants'[k] = << >>
        BY <1>1 DEF RateInv, TimesInv
    <2>. QED
        BY <2>3, <2>4, <2>5, <2>6 DEF TimesInv
<1>4. BudgetInv' /\ PromiseInv'
    BY <1>1 DEF RateInv, BudgetInv, PromiseInv
<1>. QED
    BY <1>2, <1>3, <1>4 DEF RateInv

\* The bucket a key is checked against: its own, or a full one without history.
LEMMA BucketForKey ==
    ASSUME RateInv, NEW key \in Keys, NEW now \in Nat, now <= ticks
    PROVE  LET b == BucketFor(key, now)
           IN  /\ b \in BucketRecord /\ b.units <= Burst * Second /\ b.refilled <= ticks
               /\ grants[key] \in Seq(Nat) /\ Budget(b, grants[key]) /\ Within(grants[key])
<1>1. grants[key] \in Seq(Nat)
    BY DEF RateInv, RateTypeOK
<1>2. CASE key \in DOMAIN buckets
    <2>1. BucketFor(key, now) = buckets[key].bucket
        BY <1>2 DEF BucketFor
    <2>2. buckets[key].bucket \in BucketRecord
        BY <1>2 DEF RateInv, RateTypeOK, EntryRecord
    <2>. QED
        BY <1>1, <1>2, <2>1, <2>2 DEF RateInv, TimesInv, BudgetInv
<1>3. CASE key \notin DOMAIN buckets
    <2>1. PICK cap \in Nat : cap = Burst * Second
        BY Rates
    <2>2. BucketFor(key, now) = [units |-> cap, refilled |-> now]
        BY <1>3, <2>1 DEF BucketFor, FullBucket
    <2>3. grants[key] = << >>
        BY <1>3 DEF RateInv, TimesInv
    <2>4. Budget([units |-> cap, refilled |-> now], << >>) /\ Within(<< >>)
        BY DEF Budget, Within
    <2>5. [units |-> cap, refilled |-> now] \in BucketRecord
        BY <2>1 DEF BucketRecord
    <2>. QED
        BY <1>1, <2>1, <2>2, <2>3, <2>4, <2>5
<1>. QED
    BY <1>2, <1>3

LEMMA CheckKeyStep ==
    ASSUME RateInv, NEW c \in Callers, CheckKey(c)
    PROVE  RateInv'
<1>1. PICK key \in Keys, now \in Nat : key = asking[c].key /\ now = asking[c].now /\ now <= ticks
    <2>1. asking[c] \in [key : Keys, now : Nat]
        BY DEF RateInv, RateTypeOK, CheckKey
    <2>. QED
        BY <2>1 DEF RateInv, TimesInv
<1>2. PICK b \in BucketRecord :
          /\ b = BucketFor(key, now) /\ b.units <= Burst * Second /\ b.refilled <= ticks
          /\ grants[key] \in Seq(Nat) /\ Budget(b, grants[key]) /\ Within(grants[key])
    BY <1>1, BucketForKey
<1>3. PICK v : v = CheckBucket(b, now)
    OBVIOUS
<1>4. /\ v.bucket \in BucketRecord /\ v.bucket.units <= Burst * Second
      /\ v.bucket.refilled = Greatest(now, b.refilled) /\ v.allowed \in BOOLEAN
      /\ v.allowed => /\ Budget(v.bucket, Append(grants[key], v.bucket.refilled))
                      /\ Within(Append(grants[key], v.bucket.refilled))
      /\ ~v.allowed => /\ Budget(v.bucket, grants[key]) /\ v.retry \in Nat /\ v.retry > 0
                       /\ Second <= v.bucket.units + Rate * (v.retry * Second)
    BY <1>2, <1>3, CheckEffect
<1> DEFINE Evictable(x) == IF MakesRoom(x) THEN {{k} : k \in Oldest} ELSE {{}}
           Effect(x, n, w, e) ==
              /\ buckets' = [k \in (DOMAIN buckets \ e) \cup {x} |->
                                IF k = x THEN [bucket |-> w.bucket, accessed |-> n] ELSE buckets[k]]
              /\ grants' = [k \in Keys |->
                                CASE k \in e -> << >>
                                  [] k = x /\ w.allowed -> Append(grants[k], w.bucket.refilled)
                                  [] OTHER -> grants[k]]
<1>4a. \E e \in Evictable(asking[c].key) :
          Effect(asking[c].key, asking[c].now,
                 CheckBucket(BucketFor(asking[c].key, asking[c].now), asking[c].now), e)
    BY Zenon DEF CheckKey
<1>4b. \E e \in Evictable(key) : Effect(key, now, v, e)
    <2> HIDE DEF Evictable, Effect
    <2>. QED
        BY <1>4a, <1>1, <1>2, <1>3
<1>5. PICK evicted \in (IF MakesRoom(key) THEN {{k} : k \in Oldest} ELSE {{}}) :
          /\ buckets' = [k \in (DOMAIN buckets \ evicted) \cup {key} |->
                            IF k = key THEN [bucket |-> v.bucket, accessed |-> now]
                                       ELSE buckets[k]]
          /\ grants' = [k \in Keys |->
                            CASE k \in evicted -> << >>
                              [] k = key /\ v.allowed ->
                                    Append(grants[k], v.bucket.refilled)
                              [] OTHER -> grants[k]]
    BY <1>4b, Zenon
<1>6. /\ told' = [told EXCEPT ![key] = IF v.allowed THEN NotLimited
                                       ELSE [at |-> ticks, retry |-> v.retry]]
      /\ asking' = [asking EXCEPT ![c] = NoCaller] /\ ticks' = ticks
    BY <1>1, <1>2, <1>3, Zenon DEF CheckKey
<1>7. evicted \subseteq DOMAIN buckets /\ key \notin evicted
    BY <1>5 DEF MakesRoom, Oldest
<1>8. /\ ticks \in Nat /\ buckets \in [DOMAIN buckets -> EntryRecord] /\ DOMAIN buckets \subseteq Keys
      /\ asking \in [Callers -> [key : Keys \cup {"none"}, now : Nat]]
      /\ grants \in [Keys -> Seq(Nat)] /\ told \in [Keys -> [at : Nat, retry : Nat]]
    BY DEF RateInv, RateTypeOK
<1>9. DOMAIN buckets' = (DOMAIN buckets \ evicted) \cup {key} /\ DOMAIN buckets' \subseteq Keys
    BY <1>5, <1>8
<1>10. \A k \in DOMAIN buckets' \ {key} : k \in DOMAIN buckets /\ buckets'[k] = buckets[k] /\ k \notin evicted
    BY <1>5, <1>9
<1>11. PICK entry \in EntryRecord : entry = [bucket |-> v.bucket, accessed |-> now]
    BY <1>1, <1>4 DEF EntryRecord
<1>12. buckets'[key] = entry /\ entry.bucket = v.bucket
    BY <1>5, <1>9, <1>11
<1>13. v.bucket.refilled <= ticks /\ v.bucket.refilled \in Nat
    <2>1. b.refilled \in Nat /\ v.bucket.refilled \in Nat
        BY <1>4 DEF BucketRecord
    <2>. QED
        BY <1>1, <1>2, <1>4, <1>8, <2>1 DEF Greatest
<1>14. /\ \A k \in Keys : k \in evicted => grants'[k] = << >>
       /\ \A k \in Keys : k \notin evicted /\ k # key => grants'[k] = grants[k]
       /\ grants'[key] = IF v.allowed THEN Append(grants[key], v.bucket.refilled) ELSE grants[key]
    <2>1. ASSUME NEW k \in Keys
          PROVE  grants'[k] = CASE k \in evicted -> << >>
                              [] k = key /\ v.allowed -> Append(grants[k], v.bucket.refilled)
                              [] OTHER -> grants[k]
        BY <1>5
    <2>2. grants'[key] = IF v.allowed THEN Append(grants[key], v.bucket.refilled) ELSE grants[key]
        BY <1>1, <1>4, <1>7, <2>1, Zenon
    <2>3. ASSUME NEW k \in Keys, k \in evicted PROVE grants'[k] = << >>
        BY <1>7, <2>1, <2>3, Zenon
    <2>4. ASSUME NEW k \in Keys, k \notin evicted, k # key PROVE grants'[k] = grants[k]
        BY <2>1, <2>4, Zenon
    <2>. QED
        BY <2>2, <2>3, <2>4
<1>15. \A k \in Keys : grants'[k] \in Seq(Nat)
    <2>1. << >> \in Seq(Nat)
        OBVIOUS
    <2>2. Append(grants[key], v.bucket.refilled) \in Seq(Nat)
        BY <1>2, <1>13
    <2>. QED
        BY <1>8, <1>14, <2>1, <2>2
<1>16. /\ \A k \in Keys : k # key => told'[k] = told[k]
       /\ told'[key] = IF v.allowed THEN NotLimited ELSE [at |-> ticks, retry |-> v.retry]
    BY <1>6, <1>8
<1>17. \A d \in Callers : asking'[d] = IF d = c THEN NoCaller ELSE asking[d]
    BY <1>6, <1>8
<1>18. RateTypeOK'
    <2>1. buckets' \in [DOMAIN buckets' -> EntryRecord]
        BY <1>5, <1>8, <1>9, <1>10, <1>12
    <2>2. grants' \in [Keys -> Seq(Nat)]
        BY <1>5, <1>15
    <2>3. told' \in [Keys -> [at : Nat, retry : Nat]]
        <3>1. NotLimited \in [at : Nat, retry : Nat]
            BY DEF NotLimited
        <3>2. ~v.allowed => [at |-> ticks, retry |-> v.retry] \in [at : Nat, retry : Nat]
            BY <1>4, <1>8
        <3>. QED
            BY <1>6, <1>8, <3>1, <3>2
    <2>4. asking' \in [Callers -> [key : Keys \cup {"none"}, now : Nat]]
        <3>1. NoCaller \in [key : Keys \cup {"none"}, now : Nat]
            BY DEF NoCaller
        <3>. QED
            BY <1>6, <1>8, <3>1
    <2>5. \A d \in Callers : asking'[d] = NoCaller \/ asking'[d] \in [key : Keys, now : Nat]
        BY <1>17 DEF RateInv, RateTypeOK
    <2>. QED
        BY <1>6, <1>8, <1>9, <2>1, <2>2, <2>3, <2>4, <2>5 DEF RateTypeOK
<1>19. TimesInv'
    <2>1. \A d \in Callers : asking'[d].now <= ticks
        <3>1. NoCaller.now <= ticks
            BY <1>8 DEF NoCaller
        <3>. QED
            BY <1>17, <3>1 DEF RateInv, TimesInv
    <2>2. \A k \in DOMAIN buckets' : buckets'[k].bucket.refilled <= ticks
        BY <1>10, <1>12, <1>13 DEF RateInv, TimesInv
    <2>3. \A k \in DOMAIN buckets' : buckets'[k].bucket.units <= Burst * Second
        BY <1>4, <1>10, <1>12 DEF RateInv, TimesInv
    <2>4. \A k \in Keys \ DOMAIN buckets' : grants'[k] = << >>
        BY <1>9, <1>14 DEF RateInv, TimesInv
    <2>. QED
        BY <1>6, <2>1, <2>2, <2>3, <2>4 DEF TimesInv
<1>20. BudgetInv'
    <2>1. Budget(v.bucket, grants'[key]) /\ Within(grants'[key])
        BY <1>2, <1>4, <1>14
    <2>2. ASSUME NEW k \in DOMAIN buckets', k # key
          PROVE  Budget(buckets'[k].bucket, grants'[k]) /\ Within(grants'[k])
        BY <1>9, <1>10, <1>14, <2>2 DEF RateInv, BudgetInv
    <2>3. ASSUME NEW k \in DOMAIN buckets'
          PROVE  Budget(buckets'[k].bucket, grants'[k]) /\ Within(grants'[k])
        BY <1>12, <2>1, <2>2
    <2>. QED
        BY <2>3 DEF BudgetInv, Budget, Within
<1>21. PromiseInv'
    <2> SUFFICES ASSUME NEW k \in Keys, told'[k] # NotLimited
                 PROVE  /\ told'[k].retry > 0
                        /\ k \in DOMAIN buckets' =>
                              /\ buckets'[k].bucket.refilled <= told'[k].at
                              /\ Second <= buckets'[k].bucket.units + Rate * (told'[k].retry * Second)
        BY DEF PromiseInv
    <2>1. CASE k = key
        <3>1. ~v.allowed /\ told'[k].at = ticks /\ told'[k].retry = v.retry
            BY <1>16, <2>1
        <3>. QED
            BY <1>4, <1>12, <1>13, <2>1, <3>1
    <2>2. CASE k # key
        <3>1. told[k] # NotLimited /\ told'[k] = told[k]
            BY <1>16, <2>2
        <3>. QED
            BY <1>10, <2>2, <3>1 DEF RateInv, PromiseInv
    <2>. QED
        BY <2>1, <2>2
<1>. QED
    BY <1>18, <1>19, <1>20, <1>21 DEF RateInv

LEMMA RateStep == RateInv /\ [RateNext]_rateVars => RateInv'
<1> SUFFICES ASSUME RateInv, [RateNext]_rateVars PROVE RateInv'
    OBVIOUS
<1>1. CASE UNCHANGED rateVars
    BY <1>1 DEF rateVars, RateInv, RateTypeOK, TimesInv, BudgetInv, PromiseInv
<1>2. CASE RateNext
    BY <1>2, ReadClockStep, CheckKeyStep, RateTickStep DEF RateNext
<1>. QED
    BY <1>1, <1>2

\* A refused key that waited as long as it was told is let through.
LEMMA WaitSuffices ==
    ASSUME RateInv, NEW k \in Keys, told[k] # NotLimited,
           NEW again, again = told[k].at + told[k].retry * Second
    PROVE  CheckBucket(BucketFor(k, again), again).allowed
<1>1. told[k].at \in Nat /\ told[k].retry \in Nat
    BY DEF RateInv, RateTypeOK
<1>2. PICK wait \in Nat : wait = told[k].retry * Second
    BY <1>1, Rates
<1>3. again \in Nat /\ again = told[k].at + wait
    BY <1>1, <1>2
<1>4. PICK cap \in Nat : cap = Burst * Second /\ Second <= cap
    BY Rates
<1> SUFFICES Refill(BucketFor(k, again), again).units >= Second
    BY DEF CheckBucket
<1>5. CASE k \notin DOMAIN buckets
    <2>1. BucketFor(k, again) = [units |-> cap, refilled |-> again]
        BY <1>4, <1>5 DEF BucketFor, FullBucket
    <2>2. Refill([units |-> cap, refilled |-> again], again).units = Least(cap + Rate * (again - again), cap)
        BY <1>3, <1>4 DEF Refill
    <2>3. Rate * (again - again) = 0
        BY <1>3, Rates
    <2>. QED
        BY <1>4, <2>1, <2>2, <2>3, Rates DEF Least
<1>6. CASE k \in DOMAIN buckets
    <2>1. PICK b \in BucketRecord : b = buckets[k].bucket
        BY <1>6 DEF RateInv, RateTypeOK, EntryRecord
    <2>2. b.units \in Nat /\ b.refilled \in Nat
        BY DEF BucketRecord
    <2>3. b.refilled <= told[k].at /\ Second <= b.units + Rate * wait
        BY <1>2, <1>6, <2>1 DEF RateInv, PromiseInv
    <2>4. PICK gap \in Nat : gap = again - b.refilled /\ wait <= gap
        BY <1>1, <1>3, <2>2, <2>3
    <2>5. Rate * wait <= Rate * gap
        BY <2>4, Rates
    <2>6. PICK least \in Nat, most \in Nat : least = Rate * wait /\ most = Rate * gap
        BY Grows
    <2>7. Refill(b, again).units = Least(b.units + most, cap)
        BY <1>1, <1>3, <1>4, <2>2, <2>3, <2>4, <2>6 DEF Refill
    <2>8. Second <= b.units + most
        BY <2>2, <2>3, <2>5, <2>6, Rates
    <2>9. BucketFor(k, again) = b
        BY <1>6, <2>1 DEF BucketFor
    <2>. QED
        BY <1>4, <2>2, <2>7, <2>8, <2>9, Rates DEF Least
<1>. QED
    BY <1>5, <1>6

\* The rate limiter lets through no more than the burst and what the rate added
\* between any two requests it let through, although threads reach a bucket
\* with clock readings out of order, and lets a caller through that waited as
\* long as it was told to (rate_limit.rs: Bucket::check, BucketMap::check):
\* for any keys, any rate and burst, any map size and any clock resolution.
THEOREM LimiterStaysExact == RateSpec => []LimiterIsExact
<1>1. RateInv => LimiterIsExact
    <2> SUFFICES ASSUME RateInv PROVE AllowedWithinRate /\ RetryIsHonest
        BY DEF LimiterIsExact
    <2>1. AllowedWithinRate
        <3> SUFFICES ASSUME NEW k \in DOMAIN buckets, NEW i \in DOMAIN grants[k], NEW j \in DOMAIN grants[k], i <= j
                     PROVE  (j - i + 1) * Second <= Burst * Second + Rate * (grants[k][j] - grants[k][i])
            BY DEF AllowedWithinRate
        <3>1. Within(grants[k])
            BY DEF RateInv, BudgetInv
        <3>2. DOMAIN grants[k] = 1..Len(grants[k])
            BY DEF RateInv, RateTypeOK
        <3>. QED
            BY <3>1, <3>2 DEF Within
    <2>2. RetryIsHonest
        BY WaitSuffices DEF RetryIsHonest
    <2>. QED
        BY <2>1, <2>2
<1>. QED
    BY <1>1, RateInitial, RateStep, PTL DEF RateSpec

----------------------------------------------------------------------------
(***************************************************************************)
(* The key cache through an outage of the identity provider, for any       *)
(* number of callers and every interval.                                   *)
(***************************************************************************)
CallSteps == {"idle", "queued", "discovery", "jwks", "served", "refused"}
CallRecord == [step : CallSteps, now : Int, keysOf : Int]

KeyTypeOK ==
    /\ keyTicks \in Nat
    /\ fetched \in Int /\ attempted \in Int
    /\ call \in [Verifiers -> CallRecord]
    /\ begun \in Int \X Int

\* The last attempt is the newest one begun, no time lies in the future, and
\* what a call was served was young enough by the time it measures with.
AttemptInv ==
    /\ begun[1] = attempted
    /\ attempted <= keyTicks /\ fetched <= keyTicks
    /\ begun[1] = Never => begun[2] = Never
    /\ \A v \in Verifiers : call[v].now <= keyTicks

KeyInv == KeyTypeOK /\ AttemptInv /\ OutageIsBounded

LEMMA Intervals == RefreshInterval \in Nat /\ RetryBackoff \in Nat /\ MaxKeyAge \in Nat
                   /\ RefreshInterval > 0 /\ RetryBackoff > 0 /\ MaxKeyAge > 0
BY CacheAssumption DEF CacheAssumption

LEMMA KeyInitial == KeyInit => KeyInv
BY Intervals DEF KeyInit, KeyInv, KeyTypeOK, AttemptInv, OutageIsBounded, Never, NoCall, CallRecord, CallSteps

\* A call that changes only its own record, to one that was not served or was
\* served young keys, keeps the invariant.
LEMMA OwnRecordOnly ==
    ASSUME KeyInv, NEW v \in Verifiers, NEW r \in CallRecord,
           call' = [call EXCEPT ![v] = r],
           r.now <= keyTicks,
           r.step = "served" => r.now - r.keysOf < MaxKeyAge \/ r.now - r.keysOf < RefreshInterval,
           UNCHANGED <<keyTicks, attempted, begun>>,
           fetched' \in Int, fetched' <= keyTicks
    PROVE  KeyInv'
<1>1. \A u \in Verifiers : call'[u] = IF u = v THEN r ELSE call[u]
    BY DEF KeyInv, KeyTypeOK
<1>2. KeyTypeOK'
    BY DEF KeyInv, KeyTypeOK
<1>3. AttemptInv'
    BY <1>1 DEF KeyInv, AttemptInv
<1>4. OutageIsBounded'
    BY <1>1 DEF KeyInv, OutageIsBounded
<1>. QED
    BY <1>2, <1>3, <1>4 DEF KeyInv
----------------------------------------------------------------------------
(* One lemma per action *)

LEMMA ServeStaleKeeps ==
    ASSUME KeyInv, NEW v \in Verifiers, NEW now \in Int, now <= keyTicks,
           ServeStaleOrFail(v, now), UNCHANGED <<keyTicks, jwksUri, fetched, attempted, begun>>
    PROVE  KeyInv'
<1> DEFINE r == IF fetched # Never /\ now - fetched < MaxKeyAge
                THEN [step |-> "served", now |-> now, keysOf |-> fetched]
                ELSE [step |-> "refused", now |-> now, keysOf |-> Never]
<1>1. call' = [call EXCEPT ![v] = r]
    BY DEF ServeStaleOrFail
<1>2. r \in CallRecord /\ r.now <= keyTicks
      /\ (r.step = "served" => r.now - r.keysOf < MaxKeyAge)
    BY Intervals DEF KeyInv, KeyTypeOK, CallRecord, CallSteps, Never
<1>3. fetched' \in Int /\ fetched' <= keyTicks
    BY DEF KeyInv, KeyTypeOK, AttemptInv
<1> HIDE DEF r
<1>. QED
    BY <1>1, <1>2, <1>3, OwnRecordOnly

LEMMA CallKeysKeeps == ASSUME KeyInv, NEW v \in Verifiers, CallKeys(v) PROVE KeyInv'
<1> DEFINE r == [NoCall EXCEPT !.step = "queued"]
<1>1. r \in CallRecord /\ r.now <= keyTicks /\ r.step # "served"
    BY DEF KeyInv, KeyTypeOK, CallRecord, CallSteps, NoCall, Never
<1>2. call' = [call EXCEPT ![v] = r] /\ fetched' \in Int /\ fetched' <= keyTicks
    BY DEF CallKeys, KeyInv, KeyTypeOK, AttemptInv
<1>3. UNCHANGED <<keyTicks, attempted, begun>>
    BY DEF CallKeys
<1> HIDE DEF r
<1>. QED
    BY <1>1, <1>2, <1>3, OwnRecordOnly

LEMMA AnswerFromCacheKeeps == ASSUME KeyInv, NEW v \in Verifiers, AnswerFromCache(v) PROVE KeyInv'
<1>1. CASE IsFresh(keyTicks)
    <2> DEFINE r == [step |-> "served", now |-> keyTicks, keysOf |-> fetched]
    <2>1. r \in CallRecord /\ r.now <= keyTicks /\ r.now - r.keysOf < RefreshInterval
        BY <1>1 DEF IsFresh, KeyInv, KeyTypeOK, CallRecord, CallSteps
    <2>2. call' = [call EXCEPT ![v] = r] /\ fetched' \in Int /\ fetched' <= keyTicks
        BY <1>1 DEF AnswerFromCache, KeyInv, KeyTypeOK, AttemptInv
    <2>3. UNCHANGED <<keyTicks, attempted, begun>>
        BY DEF AnswerFromCache
    <2> HIDE DEF r
    <2>. QED
        BY <2>1, <2>2, <2>3, OwnRecordOnly
<1>2. CASE ~IsFresh(keyTicks)
    <2>1. keyTicks \in Int /\ keyTicks <= keyTicks
        BY DEF KeyInv, KeyTypeOK
    <2>. QED
        BY <1>2, <2>1, ServeStaleKeeps DEF AnswerFromCache
<1>. QED
    BY <1>1, <1>2

\* The one step that begins an attempt: the backoff of the last one is over.
LEMMA BeginRefreshKeeps == ASSUME KeyInv, NEW v \in Verifiers, BeginRefresh(v) PROVE KeyInv'
<1>1. PICK step \in {"jwks", "discovery"} : step = IF jwksUri THEN "jwks" ELSE "discovery"
    OBVIOUS
<1>2. call' = [call EXCEPT ![v] = [call[v] EXCEPT !.step = step, !.now = keyTicks]]
    BY <1>1 DEF BeginRefresh, KeyInv, KeyTypeOK
<1>3. keyTicks \in Int /\ call[v] \in CallRecord
    BY DEF KeyInv, KeyTypeOK
<1> DEFINE r == [call[v] EXCEPT !.step = step, !.now = keyTicks]
<1>4. r \in CallRecord /\ r.step = step /\ r.now = keyTicks /\ call' = [call EXCEPT ![v] = r]
    BY <1>2, <1>3 DEF CallRecord, CallSteps
<1> HIDE DEF r
<1>5. \A u \in Verifiers : call'[u] = IF u = v THEN r ELSE call[u]
    BY <1>4 DEF KeyInv, KeyTypeOK
<1>6. begun' = <<keyTicks, begun[1]>> /\ attempted' = keyTicks /\ begun[1] = attempted
    BY DEF BeginRefresh, KeyInv, AttemptInv
<1>7. KeyTypeOK'
    <2>1. attempted \in Int /\ <<keyTicks, attempted>> \in Int \X Int
        BY <1>3 DEF KeyInv, KeyTypeOK
    <2>. QED
        BY <1>4, <1>6, <2>1, ZenonT(60) DEF BeginRefresh, KeyInv, KeyTypeOK
<1>8. AttemptInv'
    BY <1>4, <1>5, <1>6 DEF BeginRefresh, KeyInv, KeyTypeOK, AttemptInv, Never
<1>9. OutageIsBounded'
    <2>1. attempted # Never => keyTicks - attempted >= RetryBackoff
        BY Intervals DEF BeginRefresh, BackedOff, KeyInv, KeyTypeOK
    <2>. QED
        BY <2>1, <1>4, <1>5, <1>6 DEF KeyInv, KeyTypeOK, OutageIsBounded
<1>. QED
    BY <1>7, <1>8, <1>9 DEF KeyInv

LEMMA DiscoveryAnswersKeeps == ASSUME KeyInv, NEW v \in Verifiers, DiscoveryAnswers(v) PROVE KeyInv'
<1> DEFINE r == [call[v] EXCEPT !.step = "jwks"]
<1>1. r \in CallRecord /\ r.now <= keyTicks /\ r.step # "served"
    BY DEF KeyInv, KeyTypeOK, AttemptInv, CallRecord, CallSteps
<1>2. call' = [call EXCEPT ![v] = r] /\ fetched' \in Int /\ fetched' <= keyTicks
    BY DEF DiscoveryAnswers, KeyInv, KeyTypeOK, AttemptInv
<1>3. UNCHANGED <<keyTicks, attempted, begun>>
    BY DEF DiscoveryAnswers
<1> HIDE DEF r
<1>. QED
    BY <1>1, <1>2, <1>3, OwnRecordOnly

LEMMA KeysAnswerKeeps == ASSUME KeyInv, NEW v \in Verifiers, KeysAnswer(v) PROVE KeyInv'
<1>1. call' = [call EXCEPT ![v] = [call[v] EXCEPT !.step = "served", !.keysOf = keyTicks]]
    BY DEF KeysAnswer, KeyInv, KeyTypeOK
<1>2. keyTicks \in Int /\ call[v] \in CallRecord /\ call[v].now <= keyTicks
    BY DEF KeyInv, KeyTypeOK, AttemptInv
<1> DEFINE r == [call[v] EXCEPT !.step = "served", !.keysOf = keyTicks]
<1>3. /\ r \in CallRecord /\ r.now = call[v].now /\ r.keysOf = keyTicks
      /\ call' = [call EXCEPT ![v] = r]
    BY <1>1, <1>2 DEF CallRecord, CallSteps
<1> HIDE DEF r
<1>4. r.now <= keyTicks /\ r.now - r.keysOf < MaxKeyAge
    BY <1>2, <1>3, Intervals DEF CallRecord
<1>5. fetched' \in Int /\ fetched' <= keyTicks /\ UNCHANGED <<keyTicks, attempted, begun>>
    BY <1>2 DEF KeysAnswer
<1>. QED
    BY <1>3, <1>4, <1>5, OwnRecordOnly

LEMMA RefreshFailsKeeps == ASSUME KeyInv, NEW v \in Verifiers, RefreshFails(v) PROVE KeyInv'
<1>1. call[v].now \in Int /\ call[v].now <= keyTicks
    BY DEF KeyInv, KeyTypeOK, AttemptInv, CallRecord
<1>. QED
    BY <1>1, ServeStaleKeeps DEF RefreshFails

LEMMA AbandonCallKeeps == ASSUME KeyInv, NEW v \in Verifiers, AbandonCall(v) PROVE KeyInv'
<1>1. NoCall \in CallRecord /\ NoCall.now <= keyTicks /\ NoCall.step # "served"
    BY DEF KeyInv, KeyTypeOK, CallRecord, CallSteps, NoCall, Never
<1>2. /\ call' = [call EXCEPT ![v] = NoCall] /\ fetched' \in Int /\ fetched' <= keyTicks
      /\ UNCHANGED <<keyTicks, attempted, begun>>
    BY DEF AbandonCall, KeyInv, KeyTypeOK, AttemptInv
<1>. QED
    BY <1>1, <1>2, OwnRecordOnly

LEMMA KeyStep == KeyInv /\ [KeyNext]_keyVars => KeyInv'
<1> SUFFICES ASSUME KeyInv, [KeyNext]_keyVars PROVE KeyInv'
    OBVIOUS
<1>1. CASE KeyTick
    <2>1. KeyTypeOK'
        BY <1>1 DEF KeyTick, KeyInv, KeyTypeOK
    <2>2. AttemptInv'
        BY <1>1 DEF KeyTick, KeyInv, KeyTypeOK, AttemptInv, CallRecord
    <2>3. OutageIsBounded'
        BY <1>1 DEF KeyTick, KeyInv, OutageIsBounded
    <2>. QED
        BY <2>1, <2>2, <2>3 DEF KeyInv
<1>2. CASE UNCHANGED keyVars
    BY <1>2 DEF keyVars, KeyInv, KeyTypeOK, AttemptInv, OutageIsBounded
<1>. QED
    BY <1>1, <1>2, CallKeysKeeps, AnswerFromCacheKeeps, BeginRefreshKeeps, DiscoveryAnswersKeeps,
       KeysAnswerKeeps, RefreshFailsKeeps, AbandonCallKeeps DEF KeyNext

\* However many calls queue, fail or are dropped during a fetch: keys are served
\* only while young enough when the call got the mutex, and attempts keep
\* their distance (KeyCache::keys).
THEOREM OutageStaysBounded == KeySpec => []OutageIsBounded
<1>1. KeyInv => OutageIsBounded
    BY DEF KeyInv
<1>. QED
    BY KeyInitial, KeyStep, <1>1, PTL DEF KeySpec

----------------------------------------------------------------------------
(***************************************************************************)
(* What poll_until_ready returns, for every deadline, every pacing and     *)
(* every order of clock, token and probe.                                  *)
(***************************************************************************)
PollSteps == {"top", "budget", "probing", "inner", "recheck", "late", "pace", "waiting", "done"}
Answers == {"none", "ready", "failed", "pending", "cancelled", "elapsed"}
Outcomes == {"none", "Cancelled", "DeadlineExceeded", "Probe", "Ready"}
PollRecord == [step : PollSteps, attempts : Nat, interval : Nat, wakeAt : Nat,
               answer : Answers, outcome : Outcomes]

PollTypeOK ==
    /\ pollTicks \in Nat
    /\ fired \in BOOLEAN
    /\ poll \in PollRecord
    /\ landed \in [fired : BOOLEAN, at : Nat]

\* The token and the clock never go back, so what was seen at the landing
\* still bounds what is seen later; past the second look at the token the
\* landing was before the token fired, and an elapsed timer stays elapsed.
\* Nothing moves once there is an outcome.
LandingInv ==
    /\ landed.fired => fired
    /\ landed.at <= pollTicks
    /\ poll.step \in {"late", "pace", "waiting"} => ~landed.fired
    /\ poll.step = "recheck" /\ poll.answer = "elapsed" => Expired
    /\ poll.step = "recheck" /\ poll.answer = "cancelled" => fired
    /\ poll.outcome # "none" => poll.step = "done"

PollInv == PollTypeOK /\ LandingInv /\ PollOutcome

LEMMA Positive ==
    /\ Deadline \in Nat /\ Deadline > 0
    /\ FirstInterval \in Nat /\ MaxInterval \in Nat /\ Multiplier \in Nat
BY PollAssumption DEF PollAssumption

LEMMA PollInitial == PollInit => PollInv
<1> SUFFICES ASSUME PollInit PROVE PollInv
    OBVIOUS
<1> USE Positive DEF PollInit
<1>1. PollTypeOK
    BY DEF PollTypeOK, PollRecord, PollSteps, Answers, Outcomes
<1>2. LandingInv
    BY DEF LandingInv
<1>3. PollOutcome
    BY DEF PollOutcome
<1>. QED
    BY <1>1, <1>2, <1>3 DEF PollInv

----------------------------------------------------------------------------
(* What the three kinds of step do to the poller's record *)

LEMMA LandingEffect ==
    ASSUME PollTypeOK, NEW a \in Answers, Landing(a)
    PROVE  /\ poll' \in PollRecord /\ landed' \in [fired : BOOLEAN, at : Nat]
           /\ poll'.step = "recheck" /\ poll'.answer = a
           /\ poll'.outcome = poll.outcome /\ poll'.wakeAt = poll.wakeAt
           /\ landed'.fired = fired /\ landed'.at = pollTicks
<1>1. landed' = [fired |-> fired, at |-> pollTicks]
    BY DEF Landing
<1>2. fired \in BOOLEAN /\ pollTicks \in Nat
    BY DEF PollTypeOK
<1>3. landed' \in [fired : BOOLEAN, at : Nat] /\ landed'.fired = fired /\ landed'.at = pollTicks
    BY <1>1, <1>2, Zenon
<1>4. poll' \in PollRecord /\ poll'.step = "recheck" /\ poll'.answer = a
      /\ poll'.outcome = poll.outcome /\ poll'.wakeAt = poll.wakeAt
    BY DEF Landing, PollTypeOK, PollRecord, PollSteps
<1>. QED
    BY <1>3, <1>4

LEMMA GoEffect ==
    ASSUME PollTypeOK, NEW step \in PollSteps, Go(step)
    PROVE  /\ poll' \in PollRecord /\ poll'.step = step /\ poll'.answer = poll.answer
           /\ poll'.outcome = poll.outcome /\ poll'.wakeAt = poll.wakeAt
BY DEF Go, PollTypeOK, PollRecord

LEMMA ReturnEffect ==
    ASSUME PollTypeOK, NEW o \in Outcomes, Return(o)
    PROVE  /\ poll' \in PollRecord /\ poll'.step = "done" /\ poll'.answer = poll.answer
           /\ poll'.outcome = o /\ poll'.wakeAt = poll.wakeAt
BY DEF Return, PollTypeOK, PollRecord, PollSteps

----------------------------------------------------------------------------
(* One lemma per action *)

LEMMA LookForCancelKeeps == PollInv /\ LookForCancel => PollInv'
<1> SUFFICES ASSUME PollInv, LookForCancel PROVE PollInv'
    OBVIOUS
<1> USE Positive
<1>1. CASE fired
    BY <1>1, ReturnEffect DEF LookForCancel, PollInv, PollTypeOK, LandingInv, PollOutcome, Expired, At, Outcomes
<1>2. CASE ~fired
    BY <1>2, GoEffect DEF LookForCancel, PollInv, PollTypeOK, LandingInv, PollOutcome, Expired, At, PollSteps
<1>. QED
    BY <1>1, <1>2

LEMMA LookAtBudgetKeeps == PollInv /\ LookAtBudget => PollInv'
<1> SUFFICES ASSUME PollInv, LookAtBudget PROVE PollInv'
    OBVIOUS
<1> USE Positive
<1>1. CASE Expired
    BY <1>1, ReturnEffect DEF LookAtBudget, PollInv, PollTypeOK, LandingInv, PollOutcome, Expired, At, Outcomes
<1>2. CASE ~Expired
    <2>1. PICK n \in Nat : n = poll.attempts + 1
        BY DEF PollInv, PollTypeOK, PollRecord
    <2>2. poll' = [poll EXCEPT !.step = "probing", !.attempts = n]
        BY <1>2, <2>1 DEF LookAtBudget
    <2>3. /\ poll' \in PollRecord /\ poll'.step = "probing" /\ poll'.answer = poll.answer
          /\ poll'.outcome = poll.outcome /\ poll'.wakeAt = poll.wakeAt
        BY <2>2 DEF PollInv, PollTypeOK, PollRecord, PollSteps
    <2>. QED
        BY <1>2, <2>3 DEF LookAtBudget, PollInv, PollTypeOK, LandingInv, PollOutcome, Expired, At
<1>. QED
    BY <1>1, <1>2

LEMMA PollTokenKeeps == PollInv /\ PollToken => PollInv'
<1> SUFFICES ASSUME PollInv, PollToken PROVE PollInv'
    OBVIOUS
<1> USE Positive
<1>1. CASE fired
    BY <1>1, LandingEffect DEF PollToken, PollInv, PollTypeOK, LandingInv, PollOutcome, Expired, At, Answers
<1>2. CASE ~fired
    BY <1>2, GoEffect DEF PollToken, PollInv, PollTypeOK, LandingInv, PollOutcome, Expired, At, PollSteps
<1>. QED
    BY <1>1, <1>2

LEMMA PollProbeKeeps == PollInv /\ PollProbe => PollInv'
<1> SUFFICES ASSUME PollInv, PollProbe PROVE PollInv'
    OBVIOUS
<1> USE Positive
<1>1. CASE \E a \in {"ready", "failed", "pending"} : Landing(a)
    BY <1>1, LandingEffect DEF PollProbe, PollInv, PollTypeOK, LandingInv, PollOutcome, Expired, At, Answers
<1>2. CASE Expired /\ Landing("elapsed")
    BY <1>2, LandingEffect DEF PollProbe, PollInv, PollTypeOK, LandingInv, PollOutcome, Expired, At, Answers
<1>3. CASE Go("probing") /\ UNCHANGED landed
    BY <1>3, GoEffect DEF PollProbe, PollInv, PollTypeOK, LandingInv, PollOutcome, Expired, At, PollSteps
<1>. QED
    BY <1>1, <1>2, <1>3 DEF PollProbe

LEMMA RecheckTokenKeeps == PollInv /\ RecheckToken => PollInv'
<1> SUFFICES ASSUME PollInv, RecheckToken PROVE PollInv'
    OBVIOUS
<1> USE Positive
<1>1. CASE fired \/ poll.answer = "cancelled"
    BY <1>1, ReturnEffect DEF RecheckToken, PollInv, PollTypeOK, LandingInv, PollOutcome, Expired, At, Outcomes
<1>2. CASE ~fired /\ poll.answer = "elapsed"
    BY <1>2, ReturnEffect DEF RecheckToken, PollInv, PollTypeOK, LandingInv, PollOutcome, Expired, At, Outcomes
<1>3. CASE ~fired /\ poll.answer \notin {"cancelled", "elapsed"}
    BY <1>3, GoEffect DEF RecheckToken, PollInv, PollTypeOK, LandingInv, PollOutcome, Expired, At, PollSteps
<1>. QED
    BY <1>1, <1>2, <1>3

LEMMA TakeAnswerKeeps == PollInv /\ TakeAnswer => PollInv'
<1> SUFFICES ASSUME PollInv, TakeAnswer PROVE PollInv'
    OBVIOUS
<1> USE Positive
<1>1. CASE Expired
    BY <1>1, ReturnEffect DEF TakeAnswer, PollInv, PollTypeOK, LandingInv, PollOutcome, Expired, At, Outcomes
<1>2. CASE ~Expired /\ poll.answer \in {"failed", "ready"}
    BY <1>2, ReturnEffect DEF TakeAnswer, PollInv, PollTypeOK, LandingInv, PollOutcome, Expired, At, Outcomes
<1>3. CASE ~Expired /\ poll.answer \notin {"failed", "ready"}
    BY <1>3, GoEffect DEF TakeAnswer, PollInv, PollTypeOK, LandingInv, PollOutcome, Expired, At, PollSteps
<1>. QED
    BY <1>1, <1>2, <1>3

LEMMA PaceKeeps == PollInv /\ Pace => PollInv'
<1> SUFFICES ASSUME PollInv, Pace PROVE PollInv'
    OBVIOUS
<1> USE Positive
<1>1. CASE Expired
    BY <1>1, ReturnEffect DEF Pace, PollInv, PollTypeOK, LandingInv, PollOutcome, Expired, At, Outcomes
<1>2. CASE ~Expired
    <2>1. PICK n \in Nat : n <= Deadline /\ n = IF pollTicks + poll.interval <= Deadline
                                               THEN pollTicks + poll.interval ELSE Deadline
        BY DEF PollInv, PollTypeOK, PollRecord
    <2>2. poll' = [poll EXCEPT !.step = "waiting", !.wakeAt = n]
        BY <1>2, <2>1 DEF Pace
    <2>3. /\ poll' \in PollRecord /\ poll'.step = "waiting" /\ poll'.answer = poll.answer
          /\ poll'.outcome = poll.outcome /\ poll'.wakeAt = n
        BY <2>2 DEF PollInv, PollTypeOK, PollRecord, PollSteps
    <2>. QED
        BY <1>2, <2>1, <2>3 DEF Pace, PollInv, PollTypeOK, LandingInv, PollOutcome, Expired, At
<1>. QED
    BY <1>1, <1>2

LEMMA WaitEndsKeeps == PollInv /\ WaitEnds => PollInv'
<1> SUFFICES ASSUME PollInv, WaitEnds PROVE PollInv'
    OBVIOUS
<1> USE Positive
<1>1. CASE fired /\ Return("Cancelled")
    BY <1>1, ReturnEffect DEF WaitEnds, PollInv, PollTypeOK, LandingInv, PollOutcome, Expired, At, Outcomes
<1>2. CASE poll' = [poll EXCEPT !.step = "top", !.interval = NextInterval(@)]
    <2>1. PICK n \in Nat : n = NextInterval(poll.interval)
        BY DEF PollInv, PollTypeOK, PollRecord, NextInterval
    <2>2. poll' = [poll EXCEPT !.step = "top", !.interval = n]
        BY <1>2, <2>1
    <2>3. /\ poll' \in PollRecord /\ poll'.step = "top" /\ poll'.answer = poll.answer
          /\ poll'.outcome = poll.outcome /\ poll'.wakeAt = poll.wakeAt
        BY <2>2 DEF PollInv, PollTypeOK, PollRecord, PollSteps
    <2>. QED
        BY <2>3 DEF WaitEnds, PollInv, PollTypeOK, LandingInv, PollOutcome, Expired, At
<1>. QED
    BY <1>1, <1>2 DEF WaitEnds

LEMMA PollStep == PollInv /\ [PollNext]_pollVars => PollInv'
<1> SUFFICES ASSUME PollInv, [PollNext]_pollVars PROVE PollInv'
    OBVIOUS
<1>1. CASE Fire
    BY <1>1 DEF Fire, PollInv, PollTypeOK, LandingInv, PollOutcome, Expired
<1>2. CASE PollTick
    BY <1>2, Positive DEF PollTick, PollInv, PollTypeOK, LandingInv, PollOutcome, Expired, At
<1>3. CASE UNCHANGED pollVars
    BY <1>3 DEF pollVars, PollInv, PollTypeOK, LandingInv, PollOutcome, Expired, At
<1>. QED
    BY <1>1, <1>2, <1>3, LookForCancelKeeps, LookAtBudgetKeeps, PollTokenKeeps, PollProbeKeeps,
       RecheckTokenKeeps, TakeAnswerKeeps, PaceKeeps, WaitEndsKeeps DEF PollNext

\* Whatever the deadline, the intervals and the interleaving: an answer counts
\* only if it came before the token fired and before the deadline, and no
\* wait is planned past the deadline (poll_until_ready).
THEOREM PollReturnsInTime == PollSpec => []PollOutcome
<1>1. PollInv => PollOutcome
    BY DEF PollInv
<1>. QED
    BY PollInitial, PollStep, <1>1, PTL DEF PollSpec

----------------------------------------------------------------------------
(***************************************************************************)
(* The SCP client, for files of any size, any sequence of transfers and an *)
(* interruption at every await.                                            *)
(***************************************************************************)
\* Chunks are numbered transfers, 0 for what was there before, or Hole.
ScpSteps ==
    {"done", "opening", "exec", "request", "create", "narrow", "truncate", "widen", "data",
     "flush", "status", "exit"} \cup AckStages
XferRecord ==
    [n : Nat, kind : {"none", "upload", "download"}, step : ScpSteps, size : Nat, moved : Nat,
     mode : SUBSET PermissionBits, interim : SUBSET PermissionBits, was : SUBSET PermissionBits,
     clean : BOOLEAN, outcome : {"none", "ok", "error"}]
SinkRecord == [stored : Nat, failed : BOOLEAN]
DestRecord ==
    [exists : BOOLEAN, owned : BOOLEAN, mode : SUBSET PermissionBits, bytes : Seq(Int)]
DiskRecord == [state : {"idle", "busy", "failed"}, at : Nat, value : Int]
LateRecord ==
    [op : {"create", "mode", "truncate", "write"}, at : Nat, value : Int,
     mode : SUBSET PermissionBits]

ScpTypeOK ==
    /\ poisoned \in BOOLEAN
    /\ xfer \in XferRecord
    /\ sink \in SinkRecord
    /\ dest \in DestRecord
    /\ disk \in DiskRecord
    /\ late \subseteq LateRecord

\* The steps of a download once its destination was emptied, and before.
Filling == {"data", "flush", "status", "exit"}
Emptying == {"opening", "exec", "request", "create", "narrow", "truncate"}
Downloading == xfer.kind = "download"
Succeeded == xfer.step = "done" /\ xfer.outcome = "ok"

\* None of the chunks in the destination is older than the transfer.
NothingOld == \A i \in DOMAIN dest.bytes : dest.bytes[i] \notin 0..(xfer.n - 1)

\* A file that does not exist holds nothing, and only a file that exists and
\* may be changed is narrowed, emptied and written.
DestInv ==
    /\ ~dest.exists => dest.bytes = << >>
    /\ ~dest.owned => dest.bytes = OldBytes
    /\ xfer.step = "narrow" => dest.exists
    /\ \/ xfer.step \in {"truncate", "widen"}
       \/ Downloading /\ (xfer.step \in Filling \/ Succeeded)
       \/ disk.state # "idle"
       => dest.exists /\ dest.owned
    /\ \A o \in late : o.op # "create" => dest.exists /\ dest.owned

\* Which steps a direction has, and where a write can be under way.
FlowInv ==
    /\ xfer.kind = "none" => xfer.step = "done" /\ xfer.outcome = "none"
    /\ xfer.kind = "upload" =>
         xfer.step \in {"done", "opening", "exec", "data", "exit"} \cup AckStages
    /\ Downloading => xfer.step \notin AckStages
    /\ xfer.step # "done" => xfer.outcome = "none"
    /\ disk.state # "idle" => Downloading /\ xfer.step \in {"data", "flush"}

\* What an upload has been acknowledged for.
UploadInv ==
    xfer.kind = "upload" /\ (xfer.step \in {"end", "exit"} \/ Succeeded) =>
        sink.stored = xfer.size /\ ~sink.failed

\* A download that started with nothing outstanding is alone with its file.
CleanInv ==
    /\ xfer.clean /\ (xfer.step # "done" \/ Succeeded) => late = {}
    /\ Downloading /\ xfer.clean =>
         /\ NothingOld \/ dest.mode \subseteq xfer.was
         /\ xfer.step = "narrow" => NothingOld \/ xfer.interim \subseteq xfer.was
         /\ xfer.step = "widen" => dest.bytes = << >>
         /\ xfer.step \in Filling => NothingOld
         /\ \A o \in late : o.op = "mode" => NothingOld \/ o.mode \subseteq xfer.was
         /\ \A o \in late : o.op = "write" => o.value \notin 0..(xfer.n - 1)

\* How far the destination of such a download has been filled.
Filled(count) ==
    /\ Len(dest.bytes) = count
    /\ ~sink.failed => \A i \in 1..count : dest.bytes[i] = xfer.n

FillInv ==
  /\ Downloading /\ xfer.step \in Emptying \cup {"widen"} => xfer.moved = 0
  /\ Downloading /\ xfer.clean /\ (xfer.step \in Filling \/ Succeeded) =>
        /\ dest.mode = xfer.mode
        /\ xfer.step = "data" => xfer.moved < xfer.size
        /\ xfer.step # "data" => xfer.moved = xfer.size
        /\ disk.state = "idle" => Filled(xfer.moved)
        /\ disk.state # "idle" => /\ disk.at = xfer.moved /\ Filled(xfer.moved - 1)
                                  /\ disk.at > 0
                                  /\ disk.value = IF sink.failed THEN Hole ELSE xfer.n
        /\ xfer.step = "exit" \/ Succeeded => ~sink.failed

ScpInv == ScpTypeOK /\ DestInv /\ FlowInv /\ UploadInv /\ CleanInv /\ FillInv

\* The model with its stuttering steps.
ScpSpec == ScpInit /\ [][ScpNext]_scpVars

\* What an assignment to some fields of the transfer leaves alone.
SameTransfer == xfer'.n = xfer.n /\ xfer'.kind = xfer.kind /\ xfer'.was = xfer.was /\ xfer'.clean = xfer.clean
SameTask ==
    /\ SameTransfer /\ xfer'.size = xfer.size /\ xfer'.moved = xfer.moved /\ xfer'.mode = xfer.mode
    /\ xfer'.interim = xfer.interim

LEMMA ProceedEffect ==
    ASSUME ScpTypeOK, NEW step \in ScpSteps, Proceed(step)
    PROVE  xfer' \in XferRecord /\ xfer'.step = step /\ xfer'.outcome = xfer.outcome /\ SameTask
BY DEF ScpTypeOK, XferRecord, Proceed, SameTask, SameTransfer

LEMMA EndsEffect ==
    ASSUME ScpTypeOK, NEW outcome \in {"ok", "error"}, Ends(outcome)
    PROVE  xfer' \in XferRecord /\ xfer'.step = "done" /\ xfer'.outcome = outcome /\ SameTask
<1>1. xfer' = [xfer EXCEPT !.step = "done", !.outcome = outcome] /\ xfer \in XferRecord
    BY DEF Ends, ScpTypeOK
<1>2. "done" \in ScpSteps /\ outcome \in {"none", "ok", "error"}
    BY DEF ScpSteps
<1>3. xfer' \in XferRecord
    BY <1>1, <1>2, Zenon DEF XferRecord
<1>4. xfer'.step = "done" /\ xfer'.outcome = outcome /\ SameTask
    BY <1>1 DEF XferRecord, SameTask, SameTransfer
<1>. QED
    BY <1>3, <1>4

\* A transfer that ends in an error, leaving operations behind.
LEMMA EndsBadly ==
    ASSUME ScpInv, Ends("error"), ~On("done"), NEW left \in SUBSET LateRecord, late' = late \cup left,
           disk' = Idle, poisoned' \in BOOLEAN, sink' \in SinkRecord, dest' \in DestRecord,
           dest'.exists = dest.exists, dest'.owned = dest.owned, dest'.bytes = dest.bytes,
           \A o \in left : o.op # "create" => dest.exists /\ dest.owned,
           Downloading /\ xfer.clean =>
             /\ NothingOld \/ dest'.mode \subseteq xfer.was
             /\ \A o \in left : o.op = "mode" => NothingOld \/ o.mode \subseteq xfer.was
             /\ \A o \in left : o.op = "write" => o.value \notin 0..(xfer.n - 1)
    PROVE  ScpInv'
<1>1. /\ xfer' \in XferRecord /\ xfer'.step = "done" /\ xfer'.outcome = "error"
      /\ SameTransfer
    BY EndsEffect DEF ScpInv, SameTask
<1>2. disk' \in DiskRecord /\ disk'.state = "idle"
    BY DEF DiskRecord, Idle
<1>3. ScpTypeOK'
    BY <1>1, <1>2 DEF ScpInv, ScpTypeOK
<1>4. DestInv'
    BY <1>1, <1>2 DEF ScpInv, DestInv, Downloading, Filling, Succeeded
<1>5. FlowInv' /\ UploadInv'
    BY <1>1, <1>2 DEF ScpInv, FlowInv, UploadInv, Succeeded, SameTransfer, On, AckStages, Downloading
<1>6. CleanInv'
    <2>1. NothingOld' <=> NothingOld
        BY <1>1 DEF NothingOld, SameTransfer
    <2>. QED
        BY <1>1, <2>1 DEF ScpInv, CleanInv, Downloading, Filling, Succeeded, SameTransfer
<1>7. FillInv'
    BY <1>1 DEF FillInv, Filling, Emptying, Succeeded
<1>. QED
    BY <1>3, <1>4, <1>5, <1>6, <1>7 DEF ScpInv

\* An error return at any await.
LEMMA FailKeeps ==
    ASSUME ScpInv, Fail, ~On("done"), UNCHANGED poisoned, sink' \in SinkRecord, dest' \in DestRecord,
           dest'.exists = dest.exists, dest'.owned = dest.owned, dest'.bytes = dest.bytes,
           Downloading /\ xfer.clean => NothingOld \/ dest'.mode \subseteq xfer.was
    PROVE  ScpInv'
<1>1. Orphaned \subseteq LateRecord /\ \A o \in Orphaned : o.op = "write" /\ o.value = disk.value
    BY DEF Orphaned, LateRecord, DiskRecord, ScpInv, ScpTypeOK
<1>2. Orphaned # {} => disk.state = "busy" /\ dest.exists /\ dest.owned
    BY DEF Orphaned, ScpInv, DestInv
<1>3. disk.state = "busy" /\ Downloading /\ xfer.clean => disk.value \notin 0..(xfer.n - 1)
    <2> SUFFICES ASSUME disk.state = "busy", Downloading, xfer.clean
                 PROVE  disk.value \notin 0..(xfer.n - 1)
        OBVIOUS
    <2>1. disk.value = IF sink.failed THEN Hole ELSE xfer.n
        BY DEF ScpInv, FlowInv, FillInv, Filling
    <2>2. xfer.n \in Nat
        BY DEF ScpInv, ScpTypeOK, XferRecord
    <2>. QED
        BY <2>1, <2>2 DEF Hole
<1>4. Ends("error") /\ late' = late \cup Orphaned /\ disk' = Idle /\ poisoned' \in BOOLEAN
    BY DEF Fail, ScpInv, ScpTypeOK
<1>. QED
    BY <1>1, <1>2, <1>3, <1>4, EndsBadly

\* A refusal that changed nothing.
LEMMA FailPlainly ==
    ASSUME ScpInv, Fail, ~On("done"), UNCHANGED <<poisoned, sink, dest>>
    PROVE  ScpInv'
<1>1. sink' \in SinkRecord /\ dest' \in DestRecord
    BY DEF ScpInv, ScpTypeOK
<1>2. Downloading /\ xfer.clean => NothingOld \/ dest'.mode \subseteq xfer.was
    BY DEF ScpInv, CleanInv
<1>. QED
    BY <1>1, <1>2, FailKeeps

\* A step of the protocol that moves nothing but the transfer.
LEMMA AdvanceKeeps ==
    ASSUME ScpInv, NEW step \in ScpSteps, Proceed(step), ~On("done"), step # "done",
           UNCHANGED <<poisoned, sink, dest, disk, late>>,
           xfer.kind = "upload" => step \in {"exec", "data", "exit"} \cup AckStages,
           Downloading => step \notin AckStages \cup {"narrow", "truncate", "widen", "data"},
           xfer.kind = "upload" /\ step \in {"end", "exit"} => sink.stored = xfer.size /\ ~sink.failed,
           disk.state # "idle" => step \in {"data", "flush"},
           Downloading /\ step \in Emptying => xfer.step \in Emptying,
           Downloading /\ step \in Filling =>
             /\ xfer.step \in Filling /\ xfer.step # "data"
             /\ step = "exit" => ~sink.failed
    PROVE  ScpInv'
<1>1. xfer' \in XferRecord /\ xfer'.step = step /\ xfer'.outcome = xfer.outcome /\ SameTask
    BY ProceedEffect DEF ScpInv
<1>2. xfer.kind # "none" /\ xfer.kind \in {"none", "upload", "download"} /\ xfer.outcome = "none"
    BY DEF ScpInv, ScpTypeOK, XferRecord, FlowInv, On
<1>3. ScpTypeOK'
    BY <1>1 DEF ScpInv, ScpTypeOK
<1>4. DestInv'
    BY <1>1, <1>2 DEF ScpInv, DestInv, Downloading, Filling, Succeeded, SameTask, SameTransfer, AckStages, Emptying
<1>5. FlowInv' /\ UploadInv'
    BY <1>1, <1>2 DEF ScpInv, FlowInv, UploadInv, Succeeded, SameTask, SameTransfer, On, AckStages, Downloading
<1>6. NothingOld' <=> NothingOld
    BY <1>1 DEF NothingOld, SameTask, SameTransfer
<1>7. CleanInv'
    BY <1>1, <1>2, <1>6 DEF ScpInv, CleanInv, Downloading, Filling, Succeeded, SameTask, SameTransfer, On, AckStages
<1>8. FillInv'
    BY <1>1, <1>2 DEF ScpInv, FillInv, Filled, Filling, Emptying, Succeeded, SameTask, SameTransfer, Downloading, On, AckStages
<1>. QED
    BY <1>3, <1>4, <1>5, <1>7, <1>8 DEF ScpInv

LEMMA StartTransferKeeps == ScpInv /\ StartTransfer => ScpInv'
<1> SUFFICES ASSUME ScpInv, StartTransfer PROVE ScpInv'
    OBVIOUS
<1>1. PICK kind \in {"upload", "download"}, size \in Nat : xfer' = NewTransfer(kind, size)
    BY ScpAssumption DEF StartTransfer, ScpAssumption
<1>2. xfer \in XferRecord /\ dest \in DestRecord /\ xfer.step = "done"
    BY DEF ScpInv, ScpTypeOK, StartTransfer, On
<1>3. /\ xfer'.n = xfer.n + 1 /\ xfer'.kind = kind /\ xfer'.step = "opening" /\ xfer'.was = dest.mode
      /\ xfer'.moved = 0 /\ xfer'.outcome = "none" /\ xfer'.clean = (late = {})
    BY <1>1 DEF NewTransfer, NoTransfer
<1>4. xfer' \in XferRecord
    <2>1. /\ xfer.n + 1 \in Nat /\ dest.mode \in SUBSET PermissionBits /\ "opening" \in ScpSteps
          /\ (late = {}) \in BOOLEAN /\ 0 \in Nat /\ {} \in SUBSET PermissionBits
          /\ kind \in {"none", "upload", "download"} /\ "none" \in {"none", "ok", "error"}
        BY <1>2 DEF XferRecord, DestRecord, ScpSteps
    <2>2. xfer' = [n |-> xfer.n + 1, kind |-> kind, step |-> "opening", size |-> size, moved |-> 0,
                   mode |-> {}, interim |-> {}, was |-> dest.mode, clean |-> late = {}, outcome |-> "none"]
        BY <1>1 DEF NewTransfer, NoTransfer
    <2>. QED
        BY <2>1, <2>2 DEF XferRecord
<1>5. sink' = [stored |-> 0, failed |-> FALSE] /\ UNCHANGED <<poisoned, dest, disk, late>>
    BY DEF StartTransfer
<1>6. ScpTypeOK'
    BY <1>4, <1>5 DEF ScpInv, ScpTypeOK, SinkRecord
<1>7. disk.state = "idle"
    BY <1>2 DEF ScpInv, FlowInv
<1>8. DestInv' /\ FlowInv' /\ UploadInv'
    BY <1>2, <1>3, <1>5, <1>7 DEF ScpInv, DestInv, FlowInv, UploadInv, Downloading, Filling, Succeeded, AckStages
<1>9. CleanInv' /\ FillInv'
    BY <1>2, <1>3, <1>5, <1>7 DEF ScpInv, CleanInv, FillInv, Downloading, Filling, Emptying, Succeeded
<1>. QED
    BY <1>6, <1>8, <1>9 DEF ScpInv

LEMMA UnmovedKeeps == ASSUME ScpInv, UNCHANGED <<xfer, sink, dest, disk, late>>, poisoned' \in BOOLEAN PROVE ScpInv'
<1>1. ScpTypeOK' /\ DestInv'
    BY DEF ScpInv, ScpTypeOK, DestInv, Downloading, Succeeded
<1>2. FlowInv' /\ UploadInv'
    BY DEF ScpInv, FlowInv, UploadInv, Downloading, Succeeded
<1>3. CleanInv'
    BY DEF ScpInv, CleanInv, NothingOld, Downloading, Succeeded
<1>4. FillInv'
    BY DEF ScpInv, FillInv, Filled, Downloading, Succeeded
<1>. QED
    BY <1>1, <1>2, <1>3, <1>4 DEF ScpInv

LEMMA ReconnectKeeps == ScpInv /\ Reconnect => ScpInv'
BY UnmovedKeeps DEF Reconnect

LEMMA OpenChannelKeeps == ScpInv /\ OpenChannel => ScpInv'
<1> SUFFICES ASSUME ScpInv, OpenChannel PROVE ScpInv'
    OBVIOUS
<1>1. xfer.step = "opening" /\ ~On("done") /\ disk.state = "idle"
    BY DEF OpenChannel, On, ScpInv, FlowInv, ScpTypeOK, DiskRecord
<1>2. CASE Proceed("exec") /\ UNCHANGED <<disk, late>>
    BY <1>1, <1>2, AdvanceKeeps DEF OpenChannel, ScpSteps, AckStages, Emptying, Filling
<1>. QED
    BY <1>1, <1>2, FailPlainly DEF OpenChannel

LEMMA ExecKeeps == ScpInv /\ Exec => ScpInv'
<1> SUFFICES ASSUME ScpInv, Exec PROVE ScpInv'
    OBVIOUS
<1>1. xfer.step = "exec" /\ ~On("done") /\ disk.state = "idle"
    BY DEF Exec, On, ScpInv, FlowInv, ScpTypeOK, DiskRecord
<1>2. CASE xfer.kind = "upload" /\ Proceed("ready") /\ UNCHANGED <<disk, late>>
    BY <1>1, <1>2, AdvanceKeeps DEF Exec, ScpSteps, AckStages, Emptying, Filling, Downloading
<1>3. CASE xfer.kind # "upload" /\ Proceed("request") /\ UNCHANGED <<disk, late>>
    BY <1>1, <1>3, AdvanceKeeps DEF Exec, ScpSteps, AckStages, Emptying, Filling, Downloading
<1>. QED
    BY <1>1, <1>2, <1>3, FailPlainly DEF Exec

LEMMA ExitStatusKeeps == ScpInv /\ ExitStatus => ScpInv'
<1> SUFFICES ASSUME ScpInv, ExitStatus PROVE ScpInv'
    OBVIOUS
<1>1. xfer.step = "exit" /\ ~On("done") /\ disk.state = "idle"
    BY DEF ExitStatus, On, ScpInv, FlowInv, ScpTypeOK, DiskRecord
<1>2. CASE Ends("ok") /\ UNCHANGED <<disk, late>>
    <2>1. xfer' \in XferRecord /\ xfer'.step = "done" /\ xfer'.outcome = "ok" /\ SameTask
        BY <1>2, EndsEffect DEF ScpInv
    <2>2. UNCHANGED <<poisoned, sink, dest, disk, late>>
        BY <1>2 DEF ExitStatus
    <2>3. xfer.kind # "none"
        BY <1>1 DEF ScpInv, FlowInv
    <2>4. ScpTypeOK' /\ DestInv'
        BY <1>1, <2>1, <2>2, <2>3 DEF ScpInv, ScpTypeOK, DestInv, SameTask, SameTransfer,
               Downloading, Filling, Succeeded
    <2>5. FlowInv'
        BY <1>1, <2>1, <2>2, <2>3 DEF ScpInv, FlowInv, SameTask, SameTransfer, Downloading, AckStages
    <2>6. UploadInv'
        BY <1>1, <2>1, <2>2 DEF ScpInv, UploadInv, SameTask, SameTransfer, Succeeded
    <2>7. NothingOld' <=> NothingOld
        BY <2>1, <2>2 DEF NothingOld, SameTask, SameTransfer
    <2>8. CleanInv'
        BY <1>1, <2>1, <2>2, <2>7 DEF ScpInv, CleanInv, SameTask, SameTransfer, Downloading, Filling, Succeeded
    <2>9. FillInv'
        BY <1>1, <2>1, <2>2 DEF ScpInv, FillInv, Filled, SameTask, SameTransfer, Downloading, Filling, Emptying, Succeeded
    <2>. QED
        BY <2>4, <2>5, <2>6, <2>8, <2>9 DEF ScpInv
<1>. QED
    BY <1>1, <1>2, FailPlainly DEF ExitStatus

LEMMA ChannelClosesKeeps == ScpInv /\ ChannelCloses => ScpInv'
BY FailPlainly DEF ChannelCloses, On

LEMMA ReadAckKeeps == ScpInv /\ ReadAck => ScpInv'
<1> SUFFICES ASSUME ScpInv, ReadAck PROVE ScpInv'
    OBVIOUS
<1>1. PICK ack \in Acks(xfer.step) :
          IF Accepts(xfer.step, ack)
          THEN Proceed(Following(xfer.step)) /\ UNCHANGED <<disk, late>>
          ELSE Fail
    BY DEF ReadAck
<1>2. xfer.step \in AckStages /\ xfer.kind = "upload" /\ ~On("done") /\ disk.state = "idle"
    BY DEF ReadAck, On, ScpInv, FlowInv, ScpTypeOK, XferRecord, DiskRecord, AckStages, Downloading
<1>3. CASE Accepts(xfer.step, ack)
    <2>1. Following(xfer.step) \in {"times", "header", "final", "data", "end", "exit"}
        BY <1>2 DEF AckStages, Following
    <2>2. Following(xfer.step) = "end" => xfer.step = "final"
        BY <1>2 DEF AckStages, Following
    <2>3. Following(xfer.step) = "exit" => xfer.step = "end"
        BY <1>2 DEF AckStages, Following
    <2>4. xfer.step = "final" => sink.stored = xfer.size /\ ~sink.failed
        BY <1>1, <1>3 DEF Accepts, Acks
    <2>5. xfer.step = "end" => sink.stored = xfer.size /\ ~sink.failed
        BY <1>2 DEF ScpInv, UploadInv
    <2>6. PICK step \in ScpSteps : step = Following(xfer.step)
        BY <2>1 DEF ScpSteps, AckStages
    <2>7. Proceed(step) /\ UNCHANGED <<poisoned, sink, dest, disk, late>>
        BY <1>1, <1>3, <2>6 DEF ReadAck
    <2>. QED
        BY <1>2, <2>1, <2>2, <2>3, <2>4, <2>5, <2>6, <2>7, AdvanceKeeps DEF AckStages, Downloading
<1>. QED
    BY <1>1, <1>2, <1>3, FailPlainly DEF ReadAck

LEMMA SendChunkKeeps == ScpInv /\ SendChunk => ScpInv'
<1> SUFFICES ASSUME ScpInv, SendChunk PROVE ScpInv'
    OBVIOUS
<1>1. xfer.step = "data" /\ xfer.kind = "upload" /\ ~On("done") /\ disk.state = "idle"
    BY DEF SendChunk, On, ScpInv, FlowInv, ScpTypeOK, XferRecord, DiskRecord, Downloading
<1>2. CASE Fail /\ UNCHANGED sink
    BY <1>1, <1>2, FailPlainly DEF SendChunk
<1>3. CASE ~(Fail /\ UNCHANGED sink)
    <2>1. /\ xfer' = [xfer EXCEPT !.moved = @ + 1,
                                  !.step = IF xfer.moved + 1 = xfer.size THEN "final" ELSE @]
          /\ UNCHANGED <<poisoned, dest, disk, late>>
          /\ sink' = [sink EXCEPT !.stored = @ + 1] \/ sink' = [sink EXCEPT !.failed = TRUE]
        BY <1>3 DEF SendChunk
    <2>2. PICK step \in {"data", "final"} : step = IF xfer.moved + 1 = xfer.size THEN "final" ELSE xfer.step
        BY <1>1
    <2>3. xfer \in XferRecord /\ xfer.moved + 1 \in Nat /\ step \in ScpSteps
        BY DEF ScpInv, ScpTypeOK, XferRecord, ScpSteps, AckStages
    <2>4. xfer' = [xfer EXCEPT !.moved = xfer.moved + 1, !.step = step]
        BY <2>1, <2>2, <2>3 DEF XferRecord
    <2>5. xfer' \in XferRecord
        BY <2>3, <2>4, Zenon DEF XferRecord
    <2>6. SameTransfer /\ xfer'.step = step /\ xfer'.outcome = xfer.outcome
        BY <2>3, <2>4 DEF XferRecord, SameTransfer
    <2>7. sink' \in SinkRecord
        <3>1. sink \in SinkRecord /\ sink.stored + 1 \in Nat
            BY DEF SinkRecord, ScpInv, ScpTypeOK
        <3>2. CASE sink' = [sink EXCEPT !.stored = @ + 1]
            BY <3>1, <3>2 DEF SinkRecord
        <3>3. CASE sink' = [sink EXCEPT !.failed = TRUE]
            BY <3>1, <3>3 DEF SinkRecord
        <3>. QED
            BY <2>1, <3>2, <3>3
    <2>8. ScpTypeOK' /\ DestInv' /\ FlowInv' /\ UploadInv'
        BY <1>1, <2>1, <2>5, <2>6, <2>7 DEF ScpInv, ScpTypeOK, DestInv, FlowInv, UploadInv, SameTransfer,
               Downloading, Filling, Succeeded, AckStages
    <2>9. CleanInv' /\ FillInv'
        BY <1>1, <2>1, <2>6 DEF ScpInv, CleanInv, FillInv, SameTransfer, Downloading, Succeeded
    <2>. QED
        BY <2>8, <2>9 DEF ScpInv
<1>. QED
    BY <1>2, <1>3

LEMMA ReadHeaderKeeps == ScpInv /\ ReadHeader => ScpInv'
<1> SUFFICES ASSUME ScpInv, ReadHeader PROVE ScpInv'
    OBVIOUS
<1>1. xfer.step = "request" /\ Downloading /\ ~On("done") /\ disk.state = "idle"
    BY DEF ReadHeader, On, ScpInv, FlowInv, ScpTypeOK, XferRecord, DiskRecord, Downloading, AckStages
<1>2. CASE Fail
    BY <1>1, <1>2, FailPlainly DEF ReadHeader
<1>3. CASE ~Fail
    <2>1. PICK size \in Nat, mode \in SUBSET PermissionBits :
              xfer' = [xfer EXCEPT !.step = "create", !.size = size, !.mode = mode]
        <3>1. PICK size \in 0..MaxSize, raw \in SUBSET (PermissionBits \cup SpecialBits) :
                  xfer' = [xfer EXCEPT !.step = "create", !.size = size, !.mode = raw \cap PermissionBits]
            BY <1>3 DEF ReadHeader
        <3>2. size \in Nat /\ raw \cap PermissionBits \in SUBSET PermissionBits
            OBVIOUS
        <3>. QED
            BY <3>1, <3>2
    <2>2. xfer \in XferRecord /\ "create" \in ScpSteps
        BY DEF ScpInv, ScpTypeOK, ScpSteps
    <2>3. xfer' \in XferRecord
        BY <2>1, <2>2, Zenon DEF XferRecord
    <2>4. SameTransfer /\ xfer'.step = "create" /\ xfer'.outcome = xfer.outcome /\ xfer'.moved = xfer.moved
        BY <2>1, <2>2 DEF XferRecord, SameTransfer
    <2>5. UNCHANGED <<poisoned, sink, dest, disk, late>>
        BY <1>3 DEF ReadHeader
    <2>6. ScpTypeOK' /\ DestInv' /\ FlowInv' /\ UploadInv'
        BY <1>1, <2>3, <2>4, <2>5 DEF ScpInv, ScpTypeOK, DestInv, FlowInv, UploadInv, SameTransfer,
               Downloading, Filling, Succeeded, AckStages
    <2>7. NothingOld' <=> NothingOld
        BY <2>4, <2>5 DEF NothingOld, SameTransfer
    <2>8. CleanInv' /\ FillInv'
        BY <1>1, <2>4, <2>5, <2>7 DEF ScpInv, CleanInv, FillInv, SameTransfer, Downloading, Filling, Emptying, Succeeded
    <2>. QED
        BY <2>6, <2>8 DEF ScpInv
<1>. QED
    BY <1>2, <1>3

\* A chunk lands in its place; what lies before it and was not written is a hole.
LEMMA WriteAtEffect ==
    ASSUME NEW bytes \in Seq(Int), NEW at \in Nat, NEW value \in Int
    PROVE  /\ WriteAt(bytes, at, value) \in Seq(Int)
           /\ Len(WriteAt(bytes, at, value)) = IF at > Len(bytes) THEN at ELSE Len(bytes)
           /\ \A i \in 1..Len(WriteAt(bytes, at, value)) :
                 WriteAt(bytes, at, value)[i] =
                     IF i = at THEN value ELSE IF i <= Len(bytes) THEN bytes[i] ELSE Hole
<1>1. PICK size \in Nat : size = IF at > Len(bytes) THEN at ELSE Len(bytes)
    OBVIOUS
<1>2. \A i \in 1..size :
          (CASE i = at -> value [] i # at /\ i <= Len(bytes) -> bytes[i] [] OTHER -> Hole)
              = IF i = at THEN value ELSE IF i <= Len(bytes) THEN bytes[i] ELSE Hole
    OBVIOUS
<1>3. WriteAt(bytes, at, value) =
          [i \in 1..size |-> IF i = at THEN value ELSE IF i <= Len(bytes) THEN bytes[i] ELSE Hole]
    BY <1>1, <1>2 DEF WriteAt
<1>4. \A i \in 1..size : (IF i = at THEN value ELSE IF i <= Len(bytes) THEN bytes[i] ELSE Hole) \in Int
    BY DEF Hole
<1>. QED
    BY <1>1, <1>3, <1>4

\* Writing a chunk that is not old adds nothing old.
LEMMA WriteAddsNothingOld ==
    ASSUME NEW bytes \in Seq(Int), NEW at \in Nat, NEW value \in Int, NEW n \in Nat,
           value \notin 0..(n - 1), \A i \in DOMAIN bytes : bytes[i] \notin 0..(n - 1)
    PROVE  \A i \in DOMAIN WriteAt(bytes, at, value) : WriteAt(bytes, at, value)[i] \notin 0..(n - 1)
<1>1. PICK new \in Seq(Int) : new = WriteAt(bytes, at, value)
    BY WriteAtEffect
<1>2. \A i \in 1..Len(new) :
          new[i] = IF i = at THEN value ELSE IF i <= Len(bytes) THEN bytes[i] ELSE Hole
    BY <1>1, WriteAtEffect
<1>3. DOMAIN new = 1..Len(new) /\ DOMAIN bytes = 1..Len(bytes) /\ Hole \notin 0..(n - 1)
    BY DEF Hole
<1>4. ASSUME NEW i \in DOMAIN new PROVE new[i] \notin 0..(n - 1)
    <2>1. i \in 1..Len(new) /\ i \in Int
        BY <1>3
    <2>2. CASE i = at
        BY <1>2, <2>1, <2>2
    <2>3. CASE i # at /\ i <= Len(bytes)
        <3>1. new[i] = bytes[i] /\ i \in DOMAIN bytes
            BY <1>2, <1>3, <2>1, <2>3
        <3>. QED
            BY <3>1
    <2>4. CASE i # at /\ ~(i <= Len(bytes))
        BY <1>2, <1>3, <2>1, <2>4
    <2>. QED
        BY <2>2, <2>3, <2>4
<1>. QED
    BY <1>1, <1>4

LEMMA EmptyingEffect ==
    ASSUME NEW d \in DestRecord, NEW e, e = [d EXCEPT !.bytes = << >>]
    PROVE  /\ e \in DestRecord /\ e.mode = d.mode /\ e.exists = d.exists /\ e.owned = d.owned
           /\ e.bytes = << >>
<1>1. PICK empty \in Seq(Int) : empty = << >>
    <2>1. << >> \in Seq(Int)
        OBVIOUS
    <2>. QED
        BY <2>1, Zenon
<1>2. e = [d EXCEPT !.bytes = empty]
    BY <1>1
<1>3. /\ e \in DestRecord /\ e.mode = d.mode /\ e.exists = d.exists /\ e.owned = d.owned
      /\ e.bytes = empty
    BY <1>2 DEF DestRecord
<1>. QED
    BY <1>1, <1>3

LEMMA CreateDestKeeps == ScpInv /\ CreateDest => ScpInv'
<1> SUFFICES ASSUME ScpInv, CreateDest PROVE ScpInv'
    OBVIOUS
<1>1. xfer.step = "create" /\ Downloading /\ ~On("done") /\ disk.state = "idle"
    BY DEF CreateDest, On, ScpInv, FlowInv, ScpTypeOK, XferRecord, DiskRecord, Downloading, AckStages
<1>2. CASE Fail /\ UNCHANGED dest
    BY <1>1, <1>2, FailPlainly DEF CreateDest
<1>3. CASE ~(Fail /\ UNCHANGED dest)
    <2>1. PICK mode \in IF dest.exists THEN {dest.mode} ELSE SUBSET xfer.mode :
              /\ dest' = [dest EXCEPT !.exists = TRUE, !.mode = mode]
              /\ xfer' = [xfer EXCEPT !.step = "narrow", !.interim = mode \cap xfer.mode]
        BY <1>3 DEF CreateDest
    <2>2. /\ xfer \in XferRecord /\ dest \in DestRecord /\ "narrow" \in ScpSteps
          /\ mode \in SUBSET PermissionBits /\ mode \cap xfer.mode \in SUBSET PermissionBits
        BY DEF ScpInv, ScpTypeOK, ScpSteps, XferRecord, DestRecord
    <2>3. PICK interim \in SUBSET PermissionBits : interim = mode \cap xfer.mode
        BY <2>2
    <2>4. xfer' \in XferRecord /\ dest' \in DestRecord
        BY <2>1, <2>2, <2>3, Zenon DEF XferRecord, DestRecord
    <2>5. /\ SameTransfer /\ xfer'.step = "narrow" /\ xfer'.outcome = xfer.outcome
          /\ xfer'.moved = xfer.moved /\ xfer'.interim = interim
        BY <2>1, <2>2, <2>3 DEF XferRecord, SameTransfer
    <2>6. dest'.exists /\ dest'.mode = mode /\ dest'.owned = dest.owned /\ dest'.bytes = dest.bytes
        BY <2>1, <2>2 DEF DestRecord
    <2>7. UNCHANGED <<poisoned, sink, disk, late>>
        BY <1>3 DEF CreateDest
    <2>8. ScpTypeOK' /\ DestInv' /\ FlowInv' /\ UploadInv'
        BY <1>1, <2>4, <2>5, <2>6, <2>7 DEF ScpInv, ScpTypeOK, DestInv, FlowInv, UploadInv, SameTransfer,
               Downloading, Filling, Succeeded, AckStages
    <2>9. NothingOld' <=> NothingOld
        BY <2>5, <2>6 DEF NothingOld, SameTransfer
    <2>10. CASE dest.exists
        <3>1. mode = dest.mode /\ interim \subseteq dest.mode
            BY <2>1, <2>3, <2>10
        <3>. QED
            BY <1>1, <2>5, <2>6, <2>7, <2>8, <2>9, <3>1 DEF ScpInv, CleanInv, FillInv, SameTransfer,
               Downloading, Filling, Emptying, Succeeded
    <2>11. CASE ~dest.exists
        <3>1. NothingOld
            BY <2>11 DEF NothingOld, ScpInv, DestInv
        <3>. QED
            BY <1>1, <2>5, <2>6, <2>7, <2>8, <2>9, <3>1 DEF ScpInv, CleanInv, FillInv, SameTransfer,
               Downloading, Filling, Emptying, Succeeded
    <2>. QED
        BY <2>10, <2>11
<1>. QED
    BY <1>2, <1>3

LEMMA NarrowKeeps == ScpInv /\ Narrow => ScpInv'
<1> SUFFICES ASSUME ScpInv, Narrow PROVE ScpInv'
    OBVIOUS
<1>1. xfer.step = "narrow" /\ Downloading /\ ~On("done") /\ disk.state = "idle"
    BY DEF Narrow, On, ScpInv, FlowInv, ScpTypeOK, XferRecord, DiskRecord, Downloading, AckStages
<1>2. CASE ~dest.owned
    BY <1>1, <1>2, FailPlainly DEF Narrow
<1>3. CASE dest.owned
    <2>1. /\ dest' = [dest EXCEPT !.mode = xfer.interim] /\ Proceed("truncate")
          /\ UNCHANGED <<poisoned, sink, disk, late>>
        BY <1>3 DEF Narrow
    <2>2. xfer' \in XferRecord /\ xfer'.step = "truncate" /\ xfer'.outcome = xfer.outcome /\ SameTask
        BY <2>1, ProceedEffect DEF ScpInv, ScpSteps
    <2>3. /\ dest' \in DestRecord /\ dest'.mode = xfer.interim /\ dest'.exists = dest.exists
          /\ dest'.owned = dest.owned /\ dest'.bytes = dest.bytes
        BY <2>1 DEF ScpInv, ScpTypeOK, XferRecord, DestRecord
    <2>4. ScpTypeOK' /\ DestInv' /\ FlowInv' /\ UploadInv'
        BY <1>1, <1>3, <2>1, <2>2, <2>3 DEF ScpInv, ScpTypeOK, DestInv, FlowInv, UploadInv, SameTask, SameTransfer,
               Downloading, Filling, Succeeded, AckStages
    <2>5. NothingOld' <=> NothingOld
        BY <2>2, <2>3 DEF NothingOld, SameTask, SameTransfer
    <2>6. CleanInv' /\ FillInv'
        BY <1>1, <2>1, <2>2, <2>3, <2>5 DEF ScpInv, CleanInv, FillInv, SameTask, SameTransfer,
               Downloading, Filling, Emptying, Succeeded
    <2>. QED
        BY <2>4, <2>6 DEF ScpInv
<1>. QED
    BY <1>2, <1>3

LEMMA TruncateKeeps == ScpInv /\ Truncate => ScpInv'
<1> SUFFICES ASSUME ScpInv, Truncate PROVE ScpInv'
    OBVIOUS
<1>1. xfer.step = "truncate" /\ Downloading /\ ~On("done") /\ disk.state = "idle"
    BY DEF Truncate, On, ScpInv, FlowInv, ScpTypeOK, XferRecord, DiskRecord, Downloading, AckStages
<1>2. CASE Fail /\ UNCHANGED dest
    BY <1>1, <1>2, FailPlainly DEF Truncate
<1>3. CASE ~(Fail /\ UNCHANGED dest)
    <2>1. /\ dest' = [dest EXCEPT !.bytes = << >>] /\ Proceed("widen")
          /\ UNCHANGED <<poisoned, sink, disk, late>>
        BY <1>3 DEF Truncate
    <2>2. xfer' \in XferRecord /\ xfer'.step = "widen" /\ xfer'.outcome = xfer.outcome /\ SameTask
        BY <2>1, ProceedEffect DEF ScpInv, ScpSteps
    <2>3. /\ dest' \in DestRecord /\ dest'.mode = dest.mode /\ dest'.exists = dest.exists
          /\ dest'.owned = dest.owned /\ dest'.bytes = << >>
        BY <2>1, EmptyingEffect DEF ScpInv, ScpTypeOK
    <2>4. ScpTypeOK' /\ DestInv' /\ FlowInv' /\ UploadInv'
        BY <1>1, <2>1, <2>2, <2>3 DEF ScpInv, ScpTypeOK, DestInv, FlowInv, UploadInv, SameTask, SameTransfer,
               Downloading, Filling, Succeeded, AckStages
    <2>5. NothingOld'
        BY <2>3 DEF NothingOld
    <2>6. CleanInv' /\ FillInv'
        BY <1>1, <2>1, <2>2, <2>3, <2>5 DEF ScpInv, CleanInv, FillInv, SameTask, SameTransfer,
               Downloading, Filling, Emptying, Succeeded
    <2>. QED
        BY <2>4, <2>6 DEF ScpInv
<1>. QED
    BY <1>2, <1>3

LEMMA WidenKeeps == ScpInv /\ Widen => ScpInv'
<1> SUFFICES ASSUME ScpInv, Widen PROVE ScpInv'
    OBVIOUS
<1>1. xfer.step = "widen" /\ Downloading /\ ~On("done") /\ disk.state = "idle"
    BY DEF Widen, On, ScpInv, FlowInv, ScpTypeOK, XferRecord, DiskRecord, Downloading, AckStages
<1>2. CASE Fail /\ UNCHANGED dest
    BY <1>1, <1>2, FailPlainly DEF Widen
<1>3. CASE ~(Fail /\ UNCHANGED dest)
    <2>1. dest' = [dest EXCEPT !.mode = xfer.mode] /\ UNCHANGED <<poisoned, sink>>
        BY <1>3 DEF Widen
    <2>2. /\ dest' \in DestRecord /\ dest'.mode = xfer.mode /\ dest'.exists = dest.exists
          /\ dest'.owned = dest.owned /\ dest'.bytes = dest.bytes
        BY <2>1 DEF ScpInv, ScpTypeOK, XferRecord, DestRecord
    <2>3. xfer.clean => dest.bytes = << >> /\ NothingOld
        BY <1>1 DEF ScpInv, CleanInv, NothingOld
    <2>4. CASE Fail
        <3>1. sink' \in SinkRecord
            BY <2>1 DEF ScpInv, ScpTypeOK
        <3>. QED
            BY <1>1, <2>1, <2>2, <2>3, <2>4, <3>1, FailKeeps
    <2>5. CASE ~Fail
        <3>1. Proceed(IF xfer.size = 0 THEN "flush" ELSE "data") /\ UNCHANGED <<disk, late>>
            BY <1>3, <2>5 DEF Widen
        <3>2. PICK step \in ScpSteps : step = IF xfer.size = 0 THEN "flush" ELSE "data"
            BY DEF ScpSteps
        <3>3. xfer' \in XferRecord /\ xfer'.step = step /\ xfer'.outcome = xfer.outcome /\ SameTask
            BY <3>1, <3>2, ProceedEffect DEF ScpInv
        <3>4. ScpTypeOK' /\ DestInv' /\ FlowInv' /\ UploadInv'
            BY <1>1, <2>1, <2>2, <3>1, <3>2, <3>3 DEF ScpInv, ScpTypeOK, DestInv, FlowInv, UploadInv, SameTask,
                   SameTransfer, Downloading, Filling, Succeeded, AckStages
        <3>5. NothingOld' <=> NothingOld
            BY <2>2, <3>3 DEF NothingOld, SameTask, SameTransfer
        <3>6. CleanInv'
            BY <1>1, <2>2, <2>3, <3>1, <3>2, <3>3, <3>5 DEF ScpInv, CleanInv, SameTask, SameTransfer,
                   Downloading, Filling, Succeeded
        <3>7. xfer.moved = 0 /\ xfer.size \in Nat
            BY <1>1 DEF ScpInv, ScpTypeOK, XferRecord, FillInv, Emptying
        <3>8. FillInv'
            BY <1>1, <2>2, <2>3, <3>1, <3>2, <3>3, <3>7 DEF ScpInv, FillInv, Filled, SameTask, SameTransfer,
                   Downloading, Filling, Emptying, Succeeded
        <3>. QED
            BY <3>4, <3>6, <3>8 DEF ScpInv
    <2>. QED
        BY <2>4, <2>5
<1>. QED
    BY <1>2, <1>3

LEMMA ReceiveChunkKeeps == ScpInv /\ ReceiveChunk => ScpInv'
<1> SUFFICES ASSUME ScpInv, ReceiveChunk PROVE ScpInv'
    OBVIOUS
<1>1. xfer.step = "data" /\ Downloading /\ ~On("done")
    BY DEF ReceiveChunk, On, Downloading
<1>2. CASE Fail /\ UNCHANGED sink
    BY <1>1, <1>2, FailPlainly DEF ReceiveChunk
<1>3. CASE ~(Fail /\ UNCHANGED sink)
    <2>1. PICK failed \in {sink.failed, TRUE} :
              /\ sink' = [sink EXCEPT !.failed = failed]
              /\ disk' = [state |-> "busy", at |-> xfer.moved + 1,
                          value |-> IF failed THEN Hole ELSE xfer.n]
        BY <1>3 DEF ReceiveChunk
    <2>2. /\ xfer' = [xfer EXCEPT !.moved = @ + 1,
                                  !.step = IF xfer.moved + 1 = xfer.size THEN "flush" ELSE @]
          /\ UNCHANGED <<poisoned, dest, late>> /\ disk.state = "idle"
        BY <1>3 DEF ReceiveChunk
    <2>3. PICK step \in {"data", "flush"} : step = IF xfer.moved + 1 = xfer.size THEN "flush" ELSE xfer.step
        BY <1>1
    <2>4. /\ xfer \in XferRecord /\ xfer.moved + 1 \in Nat /\ step \in ScpSteps /\ sink \in SinkRecord
          /\ sink.failed \in BOOLEAN /\ xfer.n \in Nat /\ xfer.moved \in Nat /\ xfer.size \in Nat
        BY DEF ScpInv, ScpTypeOK, XferRecord, SinkRecord, ScpSteps
    <2>5. xfer' = [xfer EXCEPT !.moved = xfer.moved + 1, !.step = step]
        BY <2>2, <2>3, <2>4 DEF XferRecord
    <2>6. xfer' \in XferRecord
        BY <2>4, <2>5, Zenon DEF XferRecord
    <2>7. /\ SameTransfer /\ xfer'.step = step /\ xfer'.outcome = xfer.outcome /\ xfer'.size = xfer.size
          /\ xfer'.moved = xfer.moved + 1 /\ xfer'.mode = xfer.mode
        BY <2>4, <2>5 DEF XferRecord, SameTransfer
    <2>8. sink' \in SinkRecord /\ sink'.failed = failed
        <3>1. failed \in BOOLEAN
            BY <2>4, Zenon
        <3>. QED
            BY <2>1, <2>4, <3>1 DEF SinkRecord
    <2>9. /\ disk' \in DiskRecord /\ disk'.state = "busy" /\ disk'.at = xfer.moved + 1
          /\ disk'.value = IF failed THEN Hole ELSE xfer.n
        BY <2>1, <2>4 DEF DiskRecord, Hole
    <2>10. ScpTypeOK' /\ DestInv' /\ FlowInv' /\ UploadInv'
        BY <1>1, <2>2, <2>6, <2>7, <2>8, <2>9 DEF ScpInv, ScpTypeOK, DestInv, FlowInv, UploadInv, SameTransfer,
               Downloading, Filling, Succeeded, AckStages
    <2>11. NothingOld' <=> NothingOld
        BY <2>2, <2>7 DEF NothingOld, SameTransfer
    <2>12. CleanInv'
        BY <1>1, <2>2, <2>7, <2>11 DEF ScpInv, CleanInv, SameTransfer, Downloading, Filling, Succeeded
    <2>13. FillInv'
        <3>1. Downloading' /\ step \notin Emptying \cup {"widen"}
            BY <1>1, <2>7 DEF Downloading, SameTransfer, Emptying
        <3>2. SUFFICES ASSUME xfer'.clean
                       PROVE  /\ dest'.mode = xfer'.mode
                              /\ step = "data" => xfer'.moved < xfer'.size
                              /\ step # "data" => xfer'.moved = xfer'.size
                              /\ Filled(xfer.moved - 1)' /\ disk'.at = xfer'.moved /\ disk'.at > 0
                              /\ disk'.value = IF sink'.failed THEN Hole ELSE xfer'.n
            BY <2>7, <2>9, <3>1 DEF FillInv, Succeeded
        <3>3. dest.mode = xfer.mode /\ xfer.moved < xfer.size /\ Filled(xfer.moved)
            BY <1>1, <2>2, <2>7, <3>2 DEF ScpInv, FillInv, Filling, SameTransfer
        <3>4. Filled(xfer.moved - 1)'
            <4>1. xfer'.moved - 1 = xfer.moved /\ xfer'.n = xfer.n
                BY <2>4, <2>7 DEF SameTransfer
            <4>2. ~sink'.failed => ~sink.failed
                BY <2>1, <2>8, Zenon
            <4>. QED
                BY <2>2, <3>3, <4>1, <4>2 DEF Filled
        <3>5. step = "data" <=> xfer.moved + 1 # xfer.size
            BY <1>1, <2>3
        <3>. QED
            BY <2>2, <2>4, <2>7, <2>8, <2>9, <3>3, <3>4, <3>5 DEF SameTransfer
    <2>. QED
        BY <2>10, <2>12, <2>13 DEF ScpInv
<1>. QED
    BY <1>2, <1>3

LEMMA FlushKeeps == ScpInv /\ Flush => ScpInv'
<1> SUFFICES ASSUME ScpInv, Flush PROVE ScpInv'
    OBVIOUS
<1>1. xfer.step = "flush" /\ Downloading /\ ~On("done")
    BY DEF Flush, On, ScpInv, FlowInv, ScpTypeOK, XferRecord, Downloading, AckStages
<1>2. CASE disk.state = "idle" /\ Proceed("status") /\ UNCHANGED <<disk, late>>
    BY <1>1, <1>2, AdvanceKeeps DEF Flush, ScpSteps, AckStages, Emptying, Filling, Downloading
<1>. QED
    BY <1>1, <1>2, FailPlainly DEF Flush

LEMMA ReadStatusKeeps == ScpInv /\ ReadStatus => ScpInv'
<1> SUFFICES ASSUME ScpInv, ReadStatus PROVE ScpInv'
    OBVIOUS
<1>1. xfer.step = "status" /\ Downloading /\ ~On("done") /\ disk.state = "idle"
    BY DEF ReadStatus, On, ScpInv, FlowInv, ScpTypeOK, XferRecord, DiskRecord, Downloading, AckStages
<1>2. CASE ~sink.failed /\ Proceed("exit") /\ UNCHANGED <<disk, late>>
    BY <1>1, <1>2, AdvanceKeeps DEF ReadStatus, ScpSteps, AckStages, Emptying, Filling, Downloading
<1>. QED
    BY <1>1, <1>2, FailPlainly DEF ReadStatus

LEMMA DiskWritesKeeps == ScpInv /\ DiskWrites => ScpInv'
<1> SUFFICES ASSUME ScpInv, DiskWrites PROVE ScpInv'
    OBVIOUS
<1>1. /\ disk.state = "busy" /\ Downloading /\ xfer.step \in {"data", "flush"}
      /\ dest.exists /\ dest.owned /\ UNCHANGED <<poisoned, xfer, sink, late>>
      /\ disk \in DiskRecord /\ dest \in DestRecord /\ xfer.n \in Nat
    BY DEF DiskWrites, ScpInv, FlowInv, DestInv, ScpTypeOK, XferRecord
<1>2. CASE disk' = [disk EXCEPT !.state = "failed"] /\ UNCHANGED dest
    <2>1. disk' \in DiskRecord /\ disk'.state = "failed" /\ disk'.at = disk.at /\ disk'.value = disk.value
        BY <1>1, <1>2 DEF DiskRecord
    <2>2. ScpTypeOK' /\ DestInv' /\ FlowInv' /\ UploadInv'
        BY <1>1, <1>2, <2>1 DEF ScpInv, ScpTypeOK, DestInv, FlowInv, UploadInv, Downloading, Succeeded
    <2>3. CleanInv'
        BY <1>1, <1>2 DEF ScpInv, CleanInv, NothingOld, Downloading, Succeeded
    <2>4. FillInv'
        BY <1>1, <1>2, <2>1 DEF ScpInv, FillInv, Filled, Downloading, Succeeded
    <2>. QED
        BY <2>2, <2>3, <2>4 DEF ScpInv
<1>3. CASE disk' = Idle /\ dest' = [dest EXCEPT !.bytes = WriteAt(@, disk.at, disk.value)]
    <2>1. dest.bytes \in Seq(Int) /\ disk.at \in Nat /\ disk.value \in Int
        BY <1>1 DEF DestRecord, DiskRecord
    <2>2. PICK bytes \in Seq(Int) : bytes = WriteAt(dest.bytes, disk.at, disk.value)
        BY <2>1, WriteAtEffect
    <2>3. /\ dest' \in DestRecord /\ dest'.mode = dest.mode /\ dest'.exists = dest.exists
          /\ dest'.owned = dest.owned /\ dest'.bytes = bytes
        <3>1. dest' = [dest EXCEPT !.bytes = bytes]
            BY <1>1, <1>3, <2>2 DEF DestRecord
        <3>. QED
            BY <1>1, <3>1 DEF DestRecord
    <2>4. disk' \in DiskRecord /\ disk'.state = "idle"
        BY <1>3 DEF DiskRecord, Idle
    <2>5. ScpTypeOK' /\ DestInv' /\ FlowInv' /\ UploadInv'
        BY <1>1, <2>3, <2>4 DEF ScpInv, ScpTypeOK, DestInv, FlowInv, UploadInv, Downloading, Succeeded
    <2>6. xfer.clean => /\ disk.value = (IF sink.failed THEN Hole ELSE xfer.n)
                        /\ disk.at = xfer.moved /\ disk.at > 0 /\ Filled(xfer.moved - 1) /\ NothingOld
                        /\ dest.mode = xfer.mode
        BY <1>1 DEF ScpInv, FillInv, CleanInv, Filling
    <2>7. xfer.clean => NothingOld'
        <3>1. xfer.clean => disk.value \notin 0..(xfer.n - 1)
            BY <1>1, <2>6 DEF Hole
        <3>. QED
            BY <1>1, <2>1, <2>2, <2>3, <2>6, <3>1, WriteAddsNothingOld DEF NothingOld
    <2>8. CleanInv'
        BY <1>1, <2>7 DEF ScpInv, CleanInv, Downloading, Succeeded
    <2>9. xfer.clean => Filled(xfer.moved)'
        <3> SUFFICES ASSUME xfer.clean PROVE Filled(xfer.moved)'
            OBVIOUS
        <3>1. xfer.moved \in Nat /\ Len(dest.bytes) = xfer.moved - 1
            BY <2>6 DEF Filled, ScpInv, ScpTypeOK, XferRecord
        <3>2. Len(bytes) = xfer.moved
            BY <2>1, <2>2, <2>6, <3>1, WriteAtEffect
        <3>3. ASSUME ~sink.failed, NEW i \in 1..xfer.moved PROVE bytes[i] = xfer.n
            <4>1. bytes[i] = IF i = xfer.moved THEN disk.value ELSE IF i <= Len(dest.bytes) THEN dest.bytes[i] ELSE Hole
                BY <2>1, <2>2, <2>6, <3>2, WriteAtEffect
            <4>2. CASE i = xfer.moved
                BY <2>6, <3>3, <4>1, <4>2
            <4>3. CASE i # xfer.moved
                <5>1. i \in 1..(xfer.moved - 1) /\ i <= Len(dest.bytes)
                    BY <3>1, <4>3
                <5>. QED
                    BY <2>6, <3>3, <4>1, <4>3, <5>1 DEF Filled
            <4>. QED
                BY <4>2, <4>3
        <3>. QED
            BY <1>1, <2>3, <3>2, <3>3 DEF Filled
    <2>10. FillInv'
        BY <1>1, <2>3, <2>4, <2>6, <2>9 DEF ScpInv, FillInv, Downloading, Succeeded
    <2>. QED
        BY <2>5, <2>8, <2>10 DEF ScpInv
<1>. QED
    BY <1>2, <1>3 DEF DiskWrites

\* What an interrupted step hands to the pool is what it would have done itself.
LEMMA DispatchedEffect ==
    ASSUME ScpInv, NEW o \in Dispatched
    PROVE  /\ o \in LateRecord /\ o.op # "write"
           /\ o.op # "create" => dest.exists /\ dest.owned
           /\ o.op = "mode" /\ Downloading /\ xfer.clean => NothingOld \/ o.mode \subseteq xfer.was
<1> DEFINE op(name, mode) == [op |-> name, at |-> 0, value |-> 0, mode |-> mode]
<1>1. xfer.mode \in SUBSET PermissionBits /\ xfer.interim \in SUBSET PermissionBits
    BY DEF ScpInv, ScpTypeOK, XferRecord
<1>2. CASE xfer.step = "create"
    <2>1. o = op("create", xfer.mode)
        BY <1>2 DEF Dispatched, On
    <2>. QED
        BY <1>1, <2>1 DEF LateRecord
<1>3. CASE xfer.step = "narrow" /\ dest.owned
    <2>1. o = op("mode", xfer.interim)
        BY <1>3 DEF Dispatched, On
    <2>. QED
        BY <1>1, <1>3, <2>1 DEF LateRecord, ScpInv, DestInv, CleanInv
<1>4. CASE xfer.step = "truncate"
    <2>1. o = op("truncate", {})
        BY <1>4 DEF Dispatched, On
    <2>. QED
        BY <1>4, <2>1 DEF LateRecord, ScpInv, DestInv
<1>5. CASE xfer.step = "widen"
    <2>1. o = op("mode", xfer.mode)
        BY <1>5 DEF Dispatched, On
    <2>2. xfer.clean /\ Downloading => NothingOld
        BY <1>5 DEF ScpInv, CleanInv, NothingOld
    <2>. QED
        BY <1>1, <1>5, <2>1, <2>2 DEF LateRecord, ScpInv, DestInv
<1>6. CASE /\ xfer.step # "create" /\ ~(xfer.step = "narrow" /\ dest.owned)
           /\ xfer.step # "truncate" /\ xfer.step # "widen"
    BY <1>6, Zenon DEF Dispatched, On
<1>. QED
    BY <1>2, <1>3, <1>4, <1>5, <1>6

LEMMA InterruptKeeps == ScpInv /\ Interrupt => ScpInv'
<1> SUFFICES ASSUME ScpInv, Interrupt PROVE ScpInv'
    OBVIOUS
<1>1. PICK left \in {{}, Dispatched} : late' = late \cup left \cup Orphaned
    BY DEF Interrupt
<1> DEFINE all == left \cup Orphaned
<1>2. \A o \in left : o \in Dispatched
    BY Zenon
<1>3. \A o \in Orphaned : o \in LateRecord /\ o.op = "write" /\ o.value = disk.value /\ disk.state = "busy"
    BY DEF Orphaned, LateRecord, DiskRecord, ScpInv, ScpTypeOK
<1>4. disk.state = "busy" => dest.exists /\ dest.owned
    BY DEF ScpInv, DestInv
<1>5. disk.state = "busy" /\ Downloading /\ xfer.clean => disk.value \notin 0..(xfer.n - 1)
    <2>1. disk.state = "busy" /\ Downloading /\ xfer.clean => disk.value = IF sink.failed THEN Hole ELSE xfer.n
        BY DEF ScpInv, FlowInv, FillInv, Filling
    <2>2. xfer.n \in Nat
        BY DEF ScpInv, ScpTypeOK, XferRecord
    <2>. QED
        BY <2>1, <2>2 DEF Hole
<1>6. \A o \in all : o \in LateRecord /\ (o.op # "create" => dest.exists /\ dest.owned)
    BY <1>2, <1>3, <1>4, DispatchedEffect
<1>7. Downloading /\ xfer.clean =>
          /\ \A o \in all : o.op = "mode" => NothingOld \/ o.mode \subseteq xfer.was
          /\ \A o \in all : o.op = "write" => o.value \notin 0..(xfer.n - 1)
    BY <1>2, <1>3, <1>5, DispatchedEffect
<1>8. /\ Ends("error") /\ ~On("done") /\ disk' = Idle /\ late' = late \cup all
      /\ sink' \in SinkRecord /\ dest' \in DestRecord /\ UNCHANGED dest
    BY <1>1 DEF Interrupt, ScpInv, ScpTypeOK
<1>9. poisoned' \in BOOLEAN
    BY DEF Interrupt
<1>10. Downloading /\ xfer.clean => NothingOld \/ dest'.mode \subseteq xfer.was
    BY <1>8 DEF ScpInv, CleanInv
<1>11. all \in SUBSET LateRecord
    BY <1>6
<1> HIDE DEF all
<1>. QED
    BY <1>6, <1>7, <1>8, <1>9, <1>10, <1>11, EndsBadly

\* The pool changes the destination, in a way an operation it was handed allows.
LEMMA LateChangeKeeps ==
    ASSUME ScpInv, NEW o \in late, late' = late \ {o}, UNCHANGED <<poisoned, xfer, sink, disk>>,
           dest' \in DestRecord, dest'.owned = dest.owned, dest.exists => dest'.exists,
           dest'.bytes # dest.bytes => dest.exists /\ dest.owned,
           ~dest'.exists => dest'.bytes = dest.bytes,
           Downloading /\ xfer.clean => /\ NothingOld => NothingOld'
                                        /\ NothingOld' \/ dest'.mode \subseteq xfer.was
    PROVE  ScpInv'
<1>1. ~(xfer.clean /\ (xfer.step # "done" \/ Succeeded))
    BY DEF ScpInv, CleanInv
<1>2. ScpTypeOK'
    BY DEF ScpInv, ScpTypeOK
<1>3. DestInv'
    BY DEF ScpInv, DestInv, Downloading, Succeeded
<1>4. FlowInv' /\ UploadInv'
    BY DEF ScpInv, FlowInv, UploadInv, Downloading, Succeeded
<1>5. CleanInv'
    BY <1>1 DEF ScpInv, CleanInv, Downloading, Succeeded, Filling
<1>6. FillInv'
    BY <1>1 DEF ScpInv, FillInv, Downloading, Succeeded, Filling
<1>. QED
    BY <1>2, <1>3, <1>4, <1>5, <1>6 DEF ScpInv

LEMMA LateOperationKeeps == ScpInv /\ LateOperation => ScpInv'
<1> SUFFICES ASSUME ScpInv, LateOperation PROVE ScpInv'
    OBVIOUS
<1>1. PICK o \in late :
        /\ late' = late \ {o}
        /\ CASE o.op = "create" /\ dest.exists -> UNCHANGED dest
             [] o.op = "create" /\ ~dest.exists ->
                    \E mode \in SUBSET o.mode : dest' = [dest EXCEPT !.exists = TRUE, !.mode = mode]
             [] o.op = "mode" -> dest' = [dest EXCEPT !.mode = o.mode]
             [] o.op = "truncate" -> dest' = [dest EXCEPT !.bytes = << >>]
             [] o.op = "write" -> dest' = [dest EXCEPT !.bytes = WriteAt(@, o.at, o.value)]
        /\ UNCHANGED <<poisoned, xfer, sink, disk>>
    BY DEF LateOperation
<1>2. o \in LateRecord /\ dest \in DestRecord /\ xfer.n \in Nat
    BY DEF ScpInv, ScpTypeOK, XferRecord
<1>3. o.op # "create" => dest.exists /\ dest.owned
    BY DEF ScpInv, DestInv
<1>4. Downloading /\ xfer.clean => NothingOld \/ dest.mode \subseteq xfer.was
    BY DEF ScpInv, CleanInv
<1>5. CASE o.op = "create" /\ dest.exists
    <2>1. UNCHANGED dest
        BY <1>1, <1>5
    <2>2. NothingOld' <=> NothingOld
        BY <1>1, <2>1 DEF NothingOld
    <2>. QED
        BY <1>1, <1>2, <1>4, <2>1, <2>2, LateChangeKeeps
<1>6. CASE o.op = "create" /\ ~dest.exists
    <2>1. PICK mode \in SUBSET o.mode : dest' = [dest EXCEPT !.exists = TRUE, !.mode = mode]
        BY <1>1, <1>6
    <2>2. mode \in SUBSET PermissionBits
        BY <1>2 DEF LateRecord
    <2>3. dest' \in DestRecord
        BY <1>2, <2>1, <2>2, Zenon DEF DestRecord
    <2>4. dest'.exists /\ dest'.owned = dest.owned /\ dest'.bytes = dest.bytes
        BY <1>2, <2>1 DEF DestRecord
    <2>5. NothingOld'
        BY <1>6, <2>4 DEF NothingOld, ScpInv, DestInv
    <2>. QED
        BY <1>1, <2>3, <2>4, <2>5, LateChangeKeeps
<1>7. CASE o.op = "mode"
    <2>1. dest' = [dest EXCEPT !.mode = o.mode]
        BY <1>1, <1>7
    <2>2. /\ dest' \in DestRecord /\ dest'.exists = dest.exists /\ dest'.owned = dest.owned
          /\ dest'.bytes = dest.bytes /\ dest'.mode = o.mode
        BY <1>2, <2>1 DEF DestRecord, LateRecord
    <2>3. NothingOld' <=> NothingOld
        BY <1>1, <2>2 DEF NothingOld
    <2>4. Downloading /\ xfer.clean => NothingOld \/ o.mode \subseteq xfer.was
        BY <1>7 DEF ScpInv, CleanInv
    <2>. QED
        BY <1>1, <1>3, <1>7, <2>2, <2>3, <2>4, LateChangeKeeps
<1>8. CASE o.op = "truncate"
    <2>1. dest' = [dest EXCEPT !.bytes = << >>]
        BY <1>1, <1>8
    <2>2. /\ dest' \in DestRecord /\ dest'.exists = dest.exists /\ dest'.owned = dest.owned
          /\ dest'.bytes = << >>
        BY <1>2, <2>1, EmptyingEffect
    <2>3. NothingOld'
        BY <2>2 DEF NothingOld
    <2>. QED
        BY <1>1, <1>3, <1>8, <2>2, <2>3, LateChangeKeeps
<1>9. CASE o.op = "write"
    <2>1. dest.bytes \in Seq(Int) /\ o.at \in Nat /\ o.value \in Int
        BY <1>2 DEF DestRecord, LateRecord
    <2>2. PICK bytes \in Seq(Int) : bytes = WriteAt(dest.bytes, o.at, o.value)
        BY <2>1, WriteAtEffect
    <2>3. dest' = [dest EXCEPT !.bytes = bytes]
        BY <1>1, <1>2, <1>9, <2>2 DEF DestRecord
    <2>4. /\ dest' \in DestRecord /\ dest'.exists = dest.exists /\ dest'.owned = dest.owned
          /\ dest'.bytes = bytes /\ dest'.mode = dest.mode
        BY <1>2, <2>3 DEF DestRecord
    <2>5. Downloading /\ xfer.clean => o.value \notin 0..(xfer.n - 1)
        BY <1>9 DEF ScpInv, CleanInv
    <2>6. Downloading /\ xfer.clean /\ NothingOld => NothingOld'
        BY <1>1, <1>2, <2>1, <2>2, <2>4, <2>5, WriteAddsNothingOld DEF NothingOld
    <2>. QED
        BY <1>1, <1>3, <1>4, <1>9, <2>4, <2>6, LateChangeKeeps
<1>. QED
    BY <1>2, <1>5, <1>6, <1>7, <1>8, <1>9 DEF LateRecord

LEMMA ScpInitial == ScpInit => ScpInv
<1> SUFFICES ASSUME ScpInit PROVE ScpInv
    OBVIOUS
<1>1. xfer \in XferRecord /\ sink \in SinkRecord /\ disk \in DiskRecord
    BY DEF ScpInit, XferRecord, SinkRecord, DiskRecord, NoTransfer, ScpSteps, Idle
<1>2. << >> \in Seq(Int) /\ OldBytes \in Seq(Int)
    BY DEF OldBytes
<1>3. dest \in DestRecord /\ (~dest.exists => dest.bytes = << >>) /\ (~dest.owned => dest.bytes = OldBytes)
    <2>1. CASE dest = NoFile
        BY <1>2, <2>1 DEF NoFile, DestRecord
    <2>2. CASE dest \in OldFiles
        BY <1>2, <2>2 DEF OldFiles, DestRecord
    <2>. QED
        BY <2>1, <2>2 DEF ScpInit
<1>4. xfer.step = "done" /\ xfer.outcome = "none" /\ xfer.kind = "none" /\ disk.state = "idle" /\ late = {}
    BY DEF ScpInit, NoTransfer, Idle
<1>5. ScpTypeOK
    BY <1>1, <1>3 DEF ScpInit, ScpTypeOK
<1>. QED
    BY <1>3, <1>4, <1>5 DEF ScpInv, DestInv, FlowInv, UploadInv, CleanInv, FillInv, Downloading, Succeeded

LEMMA ScpStep == ScpInv /\ [ScpNext]_scpVars => ScpInv'
<1> SUFFICES ASSUME ScpInv, [ScpNext]_scpVars PROVE ScpInv'
    OBVIOUS
<1>1. CASE UNCHANGED scpVars
    <2>1. UNCHANGED <<xfer, sink, dest, disk, late>> /\ poisoned' \in BOOLEAN
        BY <1>1 DEF scpVars, ScpInv, ScpTypeOK
    <2>. QED
        BY <2>1, UnmovedKeeps
<1>. QED
    BY <1>1, StartTransferKeeps, ReconnectKeeps, OpenChannelKeeps, ExecKeeps, ExitStatusKeeps,
       ChannelClosesKeeps, ReadAckKeeps, SendChunkKeeps, ReadHeaderKeeps, CreateDestKeeps, NarrowKeeps,
       TruncateKeeps, WidenKeeps, ReceiveChunkKeeps, DiskWritesKeeps, FlushKeeps, ReadStatusKeeps,
       InterruptKeeps, LateOperationKeeps DEF ScpNext

\* For files of any size and any number of transfers, failures, interruptions
\* and late operations: a transfer that returned Ok moved the whole file, and a
\* download neither exposes nor loses what its destination held before.
THEOREM TransferStaysSafe == ScpSpec => []TransferIsSafe
<1>1. ScpInv => TransferIsSafe
    <2> SUFFICES ASSUME ScpInv PROVE TransferIsSafe
        OBVIOUS
    <2>1. TransferIsWhole
        <3> SUFFICES ASSUME Succeeded
                     PROVE  IF xfer.kind = "upload"
                            THEN sink.stored = xfer.size /\ ~sink.failed
                            ELSE xfer.clean => /\ dest.bytes = [i \in 1..xfer.size |-> xfer.n]
                                               /\ dest.mode = xfer.mode
            BY DEF TransferIsWhole, Succeeded
        <3>1. CASE xfer.kind = "upload"
            BY <3>1 DEF ScpInv, UploadInv
        <3>2. CASE xfer.kind # "upload" /\ xfer.clean
            <4>1. Downloading /\ disk.state = "idle"
                BY <3>2 DEF ScpInv, FlowInv, ScpTypeOK, XferRecord, DiskRecord, Succeeded, Downloading
            <4>2. dest.mode = xfer.mode /\ Filled(xfer.size) /\ ~sink.failed
                BY <3>2, <4>1 DEF ScpInv, FillInv, Succeeded
            <4>3. dest.bytes \in Seq(Int) /\ xfer.size \in Nat
                BY DEF ScpInv, ScpTypeOK, DestRecord, XferRecord
            <4>4. dest.bytes = [i \in 1..xfer.size |-> xfer.n]
                BY <4>2, <4>3 DEF Filled
            <4>. QED
                BY <3>2, <4>2, <4>4
        <3>. QED
            BY <3>1, <3>2
    <2>2. OldContentProtected
        BY DEF OldContentProtected, ScpInv, CleanInv, DestInv, NothingOld, Downloading
    <2>. QED
        BY <2>1, <2>2 DEF TransferIsSafe
<1>. QED
    BY ScpInitial, ScpStep, <1>1, PTL DEF ScpSpec
=============================================================================
