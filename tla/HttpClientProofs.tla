--------------------------- MODULE HttpClientProofs ---------------------------
(***************************************************************************)
(* The outbound HTTP client for any number of tasks, every limit and every *)
(* retry policy.  The invariant says of each call how often it can have    *)
(* been on the wire by the attempt it is in, and by when the timer that is *)
(* running fires, counted from the call's start; and it counts permits.    *)
(***************************************************************************)
EXTENDS HttpClient, FiniteSetTheorems, TLAPS

Placed == {"queued", "sending", "reading"}
Slotted == {"sending", "reading"}
Steps == Placed \cup {"none", "sleeping", "done"}

ExchangeRecord ==
    [step : Steps, mutates : BOOLEAN, retries : BOOLEAN, attempt : Nat, wire : Nat, backoff : Nat,
     start : Nat, due : Nat, got : Nat, status : {"none", "final", "transient"}, took : Int]

HttpTypeOK ==
    /\ httpTicks \in Nat
    /\ exchange \in [Tasks -> ExchangeRecord]

MostSends(c) == IF c.mutates \/ ~c.retries THEN 1 ELSE Larger(MaxAttempts, 1)
LongestCall(c) == IF c.retries THEN MaxTotalWait + RequestTimeout ELSE RequestTimeout

\* An attempt reaches the wire at most once, after it got its slot, and a call
\* that retries changes nothing.
WireOK(c) ==
    /\ c.step = "none" => c.wire = 0
    /\ c.step = "done" => c.wire <= MostSends(c)
    /\ c.step = "queued" => c.wire + 1 <= c.attempt
    /\ c.step \in Slotted \cup {"sleeping"} => c.wire <= c.attempt
    /\ c.step \in Placed \cup {"sleeping"} => c.attempt <= MostSends(c)
    /\ c.step \in Placed \cup {"sleeping"} => ~(c.mutates /\ c.retries)
    /\ c.step = "sleeping" => c.retries /\ c.attempt < MostSends(c)

\* The timer of an attempt, or of the sleep before one, is not overdue and fires
\* in time.
TimeOK(c, now) ==
    /\ c.start <= now
    /\ c.step \in Placed \cup {"sleeping"} => now <= c.due
    /\ c.step \in Placed => c.due - c.start <= LongestCall(c)
    /\ c.step = "sleeping" => c.due - c.start <= MaxTotalWait
    /\ c.step = "done" => c.took <= LongestCall(c)

BodyOK(c) == c.got <= MaxResponse /\ (c.got > 0 => c.step \in Slotted)

CallOK(c, now) == WireOK(c) /\ TimeOK(c, now) /\ BodyOK(c)

PlaceHolders == {t \in Tasks : HoldsPlace(t)}
SlotHolders == {t \in Tasks : HoldsSlot(t)}

PermitInv ==
    /\ freeSlots \in Nat /\ IsFiniteSet(SlotHolders)
    /\ freeSlots + Cardinality(SlotHolders) = MaxConcurrent
    /\ freePlaces \in Nat /\ IsFiniteSet(PlaceHolders)
    /\ freePlaces + Cardinality(PlaceHolders) = MaxConcurrent + MaxQueued

HttpInv ==
    /\ HttpTypeOK
    /\ \A t \in Tasks : CallOK(exchange[t], httpTicks)
    /\ PermitInv

LEMMA Limits ==
    /\ MaxConcurrent \in Nat /\ MaxQueued \in Nat /\ RequestTimeout \in Nat /\ RequestTimeout > 0
    /\ MaxResponse \in Nat /\ MaxResponse > 0 /\ MaxChunk \in Nat
    /\ MaxAttempts \in Nat /\ InitialBackoff \in Nat /\ MaxBackoff \in Nat
    /\ MaxTotalWait \in Nat /\ MaxHttpTicks \in Nat
BY HttpAssumption DEF HttpAssumption

LEMMA HttpInitial == HttpInit => HttpInv
<1> SUFFICES ASSUME HttpInit PROVE HttpInv
    OBVIOUS
<1>1. HttpTypeOK
    BY DEF HttpInit, HttpTypeOK, ExchangeRecord, NotCalled, Steps, Placed
<1>2. \A t \in Tasks : CallOK(exchange[t], httpTicks)
    BY Limits DEF HttpInit, CallOK, WireOK, TimeOK, BodyOK, NotCalled, Placed, Slotted
<1>3. PlaceHolders = {} /\ SlotHolders = {}
    BY DEF HttpInit, PlaceHolders, SlotHolders, HoldsPlace, HoldsSlot, NotCalled
<1>4. PermitInv
    BY <1>3, FS_EmptySet, Limits DEF HttpInit, PermitInv
<1>. QED
    BY <1>1, <1>2, <1>4 DEF HttpInv

\* A step that moves one call, and moves the permits by what the call held and
\* holds, keeps the invariant.
One(b) == IF b THEN 1 ELSE 0

\* How the number of members changes with one element.
LEMMA CountOne ==
    ASSUME NEW A, NEW t, IsFiniteSet(A)
    PROVE  /\ Cardinality(A) \in Nat
           /\ IsFiniteSet(A \cup {t}) /\ Cardinality(A \cup {t}) \in Nat
           /\ Cardinality(A \cup {t}) = Cardinality(A) + 1 - One(t \in A)
           /\ IsFiniteSet(A \ {t}) /\ Cardinality(A \ {t}) \in Nat
           /\ Cardinality(A \ {t}) = Cardinality(A) - One(t \in A)
BY FS_AddElement, FS_RemoveElement, FS_CardinalityType DEF One

LEMMA OneCallMoves ==
    ASSUME HttpInv, NEW t \in Tasks, NEW r \in ExchangeRecord,
           CallOK(r, httpTicks), httpTicks' = httpTicks,
           exchange' = [exchange EXCEPT ![t] = r],
           freePlaces' \in Nat, freeSlots' \in Nat,
           freePlaces' = freePlaces + One(exchange[t].step \in Placed) - One(r.step \in Placed),
           freeSlots' = freeSlots + One(exchange[t].step \in Slotted) - One(r.step \in Slotted)
    PROVE  HttpInv'
<1>1. \A u \in Tasks : exchange'[u] = IF u = t THEN r ELSE exchange[u]
    BY DEF HttpInv, HttpTypeOK
<1>2. HttpTypeOK'
    BY DEF HttpInv, HttpTypeOK
<1>3. ASSUME NEW u \in Tasks PROVE CallOK(exchange[u], httpTicks)'
    <2>1. exchange'[u] = r \/ exchange'[u] = exchange[u]
        BY <1>1
    <2>2. CallOK(exchange'[u], httpTicks)
        BY <2>1 DEF HttpInv
    <2>. QED
        BY <2>2 DEF CallOK, WireOK, TimeOK, BodyOK
<1>4. PlaceHolders' = IF r.step \in Placed THEN PlaceHolders \cup {t} ELSE PlaceHolders \ {t}
    BY <1>1 DEF PlaceHolders, HoldsPlace, Placed
<1>5. SlotHolders' = IF r.step \in Slotted THEN SlotHolders \cup {t} ELSE SlotHolders \ {t}
    BY <1>1 DEF SlotHolders, HoldsSlot, Slotted
<1>6. (t \in PlaceHolders <=> exchange[t].step \in Placed)
      /\ (t \in SlotHolders <=> exchange[t].step \in Slotted)
    BY DEF PlaceHolders, SlotHolders, HoldsPlace, HoldsSlot, Placed, Slotted
<1>7. /\ IsFiniteSet(PlaceHolders') /\ Cardinality(PlaceHolders) \in Nat
      /\ Cardinality(PlaceHolders') \in Nat
      /\ Cardinality(PlaceHolders')
            = Cardinality(PlaceHolders) + One(r.step \in Placed) - One(exchange[t].step \in Placed)
    <2>1. IsFiniteSet(PlaceHolders)
        BY DEF HttpInv, PermitInv
    <2>2. /\ Cardinality(PlaceHolders) \in Nat
          /\ IsFiniteSet(PlaceHolders \cup {t}) /\ Cardinality(PlaceHolders \cup {t}) \in Nat
          /\ Cardinality(PlaceHolders \cup {t})
                = Cardinality(PlaceHolders) + 1 - One(exchange[t].step \in Placed)
          /\ IsFiniteSet(PlaceHolders \ {t}) /\ Cardinality(PlaceHolders \ {t}) \in Nat
          /\ Cardinality(PlaceHolders \ {t}) = Cardinality(PlaceHolders) - One(exchange[t].step \in Placed)
        BY <1>6, <2>1, CountOne DEF One
    <2>3. CASE r.step \in Placed
        BY <1>4, <2>2, <2>3 DEF One
    <2>4. CASE r.step \notin Placed
        BY <1>4, <2>2, <2>4 DEF One
    <2>. QED
        BY <2>3, <2>4
<1>8. /\ IsFiniteSet(SlotHolders') /\ Cardinality(SlotHolders) \in Nat
      /\ Cardinality(SlotHolders') \in Nat
      /\ Cardinality(SlotHolders')
            = Cardinality(SlotHolders) + One(r.step \in Slotted) - One(exchange[t].step \in Slotted)
    <2>1. IsFiniteSet(SlotHolders)
        BY DEF HttpInv, PermitInv
    <2>2. /\ Cardinality(SlotHolders) \in Nat
          /\ IsFiniteSet(SlotHolders \cup {t}) /\ Cardinality(SlotHolders \cup {t}) \in Nat
          /\ Cardinality(SlotHolders \cup {t})
                = Cardinality(SlotHolders) + 1 - One(exchange[t].step \in Slotted)
          /\ IsFiniteSet(SlotHolders \ {t}) /\ Cardinality(SlotHolders \ {t}) \in Nat
          /\ Cardinality(SlotHolders \ {t}) = Cardinality(SlotHolders) - One(exchange[t].step \in Slotted)
        BY <1>6, <2>1, CountOne DEF One
    <2>3. CASE r.step \in Slotted
        BY <1>5, <2>2, <2>3 DEF One
    <2>4. CASE r.step \notin Slotted
        BY <1>5, <2>2, <2>4 DEF One
    <2>. QED
        BY <2>3, <2>4
<1>9. PermitInv'
    <2>1. /\ freeSlots \in Nat /\ freeSlots + Cardinality(SlotHolders) = MaxConcurrent
          /\ freePlaces \in Nat /\ freePlaces + Cardinality(PlaceHolders) = MaxConcurrent + MaxQueued
        BY DEF HttpInv, PermitInv
    <2>2. freeSlots' + Cardinality(SlotHolders') = MaxConcurrent
        BY <1>8, <2>1, Limits DEF One
    <2>3. freePlaces' + Cardinality(PlaceHolders') = MaxConcurrent + MaxQueued
        BY <1>7, <2>1, Limits DEF One
    <2>. QED
        BY <1>7, <1>8, <2>2, <2>3 DEF PermitInv
<1>. QED
    BY <1>2, <1>3, <1>9 DEF HttpInv
----------------------------------------------------------------------------
(* What the calls' records become *)

LEMMA Own == ASSUME HttpInv, NEW t \in Tasks
             PROVE  /\ exchange[t] \in ExchangeRecord /\ CallOK(exchange[t], httpTicks)
                    /\ httpTicks \in Nat /\ freePlaces \in Nat /\ freeSlots \in Nat
BY DEF HttpInv, HttpTypeOK, PermitInv

LEMMA MostSendsType ==
    ASSUME NEW c \in ExchangeRecord
    PROVE  /\ MostSends(c) \in Nat /\ MostSends(c) >= 1
           /\ LongestCall(c) \in Nat
           /\ c.retries /\ ~c.mutates => MostSends(c) = Larger(MaxAttempts, 1)
           /\ c.retries => LongestCall(c) = MaxTotalWait + RequestTimeout
           /\ ~c.retries => LongestCall(c) = RequestTimeout
BY Limits DEF MostSends, LongestCall, Larger, ExchangeRecord

\* A call may return whenever what it did and the time it took are in bounds.
LEMMA ReturnedOK ==
    ASSUME NEW c \in ExchangeRecord, httpTicks \in Nat,
           c.wire <= MostSends(c), httpTicks - c.start <= LongestCall(c)
    PROVE  /\ Returned(c) \in ExchangeRecord /\ CallOK(Returned(c), httpTicks)
           /\ Returned(c).step = "done"
<1>1. /\ Returned(c) \in ExchangeRecord
      /\ Returned(c).step = "done" /\ Returned(c).wire = c.wire /\ Returned(c).got = 0
      /\ Returned(c).start = 0 /\ Returned(c).took = httpTicks - c.start
      /\ Returned(c).mutates = c.mutates /\ Returned(c).retries = c.retries
    <2>1. c.mutates \in BOOLEAN /\ c.retries \in BOOLEAN /\ c.wire \in Nat /\ c.start \in Nat
        BY DEF ExchangeRecord
    <2>2. httpTicks - c.start \in Int
        BY <2>1
    <2>3. NotCalled \in ExchangeRecord
        BY DEF NotCalled, ExchangeRecord, Steps, Placed
    <2>4. "done" \in Steps
        BY DEF Steps
    <2>5. Returned(c) \in ExchangeRecord
        BY <2>1, <2>2, <2>3, <2>4, Zenon DEF Returned, ExchangeRecord
    <2>6. NotCalled.got = 0 /\ NotCalled.start = 0
        BY DEF NotCalled
    <2>. QED
        BY <2>3, <2>5, <2>6 DEF Returned, ExchangeRecord
<1>2. MostSends(Returned(c)) = MostSends(c) /\ LongestCall(Returned(c)) = LongestCall(c)
    BY <1>1 DEF MostSends, LongestCall
<1> HIDE DEF Returned
<1>. QED
    BY <1>1, <1>2, Limits DEF CallOK, WireOK, TimeOK, BodyOK, Placed, Slotted

\* A call that is under way is within its bounds.
LEMMA UnderWay ==
    ASSUME HttpInv, NEW t \in Tasks, exchange[t].step \in Placed \cup {"sleeping"}
    PROVE  exchange[t].wire <= MostSends(exchange[t])
           /\ httpTicks - exchange[t].start <= LongestCall(exchange[t])
<1> DEFINE c == exchange[t]
<1>1. c \in ExchangeRecord /\ CallOK(c, httpTicks) /\ httpTicks \in Nat
    BY Own
<1>2. /\ c.wire \in Nat /\ c.attempt \in Nat /\ c.start \in Nat /\ c.due \in Nat
      /\ MostSends(c) \in Nat /\ LongestCall(c) \in Nat
      /\ c.retries => LongestCall(c) = MaxTotalWait + RequestTimeout
    BY <1>1, MostSendsType DEF ExchangeRecord
<1>3. c.step \in Placed \cup {"sleeping"}
    OBVIOUS
<1> HIDE DEF c
<1>4. c.wire <= c.attempt /\ c.attempt <= MostSends(c)
    BY <1>1, <1>2, <1>3 DEF CallOK, WireOK, Placed, Slotted
<1>5. httpTicks <= c.due /\ c.due - c.start <= LongestCall(c)
    BY <1>1, <1>2, <1>3, Limits DEF CallOK, TimeOK, WireOK, Placed, Slotted
<1>6. c.wire <= MostSends(c) /\ httpTicks - c.start <= LongestCall(c)
    BY <1>1, <1>2, <1>4, <1>5
<1>. QED
    BY <1>6 DEF c

LEMMA PermitsBack ==
    ASSUME HttpInv, NEW t \in Tasks, GivesBack(t)
    PROVE  /\ freePlaces' \in Nat /\ freeSlots' \in Nat
           /\ freePlaces' = freePlaces + One(exchange[t].step \in Placed)
           /\ freeSlots' = freeSlots + One(exchange[t].step \in Slotted)
BY Own DEF GivesBack, HoldsPlace, HoldsSlot, Placed, Slotted, One

\* However an attempt ends, the call returns or sleeps within its budget, and
\* both permits come back.
LEMMA AttemptEnds ==
    ASSUME HttpInv, NEW t \in Tasks, NEW answer, exchange[t].step \in Placed,
           EndAttempt(t, answer), GivesBack(t), UNCHANGED httpTicks
    PROVE  HttpInv'
<1> DEFINE c == exchange[t]
           s == [c EXCEPT !.step = "sleeping", !.due = httpTicks + c.backoff, !.got = 0, !.status = "none"]
           r == IF TriesAgain(c, answer) THEN s ELSE Returned(c)
<1>1. c \in ExchangeRecord /\ CallOK(c, httpTicks) /\ httpTicks \in Nat
    BY Own
<1>2. exchange' = [exchange EXCEPT ![t] = r]
    BY DEF EndAttempt
<1>3. /\ Returned(c) \in ExchangeRecord /\ CallOK(Returned(c), httpTicks)
      /\ Returned(c).step = "done"
    BY <1>1, UnderWay, ReturnedOK
<1>4. ASSUME TriesAgain(c, answer)
      PROVE  s \in ExchangeRecord /\ CallOK(s, httpTicks) /\ s.step = "sleeping"
    <2>1. /\ s \in ExchangeRecord /\ s.step = "sleeping" /\ s.got = 0
          /\ s.due = httpTicks + c.backoff /\ s.start = c.start /\ s.wire = c.wire
          /\ s.attempt = c.attempt /\ s.mutates = c.mutates /\ s.retries = c.retries
        <3>1. httpTicks + c.backoff \in Nat /\ "sleeping" \in Steps /\ 0 \in Nat
            BY <1>1 DEF ExchangeRecord, Steps
        <3>2. s \in ExchangeRecord
            BY <1>1, <3>1, Zenon DEF ExchangeRecord
        <3>. QED
            BY <1>1, <3>2 DEF ExchangeRecord
    <2>2. c.retries /\ c.attempt < Larger(MaxAttempts, 1)
          /\ httpTicks - c.start + c.backoff <= MaxTotalWait
        BY <1>4 DEF TriesAgain
    <2>3. /\ c.backoff \in Nat /\ c.start \in Nat /\ c.wire \in Nat /\ c.attempt \in Nat
          /\ Larger(MaxAttempts, 1) \in Nat /\ c.start <= httpTicks
        BY <1>1, Limits DEF ExchangeRecord, Larger, CallOK, TimeOK
    <2>4. ~c.mutates /\ c.wire <= c.attempt
        BY <1>1, <2>2, <2>3 DEF CallOK, WireOK, Placed, Slotted, ExchangeRecord
    <2>5. MostSends(s) = Larger(MaxAttempts, 1)
        BY <2>1, <2>2, <2>4 DEF MostSends
    <2> HIDE DEF s, c
    <2>6. WireOK(s)
        BY <2>1, <2>2, <2>3, <2>4, <2>5 DEF WireOK, Placed, Slotted
    <2>7. TimeOK(s, httpTicks)
        BY <1>1, <2>1, <2>2, <2>3, Limits DEF TimeOK, Placed
    <2>. QED
        BY <2>1, <2>6, <2>7, Limits DEF CallOK, BodyOK
<1>5. r \in ExchangeRecord /\ CallOK(r, httpTicks) /\ r.step \notin Placed /\ r.step \notin Slotted
    BY <1>3, <1>4 DEF Placed, Slotted
<1>6. /\ freePlaces' \in Nat /\ freeSlots' \in Nat
      /\ freePlaces' = freePlaces + One(exchange[t].step \in Placed) - One(r.step \in Placed)
      /\ freeSlots' = freeSlots + One(exchange[t].step \in Slotted) - One(r.step \in Slotted)
    BY <1>5, PermitsBack, Own DEF One
<1> HIDE DEF r
<1>. QED
    BY <1>2, <1>5, <1>6, OneCallMoves
\* An attempt that may start takes a place or is refused.
LEMMA AttemptBegins ==
    ASSUME HttpInv, NEW t \in Tasks, exchange[t].step \notin Placed, NEW c \in ExchangeRecord,
           c.wire <= c.attempt, c.attempt < MostSends(c), ~(c.mutates /\ c.retries), c.got = 0,
           c.start <= httpTicks, httpTicks + RequestTimeout - c.start <= LongestCall(c),
           Attempt(t, c), UNCHANGED <<httpTicks, freeSlots>>
    PROVE  HttpInv'
<1> DEFINE q == [c EXCEPT !.step = "queued", !.attempt = @ + 1, !.due = httpTicks + RequestTimeout]
<1>1. /\ httpTicks \in Nat /\ freePlaces \in Nat /\ freeSlots \in Nat
      /\ exchange[t].step \notin Slotted
    BY Own DEF Placed, Slotted
<1>2. /\ c.wire \in Nat /\ c.attempt \in Nat /\ c.start \in Nat /\ MostSends(c) \in Nat
      /\ LongestCall(c) \in Nat
    BY MostSendsType DEF ExchangeRecord
<1>3. CASE freePlaces > 0
    <2>1. c.attempt + 1 \in Nat /\ httpTicks + RequestTimeout \in Nat /\ "queued" \in Steps
        BY <1>1, <1>2, Limits DEF Steps, Placed
    <2>2. q \in ExchangeRecord
        BY <2>1, Zenon DEF ExchangeRecord
    <2>3. /\ q.step = "queued" /\ q.attempt = c.attempt + 1 /\ q.due = httpTicks + RequestTimeout
          /\ q.mutates = c.mutates /\ q.retries = c.retries /\ q.wire = c.wire
          /\ q.start = c.start /\ q.got = 0
        BY DEF ExchangeRecord
    <2>4. exchange' = [exchange EXCEPT ![t] = q] /\ freePlaces' = freePlaces - 1
        BY <1>3 DEF Attempt
    <2> HIDE DEF q
    <2>5. MostSends(q) = MostSends(c) /\ LongestCall(q) = LongestCall(c)
        BY <2>3 DEF MostSends, LongestCall
    <2>6. CallOK(q, httpTicks)
        BY <1>1, <1>2, <2>3, <2>5, Limits DEF CallOK, WireOK, TimeOK, BodyOK, Placed, Slotted
    <2>7. /\ freePlaces' \in Nat /\ freeSlots' \in Nat
          /\ freePlaces' = freePlaces + One(exchange[t].step \in Placed) - One(q.step \in Placed)
          /\ freeSlots' = freeSlots + One(exchange[t].step \in Slotted) - One(q.step \in Slotted)
        BY <1>1, <1>3, <2>3, <2>4 DEF One, Placed, Slotted
    <2>. QED
        BY <2>2, <2>4, <2>6, <2>7, OneCallMoves
<1>4. CASE ~(freePlaces > 0)
    <2>1. httpTicks - c.start <= LongestCall(c) /\ c.wire <= MostSends(c)
        BY <1>1, <1>2, Limits
    <2>2. /\ Returned(c) \in ExchangeRecord /\ CallOK(Returned(c), httpTicks)
          /\ Returned(c).step = "done"
        BY <1>1, <2>1, ReturnedOK
    <2>3. exchange' = [exchange EXCEPT ![t] = Returned(c)] /\ freePlaces' = freePlaces
        BY <1>4 DEF Attempt
    <2>4. /\ freePlaces' \in Nat /\ freeSlots' \in Nat
          /\ freePlaces' = freePlaces + One(exchange[t].step \in Placed) - One(Returned(c).step \in Placed)
          /\ freeSlots' = freeSlots + One(exchange[t].step \in Slotted) - One(Returned(c).step \in Slotted)
        BY <1>1, <2>2, <2>3 DEF One, Placed, Slotted
    <2>. QED
        BY <2>2, <2>3, <2>4, OneCallMoves
<1>. QED
    BY <1>3, <1>4
----------------------------------------------------------------------------
(* One lemma per action *)

LEMMA CallKeeps ==
    ASSUME HttpInv, NEW t \in Tasks, NEW mutates \in BOOLEAN, NEW retries \in BOOLEAN,
           Call(t, mutates, retries)
    PROVE  HttpInv'
<1> DEFINE c == [NotCalled EXCEPT !.mutates = mutates, !.retries = retries, !.start = httpTicks,
                                  !.backoff = Smaller(InitialBackoff, MaxBackoff)]
<1>1. httpTicks \in Nat /\ freePlaces \in Nat /\ freeSlots \in Nat /\ exchange[t].step = "none"
    BY Own DEF Call
<1>2. c \in ExchangeRecord
    <2>1. Smaller(InitialBackoff, MaxBackoff) \in Nat
        BY Limits DEF Smaller
    <2>2. NotCalled \in ExchangeRecord
        BY DEF NotCalled, ExchangeRecord, Steps, Placed
    <2>. QED
        BY <1>1, <2>1, <2>2, Zenon DEF ExchangeRecord
<1>3. /\ c.mutates = mutates /\ c.retries = retries /\ c.start = httpTicks
      /\ c.wire = 0 /\ c.attempt = 0 /\ c.got = 0
    BY DEF NotCalled
<1>4. IF mutates /\ retries
      THEN exchange' = [exchange EXCEPT ![t] = Returned(c)] /\ UNCHANGED <<freePlaces, waiters>>
      ELSE Attempt(t, c)
    BY DEF Call
<1>5. UNCHANGED <<httpTicks, freeSlots>>
    BY DEF Call
<1> HIDE DEF c
<1>6. /\ MostSends(c) \in Nat /\ MostSends(c) >= 1 /\ LongestCall(c) \in Nat
      /\ RequestTimeout <= LongestCall(c)
    BY <1>2, Limits, MostSendsType DEF LongestCall
<1>7. CASE mutates /\ retries
    <2>1. httpTicks - c.start <= LongestCall(c) /\ c.wire <= MostSends(c)
        BY <1>1, <1>3, <1>6
    <2>2. /\ Returned(c) \in ExchangeRecord /\ CallOK(Returned(c), httpTicks)
          /\ Returned(c).step = "done"
        BY <1>1, <1>2, <2>1, ReturnedOK
    <2>3. /\ freePlaces' \in Nat /\ freeSlots' \in Nat
          /\ freePlaces' = freePlaces + One(exchange[t].step \in Placed) - One(Returned(c).step \in Placed)
          /\ freeSlots' = freeSlots + One(exchange[t].step \in Slotted) - One(Returned(c).step \in Slotted)
        BY <1>1, <1>4, <1>5, <1>7, <2>2 DEF One, Placed, Slotted
    <2>. QED
        BY <1>4, <1>5, <1>7, <2>2, <2>3, OneCallMoves
<1>8. CASE ~(mutates /\ retries)
    <2>1. /\ exchange[t].step \notin Placed /\ c.wire <= c.attempt /\ c.attempt < MostSends(c)
          /\ ~(c.mutates /\ c.retries) /\ c.got = 0 /\ c.start <= httpTicks
          /\ httpTicks + RequestTimeout - c.start <= LongestCall(c)
        BY <1>1, <1>3, <1>6, <1>8, Limits DEF Placed
    <2>. QED
        BY <1>2, <1>4, <1>5, <1>8, <2>1, AttemptBegins
<1>. QED
    BY <1>7, <1>8

LEMMA GetSlotKeeps == ASSUME HttpInv, NEW t \in Tasks, GetSlot(t) PROVE HttpInv'
<1> DEFINE c == exchange[t]
           r == [c EXCEPT !.step = "sending", !.wire = @ + 1]
<1>1. /\ c \in ExchangeRecord /\ CallOK(c, httpTicks) /\ httpTicks \in Nat
      /\ freePlaces \in Nat /\ freeSlots \in Nat /\ c.step = "queued"
    BY Own DEF GetSlot
<1>2. /\ c.wire \in Nat /\ c.attempt \in Nat /\ c.start \in Nat /\ c.due \in Nat /\ c.got \in Nat
      /\ c.wire + 1 \in Nat /\ "sending" \in Steps
    BY <1>1 DEF ExchangeRecord, Steps, Placed
<1>3. r \in ExchangeRecord
    BY <1>1, <1>2, Zenon DEF ExchangeRecord
<1>4. /\ r.step = "sending" /\ r.wire = c.wire + 1 /\ r.attempt = c.attempt
      /\ r.mutates = c.mutates /\ r.retries = c.retries /\ r.start = c.start /\ r.due = c.due
      /\ r.got = c.got
    BY <1>1 DEF ExchangeRecord
<1>5. exchange' = [exchange EXCEPT ![t] = r] /\ freeSlots > 0 /\ freeSlots' = freeSlots - 1
      /\ UNCHANGED <<httpTicks, freePlaces>>
    BY DEF GetSlot
<1>6. exchange[t].step = "queued"
    BY <1>1
<1> HIDE DEF c, r
<1>7. MostSends(r) = MostSends(c) /\ LongestCall(r) = LongestCall(c)
    BY <1>4 DEF MostSends, LongestCall
<1>8. CallOK(r, httpTicks)
    BY <1>1, <1>2, <1>4, <1>7 DEF CallOK, WireOK, TimeOK, BodyOK, Placed, Slotted
<1>9. /\ freePlaces' \in Nat /\ freeSlots' \in Nat
      /\ freePlaces' = freePlaces + One(exchange[t].step \in Placed) - One(r.step \in Placed)
      /\ freeSlots' = freeSlots + One(exchange[t].step \in Slotted) - One(r.step \in Slotted)
    BY <1>1, <1>4, <1>5, <1>6 DEF One, Placed, Slotted
<1>. QED
    BY <1>3, <1>5, <1>8, <1>9, OneCallMoves

\* A call that stays in its slot, at its attempt and under its timer.
LEMMA StaysInSlot ==
    ASSUME HttpInv, NEW t \in Tasks, exchange[t].step \in Slotted, NEW r \in ExchangeRecord,
           r.step = "reading", r.wire = exchange[t].wire, r.attempt = exchange[t].attempt,
           r.mutates = exchange[t].mutates, r.retries = exchange[t].retries,
           r.start = exchange[t].start, r.due = exchange[t].due, r.got <= MaxResponse,
           exchange' = [exchange EXCEPT ![t] = r],
           UNCHANGED <<httpTicks, freePlaces, freeSlots>>
    PROVE  HttpInv'
<1>1. /\ exchange[t] \in ExchangeRecord /\ CallOK(exchange[t], httpTicks)
      /\ freePlaces \in Nat /\ freeSlots \in Nat
    BY Own
<1>2. MostSends(r) = MostSends(exchange[t]) /\ LongestCall(r) = LongestCall(exchange[t])
    BY DEF MostSends, LongestCall
<1>3. CallOK(r, httpTicks)
    BY <1>1, <1>2 DEF CallOK, WireOK, TimeOK, BodyOK, Placed, Slotted
<1>4. /\ freePlaces' \in Nat /\ freeSlots' \in Nat
      /\ freePlaces' = freePlaces + One(exchange[t].step \in Placed) - One(r.step \in Placed)
      /\ freeSlots' = freeSlots + One(exchange[t].step \in Slotted) - One(r.step \in Slotted)
    BY <1>1 DEF One, Placed, Slotted
<1>. QED
    BY <1>3, <1>4, OneCallMoves

LEMMA HeadersArriveKeeps ==
    ASSUME HttpInv, NEW t \in Tasks, NEW status \in {"final", "transient"}, HeadersArrive(t, status)
    PROVE  HttpInv'
<1> DEFINE c == exchange[t]
           r == [c EXCEPT !.step = "reading", !.status = status, !.got = 0]
<1>1. c \in ExchangeRecord /\ c.step = "sending"
    BY Own DEF HeadersArrive
<1>2. r \in ExchangeRecord
    <2>1. "reading" \in Steps /\ status \in {"none", "final", "transient"} /\ 0 \in Nat
        BY DEF Steps, Placed
    <2>. QED
        BY <1>1, <2>1, Zenon DEF ExchangeRecord
<1>3. /\ r.step = "reading" /\ r.wire = c.wire /\ r.attempt = c.attempt /\ r.mutates = c.mutates
      /\ r.retries = c.retries /\ r.start = c.start /\ r.due = c.due /\ r.got = 0
    BY <1>1 DEF ExchangeRecord
<1>4. exchange' = [exchange EXCEPT ![t] = r] /\ UNCHANGED <<httpTicks, freePlaces, freeSlots>>
    BY DEF HeadersArrive
<1>5. c.step \in Slotted /\ r.got <= MaxResponse
    BY <1>1, <1>3, Limits DEF Slotted
<1> HIDE DEF r
<1>. QED
    BY <1>2, <1>3, <1>4, <1>5, StaysInSlot

LEMMA SendFailsKeeps == ASSUME HttpInv, NEW t \in Tasks, SendFails(t) PROVE HttpInv'
BY AttemptEnds DEF SendFails, Placed

LEMMA ReadChunkKeeps ==
    ASSUME HttpInv, NEW t \in Tasks, NEW length \in 1..MaxChunk, ReadChunk(t, length)
    PROVE  HttpInv'
<1>1. CASE exchange[t].got + length > MaxResponse
    BY <1>1, AttemptEnds DEF ReadChunk, Placed
<1>2. CASE ~(exchange[t].got + length > MaxResponse)
    <2> DEFINE c == exchange[t]
               r == [c EXCEPT !.got = @ + length]
    <2>1. c \in ExchangeRecord /\ c.step = "reading" /\ length \in Nat
        BY Own, Limits DEF ReadChunk
    <2>2. r \in ExchangeRecord
        <3>1. c.got + length \in Nat
            BY <2>1 DEF ExchangeRecord
        <3>. QED
            BY <2>1, <3>1, Zenon DEF ExchangeRecord
    <2>3. /\ r.step = "reading" /\ r.wire = c.wire /\ r.attempt = c.attempt /\ r.mutates = c.mutates
          /\ r.retries = c.retries /\ r.start = c.start /\ r.due = c.due /\ r.got = c.got + length
        BY <2>1 DEF ExchangeRecord
    <2>4. exchange' = [exchange EXCEPT ![t] = r] /\ UNCHANGED <<httpTicks, freePlaces, freeSlots>>
        BY <1>2 DEF ReadChunk
    <2>5. c.step \in Slotted /\ r.got <= MaxResponse
        <3>1. c.got \in Nat
            BY <2>1 DEF ExchangeRecord
        <3>. QED
            BY <1>2, <2>1, <2>3, <3>1, Limits DEF Slotted
    <2> HIDE DEF r
    <2>. QED
        BY <2>2, <2>3, <2>4, <2>5, StaysInSlot
<1>. QED
    BY <1>1, <1>2

LEMMA BodyEndsKeeps == ASSUME HttpInv, NEW t \in Tasks, BodyEnds(t) PROVE HttpInv'
<1>1. PICK answer \in {exchange[t].status, "BodyRead"} : EndAttempt(t, answer)
    BY DEF BodyEnds
<1>. QED
    BY <1>1, AttemptEnds DEF BodyEnds, Placed

LEMMA ElapsesKeeps == ASSUME HttpInv, NEW t \in Tasks, Elapses(t) PROVE HttpInv'
BY AttemptEnds DEF Elapses, HoldsPlace, Placed

\* A timer that is not overdue and has fired is due now: the attempt after a
\* sleep starts within max_total_wait.
LEMMA WakeUpKeeps == ASSUME HttpInv, NEW t \in Tasks, WakeUp(t) PROVE HttpInv'
<1> DEFINE e == exchange[t]
           c == [e EXCEPT !.backoff = Smaller(2 * @, MaxBackoff)]
<1>1. /\ e \in ExchangeRecord /\ CallOK(e, httpTicks) /\ httpTicks \in Nat
      /\ e.step = "sleeping" /\ httpTicks >= e.due
    BY Own DEF WakeUp
<1>2. c \in ExchangeRecord
    <2>1. Smaller(2 * e.backoff, MaxBackoff) \in Nat
        BY <1>1, Limits DEF Smaller, ExchangeRecord
    <2>. QED
        BY <1>1, <2>1, Zenon DEF ExchangeRecord
<1>3. /\ c.wire = e.wire /\ c.attempt = e.attempt /\ c.mutates = e.mutates /\ c.retries = e.retries
      /\ c.start = e.start /\ c.got = e.got
    BY <1>1 DEF ExchangeRecord
<1>4. Attempt(t, c) /\ UNCHANGED <<httpTicks, freeSlots>>
    BY DEF WakeUp
<1>5. /\ e.wire \in Nat /\ e.attempt \in Nat /\ e.start \in Nat /\ e.due \in Nat /\ e.got \in Nat
    BY <1>1 DEF ExchangeRecord
<1>6. exchange[t].step \notin Placed
    BY <1>1 DEF Placed
<1> HIDE DEF c, e
<1>7. e.retries /\ ~e.mutates /\ e.wire <= e.attempt /\ e.attempt < MostSends(e)
    BY <1>1 DEF CallOK, WireOK, Slotted
<1>8. MostSends(c) = MostSends(e) /\ LongestCall(c) = MaxTotalWait + RequestTimeout
    BY <1>3, <1>7 DEF MostSends, LongestCall
<1>9. c.got = 0 /\ c.start <= httpTicks /\ httpTicks - c.start <= MaxTotalWait
    BY <1>1, <1>3, <1>5, Limits DEF CallOK, TimeOK, BodyOK, Placed, Slotted
<1>10. httpTicks + RequestTimeout - c.start <= LongestCall(c)
    BY <1>1, <1>3, <1>5, <1>8, <1>9, Limits
<1>. QED
    BY <1>2, <1>3, <1>4, <1>6, <1>7, <1>8, <1>9, <1>10, AttemptBegins

LEMMA AbandonKeeps == ASSUME HttpInv, NEW t \in Tasks, Abandon(t) PROVE HttpInv'
<1> DEFINE r == Returned(exchange[t])
<1>1. exchange[t].step \in Placed \cup {"sleeping"} /\ exchange' = [exchange EXCEPT ![t] = r]
      /\ GivesBack(t) /\ httpTicks' = httpTicks
    BY DEF Abandon, Placed
<1>2. r \in ExchangeRecord /\ CallOK(r, httpTicks) /\ r.step = "done"
    BY <1>1, Own, UnderWay, ReturnedOK
<1>3. /\ freePlaces' \in Nat /\ freeSlots' \in Nat
      /\ freePlaces' = freePlaces + One(exchange[t].step \in Placed) - One(r.step \in Placed)
      /\ freeSlots' = freeSlots + One(exchange[t].step \in Slotted) - One(r.step \in Slotted)
    BY <1>1, <1>2, PermitsBack, Own DEF One, Placed, Slotted
<1> HIDE DEF r
<1>. QED
    BY <1>1, <1>2, <1>3, OneCallMoves

LEMMA HttpTickKeeps == ASSUME HttpInv, HttpTick PROVE HttpInv'
<1>1. HttpTypeOK'
    BY DEF HttpInv, HttpTypeOK, HttpTick
<1>2. ASSUME NEW t \in Tasks PROVE CallOK(exchange[t], httpTicks)'
    <2> DEFINE c == exchange[t]
    <2>1. c \in ExchangeRecord /\ CallOK(c, httpTicks) /\ httpTicks \in Nat /\ httpTicks' = httpTicks + 1
          /\ exchange' = exchange
        BY Own DEF HttpTick
    <2>2. c.step \in Placed \cup {"sleeping"} => httpTicks < c.due
        BY DEF HttpTick, HoldsPlace, Placed
    <2>3. c.start \in Nat /\ c.due \in Nat
        BY <2>1 DEF ExchangeRecord
    <2>4. exchange'[t] = c
        BY <2>1
    <2> HIDE DEF c
    <2>5. CallOK(c, httpTicks')
        BY <2>1, <2>2, <2>3 DEF CallOK, WireOK, TimeOK, BodyOK
    <2>. QED
        BY <2>4, <2>5 DEF CallOK, WireOK, TimeOK, BodyOK, MostSends, LongestCall
<1>3. PlaceHolders' = PlaceHolders /\ SlotHolders' = SlotHolders
    BY DEF HttpTick, PlaceHolders, SlotHolders, HoldsPlace, HoldsSlot
<1>4. PermitInv'
    BY <1>3 DEF HttpInv, PermitInv, HttpTick
<1>. QED
    BY <1>1, <1>2, <1>4 DEF HttpInv

LEMMA HttpStep == HttpInv /\ [HttpNext]_httpVars => HttpInv'
<1> SUFFICES ASSUME HttpInv, [HttpNext]_httpVars PROVE HttpInv'
    OBVIOUS
<1>1. CASE HttpNext
    BY <1>1, CallKeeps, GetSlotKeeps, HeadersArriveKeeps, SendFailsKeeps, ReadChunkKeeps,
       BodyEndsKeeps, ElapsesKeeps, WakeUpKeeps, AbandonKeeps, HttpTickKeeps DEF HttpNext
<1>2. CASE UNCHANGED httpVars
    <2>1. PlaceHolders' = PlaceHolders /\ SlotHolders' = SlotHolders
        BY <1>2 DEF httpVars, PlaceHolders, SlotHolders, HoldsPlace, HoldsSlot
    <2>2. \A t \in Tasks : CallOK(exchange[t], httpTicks)'
        BY <1>2 DEF httpVars, HttpInv, CallOK, WireOK, TimeOK, BodyOK, MostSends, LongestCall
    <2>. QED
        BY <1>2, <2>1, <2>2 DEF httpVars, HttpInv, HttpTypeOK, PermitInv
<1>. QED
    BY <1>1, <1>2
----------------------------------------------------------------------------
LEMMA HttpInvariant == HttpSpec => []HttpInv
BY HttpInitial, HttpStep, PTL DEF HttpSpec

\* For any number of tasks and every retry policy, a request that changes something
\* is sent at most once, a GET at most as often as its policy says, and a call
\* returns in time (send, send_get_with_backoff).
THEOREM CallsStayBounded == HttpSpec => []CallsAreBounded
<1>1. HttpInv => CallsAreBounded
    <2> SUFFICES ASSUME HttpInv, NEW t \in Tasks
                 PROVE  /\ exchange[t].wire <= MostSends(exchange[t])
                        /\ exchange[t].step # "none" => Elapsed(t) <= LongestCall(exchange[t])
        BY DEF CallsAreBounded, SentOnce, ReturnsInTime, MostSends, LongestCall
    <2>1. exchange[t] \in ExchangeRecord /\ CallOK(exchange[t], httpTicks)
        BY Own
    <2>2. CASE exchange[t].step \in Placed \cup {"sleeping"}
        BY <2>2, UnderWay DEF Elapsed, Placed
    <2>3. CASE exchange[t].step \in {"none", "done"}
        BY <2>1, <2>3, MostSendsType DEF Elapsed, CallOK, WireOK, TimeOK
    <2>. QED
        BY <2>1, <2>2, <2>3 DEF ExchangeRecord, Steps
<1>. QED
    BY <1>1, HttpInvariant, PTL

\* For any number of tasks and every limit, no permit is lost or given back twice
\* however calls end, and no buffered body outgrows the limit (send,
\* read_body_within_limit).
THEOREM MemoryStaysBounded == HttpSpec => []MemoryIsBounded
<1>1. HttpInv => MemoryIsBounded
    <2> SUFFICES ASSUME HttpInv PROVE MemoryIsBounded
        OBVIOUS
    <2>1. BodiesWithinLimit /\ \A t \in Tasks : exchange[t].got > 0 => HoldsSlot(t)
        BY DEF HttpInv, CallOK, BodyOK, BodiesWithinLimit, HoldsSlot, Slotted
    <2>2. PermitsAreExact
        BY DEF HttpInv, PermitInv, PermitsAreExact, PlaceHolders, SlotHolders
    <2>. QED
        BY <2>1, <2>2 DEF MemoryIsBounded
<1>. QED
    BY <1>1, HttpInvariant, PTL
=============================================================================
