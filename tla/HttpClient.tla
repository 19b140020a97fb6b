------------------------------ MODULE HttpClient ------------------------------
(***************************************************************************)
(* The outbound HTTP client (mecmcp-http, lib.rs): `send` takes a place in *)
(* a bounded queue without waiting, waits for one of a few slots, makes    *)
(* one wire attempt and reads the body within a limit, all under one       *)
(* deadline; `send_get_with_backoff` repeats it for transient failures.    *)
(* Several tasks share one client.  Both permits are held by the future,   *)
(* so an answer, an error, the deadline and a caller that drops the future *)
(* all give them back.                                                     *)
(*                                                                         *)
(* The peer is external: it answers, fails, or is silent, and streams a    *)
(* body of any length.  Timers are prompt: the clock does not run past a   *)
(* timer that is due, so that a duration in the model is the code's own    *)
(* doing and not the scheduler's.                                          *)
(***************************************************************************)
EXTENDS Integers, Sequences, FiniteSets

CONSTANTS
    Tasks,            \* the callers, one call each at a time
    MaxConcurrent,    \* HttpClientConfig.max_concurrent_requests
    MaxQueued,        \* HttpClientConfig.max_queued_requests
    RequestTimeout,   \* HttpClientConfig.request_timeout, in ticks
    MaxResponse,      \* HttpClientConfig.max_response_bytes, in chunks of one
    MaxChunk,         \* the longest chunk the peer sends
    MaxAttempts,      \* RetryPolicy.max_attempts
    InitialBackoff,   \* RetryPolicy.initial_backoff
    MaxBackoff,       \* RetryPolicy.max_backoff
    MaxTotalWait,     \* RetryPolicy.max_total_wait
    MaxHttpTicks      \* bound: how far the clock runs

\* HttpClient::new refuses a zero; a policy may hold any value.
ASSUME HttpAssumption ==
    /\ {MaxConcurrent, MaxQueued, RequestTimeout, MaxResponse, MaxChunk} \subseteq Nat \ {0}
    /\ {MaxAttempts, InitialBackoff, MaxBackoff, MaxTotalWait, MaxHttpTicks} \subseteq Nat

VARIABLES
    httpTicks,   \* the clock
    freePlaces,  \* permits of queue_semaphore
    freeSlots,   \* permits of concurrency_semaphore
    waiters,     \* its queue: first come, first served
    exchange     \* what each task's call is doing

httpVars == <<httpTicks, freePlaces, freeSlots, waiters, exchange>>

NotCalled == [step |-> "none", mutates |-> FALSE, retries |-> FALSE, attempt |-> 0, wire |-> 0,
              backoff |-> 0, start |-> 0, due |-> 0, got |-> 0, status |-> "none", took |-> 0]

\* The call has returned: what is left is how often it was on the wire and how
\* long it took.  What it returned, a response or which error, is not told apart.
Returned(c) ==
    [NotCalled EXCEPT !.step = "done", !.mutates = c.mutates, !.retries = c.retries,
                      !.wire = c.wire, !.took = httpTicks - c.start]

HttpInit ==
    /\ httpTicks = 0
    /\ freePlaces = MaxConcurrent + MaxQueued
    /\ freeSlots = MaxConcurrent
    /\ waiters = <<>>
    /\ exchange = [t \in Tasks |-> NotCalled]

Smaller(a, b) == IF a <= b THEN a ELSE b
Larger(a, b) == IF a >= b THEN a ELSE b

HoldsPlace(t) == exchange[t].step \in {"queued", "sending", "reading"}
HoldsSlot(t) == exchange[t].step \in {"sending", "reading"}

\* The permits a future returns when it ends or is dropped.
GivesBack(t) ==
    /\ freePlaces' = freePlaces + (IF HoldsPlace(t) THEN 1 ELSE 0)
    /\ freeSlots' = freeSlots + (IF HoldsSlot(t) THEN 1 ELSE 0)
    /\ waiters' = SelectSeq(waiters, LAMBDA w : w # t)

Transient(answer) == answer \in {"transient", "Timeout"}

\* Whether the loop goes round again after an attempt that ended like this.
TriesAgain(c, answer) ==
    /\ c.retries
    /\ Transient(answer)
    /\ c.attempt < Larger(MaxAttempts, 1)
    /\ httpTicks - c.start + c.backoff <= MaxTotalWait

\* The attempt is over.  `send` returns; the retry loop decides, with no await
\* in between, whether to sleep or to return as well.
EndAttempt(t, answer) ==
    LET c == exchange[t]
    IN exchange' = [exchange EXCEPT ![t] =
           IF TriesAgain(c, answer)
           THEN [c EXCEPT !.step = "sleeping", !.due = httpTicks + c.backoff,
                          !.got = 0, !.status = "none"]
           ELSE Returned(c)]

\* The first poll of `send`: the deadline starts, and a full queue is refused
\* at once.
Attempt(t, c) ==
    IF freePlaces > 0
    THEN /\ freePlaces' = freePlaces - 1
         /\ waiters' = Append(waiters, t)
         /\ exchange' = [exchange EXCEPT ![t] = [c EXCEPT !.step = "queued", !.attempt = @ + 1,
                                                  !.due = httpTicks + RequestTimeout]]
    ELSE /\ exchange' = [exchange EXCEPT ![t] = Returned(c)]
         /\ UNCHANGED <<freePlaces, waiters>>

\* A task calls `send`, or `send_get_with_backoff`, which refuses a method
\* other than GET.
Call(t, mutates, retries) ==
    /\ exchange[t].step = "none"
    /\ LET c == [NotCalled EXCEPT !.mutates = mutates, !.retries = retries, !.start = httpTicks,
                                  !.backoff = Smaller(InitialBackoff, MaxBackoff)]
       IN IF mutates /\ retries
          THEN /\ exchange' = [exchange EXCEPT ![t] = Returned(c)]
               /\ UNCHANGED <<freePlaces, waiters>>
          ELSE Attempt(t, c)
    /\ UNCHANGED <<httpTicks, freeSlots>>

GetSlotRestartingClock(t) ==  \* mutant
    /\ exchange[t].step = "queued" /\ waiters # <<>> /\ Head(waiters) = t /\ freeSlots > 0
    /\ waiters' = Tail(waiters)
    /\ freeSlots' = freeSlots - 1
    /\ exchange' = [exchange EXCEPT ![t].step = "sending", ![t].wire = @ + 1,
                            ![t].due = httpTicks + RequestTimeout]
    /\ UNCHANGED <<httpTicks, freePlaces>>

\* The slot is granted and the request goes out.
GetSlot(t) ==
    /\ exchange[t].step = "queued" /\ waiters # <<>> /\ Head(waiters) = t /\ freeSlots > 0
    /\ waiters' = Tail(waiters)
    /\ freeSlots' = freeSlots - 1
    /\ exchange' = [exchange EXCEPT ![t].step = "sending", ![t].wire = @ + 1]
    /\ UNCHANGED <<httpTicks, freePlaces>>

\* Status and headers are there; a redirect is a status like any other.
HeadersArrive(t, status) ==
    /\ exchange[t].step = "sending"
    /\ exchange' = [exchange EXCEPT ![t].step = "reading", ![t].status = status, ![t].got = 0]
    /\ UNCHANGED <<httpTicks, freePlaces, freeSlots, waiters>>

\* No connection, or a request that failed after connecting.
SendFails(t) ==
    /\ exchange[t].step = "sending"
    /\ EndAttempt(t, "RequestFailed")
    /\ GivesBack(t)
    /\ UNCHANGED httpTicks

ReadChunkThenCheck(t, length) ==  \* mutant
    /\ exchange[t].step = "reading"
    /\ IF exchange[t].got > MaxResponse
       THEN EndAttempt(t, "ResponseTooLarge") /\ GivesBack(t)
       ELSE exchange' = [exchange EXCEPT ![t].got = @ + length] /\ UNCHANGED <<freePlaces, freeSlots, waiters>>
    /\ UNCHANGED httpTicks

\* The running total is checked before the chunk is kept.  A Content-Length
\* that is honest about being too long ends the same way, earlier.
ReadChunk(t, length) ==
    /\ exchange[t].step = "reading"
    /\ IF exchange[t].got + length > MaxResponse
       THEN EndAttempt(t, "ResponseTooLarge") /\ GivesBack(t)
       ELSE exchange' = [exchange EXCEPT ![t].got = @ + length] /\ UNCHANGED <<freePlaces, freeSlots, waiters>>
    /\ UNCHANGED httpTicks

BodyEnds(t) ==
    /\ exchange[t].step = "reading"
    /\ \E answer \in {exchange[t].status, "BodyRead"} : EndAttempt(t, answer)
    /\ GivesBack(t)
    /\ UNCHANGED httpTicks

\* The deadline passes while the call waits for a slot, for the headers or for
\* the body.
Elapses(t) ==
    /\ HoldsPlace(t) /\ httpTicks >= exchange[t].due
    /\ EndAttempt(t, "Timeout")
    /\ GivesBack(t)
    /\ UNCHANGED httpTicks

\* The sleep between two attempts is over.
WakeUp(t) ==
    /\ exchange[t].step = "sleeping" /\ httpTicks >= exchange[t].due
    /\ Attempt(t, [exchange[t] EXCEPT !.backoff = Smaller(2 * @, MaxBackoff)])
    /\ UNCHANGED <<httpTicks, freeSlots>>

\* The caller drops the future at an await.
Abandon(t) ==
    /\ exchange[t].step \in {"queued", "sending", "reading", "sleeping"}
    /\ exchange' = [exchange EXCEPT ![t] = Returned(@)]
    /\ GivesBack(t)
    /\ UNCHANGED httpTicks

HttpTick ==
    /\ httpTicks < MaxHttpTicks
    /\ \A t \in Tasks : HoldsPlace(t) \/ exchange[t].step = "sleeping" => httpTicks < exchange[t].due
    /\ httpTicks' = httpTicks + 1
    /\ UNCHANGED <<freePlaces, freeSlots, waiters, exchange>>

HttpNext ==
    \/ \E t \in Tasks :
          \/ \E mutates, retries \in BOOLEAN : Call(t, mutates, retries)
          \/ GetSlot(t)
          \/ \E status \in {"final", "transient"} : HeadersArrive(t, status)
          \/ SendFails(t)
          \/ \E length \in 1..MaxChunk : ReadChunk(t, length)
          \/ BodyEnds(t) \/ Elapses(t) \/ WakeUp(t) \/ Abandon(t)
    \/ HttpTick

HttpSpec == HttpInit /\ [][HttpNext]_httpVars

----------------------------------------------------------------------------
\* What the client buffers of one body is within the limit, whatever the peer
\* streams (read_body_within_limit: checked before the append).
BodiesWithinLimit == \A t \in Tasks : exchange[t].got <= MaxResponse

\* The permits that are free are exactly those no call holds (send: both permits
\* live until the body is read).
PermitsAreExact ==
    /\ freeSlots \in Nat /\ freeSlots + Cardinality({t \in Tasks : HoldsSlot(t)}) = MaxConcurrent
    /\ freePlaces \in Nat
    /\ freePlaces + Cardinality({t \in Tasks : HoldsPlace(t)}) = MaxConcurrent + MaxQueued

\* However calls end, at most MaxConcurrent bodies are buffered at one moment, none
\* longer than MaxResponse, and no permit is lost or given back twice.
MemoryIsBounded ==
    /\ BodiesWithinLimit /\ PermitsAreExact
    /\ \A t \in Tasks : exchange[t].got > 0 => HoldsSlot(t)

\* A request that changes something reaches the wire at most once per call,
\* whatever times out, and a GET at most as often as its policy says
\* (send_get_with_backoff: GET only; reqwest's own retries are off).
SentOnce ==
    \A t \in Tasks :
        exchange[t].wire <= IF exchange[t].mutates \/ ~exchange[t].retries THEN 1 ELSE Larger(MaxAttempts, 1)

Elapsed(t) == IF exchange[t].step = "done" THEN exchange[t].took ELSE httpTicks - exchange[t].start

\* `send` returns within its timeout, time in the queue included; the retry
\* loop starts no attempt after max_total_wait, so it returns at most one
\* timeout later (send: one deadline around permits, request and body).
ReturnsInTime ==
    \A t \in Tasks :
        exchange[t].step # "none" =>
            Elapsed(t) <= IF exchange[t].retries THEN MaxTotalWait + RequestTimeout ELSE RequestTimeout

\* Neither retries nor waiting take a call past its bounds.
CallsAreBounded == SentOnce /\ ReturnsInTime
=============================================================================
