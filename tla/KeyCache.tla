------------------------------- MODULE KeyCache -------------------------------
(***************************************************************************)
(* The OIDC key cache (mecmcp-oidc, cache.rs): one mutex, held across the  *)
(* fetches from the identity provider.  A caller may be dropped at any     *)
(* await, a fetch takes any time and may fail, and what the caller decides *)
(* is measured from the time it got the mutex.                             *)
(***************************************************************************)
EXTENDS Integers

CONSTANTS
    Verifiers,        \* calls of keys() at once
    RefreshInterval,  \* refresh_interval, in ticks
    RetryBackoff,     \* retry_backoff
    MaxKeyAge,        \* max_key_age
    MaxKeyTicks       \* bound: how far the clock runs

ASSUME CacheAssumption ==
    {RefreshInterval, RetryBackoff, MaxKeyAge, MaxKeyTicks} \subseteq Nat \ {0}

VARIABLES
    keyTicks,  \* the clock
    jwksUri,   \* whether discovery has told the URI of the keys
    fetched,   \* fetched_at, Never before the first success
    attempted, \* last_attempt, Never before the first
    call,      \* where each call of keys() is
    begun      \* history: the times of the last two attempts, newest first

keyVars == <<keyTicks, jwksUri, fetched, attempted, call, begun>>

Never == -1
NoCall == [step |-> "idle", now |-> 0, keysOf |-> Never]

KeyInit ==
    /\ keyTicks = 0
    /\ jwksUri = FALSE
    /\ fetched = Never /\ attempted = Never
    /\ call = [v \in Verifiers |-> NoCall]
    /\ begun = <<Never, Never>>

MutexFree == \A v \in Verifiers : call[v].step \notin {"discovery", "jwks"}

IsFresh(now) == fetched # Never /\ now - fetched < RefreshInterval
BackedOff(now) == attempted # Never /\ now - attempted < RetryBackoff

ServeStaleOrFail(v, now) ==
    call' = [call EXCEPT ![v] =
        IF fetched # Never /\ now - fetched < MaxKeyAge
        THEN [step |-> "served", now |-> now, keysOf |-> fetched]
        ELSE [step |-> "refused", now |-> now, keysOf |-> Never]]

CallKeys(v) ==
    /\ call[v].step \in {"idle", "served", "refused"}
    /\ call' = [call EXCEPT ![v] = [NoCall EXCEPT !.step = "queued"]]
    /\ UNCHANGED <<keyTicks, jwksUri, fetched, attempted, begun>>

\* The mutex is the caller's and the cached keys will do, fresh or not.
AnswerFromCache(v) ==
    /\ call[v].step = "queued" /\ MutexFree
    /\ \/ /\ IsFresh(keyTicks)
          /\ call' = [call EXCEPT ![v] =
                         [step |-> "served", now |-> keyTicks, keysOf |-> fetched]]
       \/ /\ ~IsFresh(keyTicks) /\ BackedOff(keyTicks)
          /\ ServeStaleOrFail(v, keyTicks)
    /\ UNCHANGED <<keyTicks, jwksUri, fetched, attempted, begun>>

BeginRefreshUnrecorded(v) ==  \* mutant
    /\ call[v].step = "queued" /\ MutexFree
    /\ ~IsFresh(keyTicks) /\ ~BackedOff(keyTicks)
    /\ attempted' = IF fetched = Never THEN attempted ELSE keyTicks
    /\ begun' = <<keyTicks, begun[1]>>
    /\ call' = [call EXCEPT ![v].step = IF jwksUri THEN "jwks" ELSE "discovery",
                            ![v].now = keyTicks]
    /\ UNCHANGED <<keyTicks, jwksUri, fetched>>

\* The attempt is recorded before the first fetch, so that a call dropped
\* during it still counts.
BeginRefresh(v) ==
    /\ call[v].step = "queued" /\ MutexFree
    /\ ~IsFresh(keyTicks) /\ ~BackedOff(keyTicks)
    /\ attempted' = keyTicks
    /\ begun' = <<keyTicks, begun[1]>>
    /\ call' = [call EXCEPT ![v].step = IF jwksUri THEN "jwks" ELSE "discovery",
                            ![v].now = keyTicks]
    /\ UNCHANGED <<keyTicks, jwksUri, fetched>>

DiscoveryAnswers(v) ==
    /\ call[v].step = "discovery"
    /\ jwksUri' = TRUE
    /\ call' = [call EXCEPT ![v].step = "jwks"]
    /\ UNCHANGED <<keyTicks, fetched, attempted, begun>>

KeysAnswer(v) ==
    /\ call[v].step = "jwks"
    /\ fetched' = keyTicks
    /\ call' = [call EXCEPT ![v].step = "served", ![v].keysOf = keyTicks]
    /\ UNCHANGED <<keyTicks, jwksUri, attempted, begun>>

\* A fetch fails, or discovery names another issuer.
RefreshFails(v) ==
    /\ call[v].step \in {"discovery", "jwks"}
    /\ ServeStaleOrFail(v, call[v].now)
    /\ UNCHANGED <<keyTicks, jwksUri, fetched, attempted, begun>>

\* The request that wanted the keys is gone; dropping its future gives the
\* mutex back.
AbandonCall(v) ==
    /\ call[v].step \in {"queued", "discovery", "jwks"}
    /\ call' = [call EXCEPT ![v] = NoCall]
    /\ UNCHANGED <<keyTicks, jwksUri, fetched, attempted, begun>>

KeyTick ==
    /\ keyTicks < MaxKeyTicks
    /\ keyTicks' = keyTicks + 1
    /\ UNCHANGED <<jwksUri, fetched, attempted, call, begun>>

KeyNext ==
    \/ \E v \in Verifiers :
          \/ CallKeys(v) \/ AnswerFromCache(v) \/ BeginRefresh(v)
          \/ DiscoveryAnswers(v) \/ KeysAnswer(v) \/ RefreshFails(v) \/ AbandonCall(v)
    \/ KeyTick

KeySpec == KeyInit /\ [][KeyNext]_keyVars

----------------------------------------------------------------------------
\* While the identity provider is down: a call is only served keys that were
\* younger than max_key_age (or fresh) when it got the mutex, and attempts
\* begin at least retry_backoff apart, however many calls queue, fail or are
\* dropped in the middle of a fetch (KeyCache::keys).
OutageIsBounded ==
    /\ \A v \in Verifiers : call[v].step = "served" =>
          \/ call[v].now - call[v].keysOf < MaxKeyAge
          \/ call[v].now - call[v].keysOf < RefreshInterval
    /\ begun[2] # Never => begun[1] - begun[2] >= RetryBackoff
=============================================================================
