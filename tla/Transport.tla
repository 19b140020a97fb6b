------------------------------ MODULE Transport ------------------------------
(***************************************************************************)
(* The resource limits of the HTTP transport (crate mecmcp-transport):     *)
(* the request permits of concurrency.rs, the per-device permits of        *)
(* target.rs, and the session accounting of session.rs - the global cap,   *)
(* the per-token cap, and the reaper that ends idle and old sessions.      *)
(*                                                                         *)
(* A request is one process.  A session is named after the request that    *)
(* created it: rmcp's identifiers are never used twice.  Requests are      *)
(* tasks on several threads, so every atomic operation and every critical  *)
(* section of the code is one step here; the code between two awaits runs  *)
(* without cancellation but not without interference.                      *)
(***************************************************************************)
EXTENDS Naturals, FiniteSets

CONSTANTS
    Requests,             \* the requests of one behaviour, and the sessions they create
    Tokens,               \* the bearer tokens
    TokenOf,              \* the token each request presents
    Targets,              \* devices a tool call may name
    Configurations,       \* pairs of max_inflight_requests and max_inflight_requests_per_token
    MaxPerTarget,         \* max_inflight_requests_per_device
    MaxSessions,          \* max_sessions
    MaxSessionsPerToken,  \* max_sessions_per_token
    IdleTimeout,          \* session_idle_timeout_secs, in ticks
    MaxLifetime,          \* session_max_lifetime_secs, in ticks
    None

ASSUME LimitsAssumption ==
    /\ Configurations \subseteq [inflight : Nat \ {0}, perToken : Nat \ {0}]
    /\ MaxPerTarget \in Nat \ {0}
    /\ MaxSessions \in Nat \ {0} /\ MaxSessionsPerToken \in Nat \ {0}
    /\ IdleTimeout \in Nat \ {0} /\ MaxLifetime \in Nat \ {0}

ASSUME NamesAssumption ==
    /\ IsFiniteSet(Requests)
    /\ TokenOf \in [Requests -> Tokens]
    /\ None \notin Tokens \cup Requests \cup Targets

VARIABLES
    limits,    \* the configuration the server was started with
    req,       \* where each request is, and what it holds
    registry,  \* TargetLimiter.semaphores: the semaphore last made for a device
    tokens,    \* TokenSessionState, under its mutex
    active,    \* SessionTracker.active
    activity,  \* SessionTracker.activity: the tracked sessions and their ages
    inner,     \* the sessions rmcp's own manager holds
    workers,   \* the sessions whose service task runs
    leaving,   \* calls of unregister_inner, and spawned cleanups, in progress
    expired    \* what is left of the reaper's sweep

vars == <<limits, req, registry, tokens, active, activity, inner, workers, leaving, expired>>
sessionVars == <<limits, tokens, active, activity, inner, workers, leaving, expired>>

Kinds == {"initialize", "call", "delete"}

NewRequest ==
    [phase |-> "new", kind |-> "call", about |-> None, reserved |-> FALSE,
     named |-> FALSE, arcs |-> [d \in Targets |-> None], permits |-> {}]
Untracked == [tracked |-> FALSE, idle |-> 0, age |-> 0]

Init ==
    /\ limits \in Configurations
    /\ req = [r \in Requests |-> NewRequest]
    /\ registry = [d \in Targets |-> None]
    /\ tokens = [counts |-> [t \in Tokens |-> 0],
                 sessions |-> [s \in Requests |-> None],
                 pending |-> 0, unbound |-> {}, closedEarly |-> {}]
    /\ active = 0
    /\ activity = [s \in Requests |-> Untracked]
    /\ inner = {}
    /\ workers = {}
    /\ leaving = {}
    /\ expired = {}

Tracked == {s \in Requests : activity[s].tracked}
Goes(r, phase) == req' = [req EXCEPT ![r].phase = phase]
At(r, phase) == req[r].phase = phase

\* The request and its response are dropped, with every permit they own.
Leaves(r) ==
    req' = [req EXCEPT ![r] = [NewRequest EXCEPT !.phase = "done", !.named = req[r].named]]

-----------------------------------------------------------------------------
(***************************************************************************)
(* TokenSessionState: what its critical sections do.                       *)
(***************************************************************************)

\* complete_pending_reservation: the last one out clears both sets.
CompletePending(state) ==
    LET last == state.pending = 1
    IN  [state EXCEPT !.pending = @ - 1,
                      !.unbound = IF last THEN {} ELSE @,
                      !.closedEarly = IF last THEN {} ELSE @]

\* decrement_token: an entry that would reach zero is removed, a missing one ignored.
DecrementToken(state, t) ==
    [state EXCEPT !.counts[t] = IF @ = 0 THEN 0 ELSE @ - 1]

\* Drop of a TokenSessionReservation that was not committed.
DropReservation(state, r) == CompletePending(DecrementToken(state, TokenOf[r]))

\* TokenSessionReservation::commit; a refused one is dropped.
Commit(state, r) ==
    CASE state.sessions[r] # None -> DropReservation(state, r)
      [] state.sessions[r] = None /\ (r \in state.closedEarly \/ r \notin state.unbound) ->
           DropReservation([state EXCEPT !.closedEarly = @ \ {r}], r)
      [] OTHER ->
           CompletePending([state EXCEPT !.sessions[r] = TokenOf[r],
                                         !.unbound = @ \ {r}])

\* mutant: a close before the binding gives the slot back, and the drop gives it back again
ReleasedUnbound(state, s) ==
    IF state.sessions[s] # None \/ s \in state.unbound
    THEN DecrementToken([state EXCEPT !.sessions[s] = None, !.unbound = @ \ {s}], TokenOf[s])
    ELSE state

\* The token part of unregister_inner.
Released(state, s) ==
    CASE state.sessions[s] # None ->
           DecrementToken([state EXCEPT !.sessions[s] = None], state.sessions[s])
      [] state.sessions[s] = None /\ s \in state.unbound ->
           [state EXCEPT !.unbound = @ \ {s}, !.closedEarly = @ \cup {s}]
      [] OTHER -> state

-----------------------------------------------------------------------------
(***************************************************************************)
(* token_concurrency_middleware: the permits, the early check of the       *)
(* session cap and the reservation of a token's slot.                      *)
(***************************************************************************)

\* Permits live in the request, then in its response body, and return when it is dropped.
Holding == {r \in Requests : ~At(r, "new") /\ ~At(r, "done")}
HoldingToken(t) == {r \in Holding : TokenOf[r] = t /\ ~At(r, "global")}

\* A client knows a session once the response that created it is on its way.
Known == {s \in Requests : req[s].named /\ req[s].phase \in {"body", "done"}}

\* A request names a session unless it is to create one (is_session_creating).
Arrive(r, kind, about) ==
    /\ At(r, "new")
    /\ IF kind = "initialize" THEN about = None ELSE about \in Known
    /\ \/ Cardinality(Holding) >= limits.inflight /\ Leaves(r)
       \/ /\ Cardinality(Holding) < limits.inflight
          /\ req' = [req EXCEPT ![r].kind = kind, ![r].about = about, ![r].phase = "global"]
    /\ UNCHANGED <<registry, sessionVars>>

AcquireToken(r) ==
    /\ At(r, "global")
    /\ LET full == Cardinality(HoldingToken(TokenOf[r])) >= limits.perToken IN
       \/ full /\ Leaves(r)
       \/ ~full /\ Goes(r, IF req[r].kind = "initialize" THEN "capacity" ELSE "inside")
    /\ UNCHANGED <<registry, sessionVars>>

AtCapacity == active >= MaxSessions

CheckCapacity(r) ==
    /\ At(r, "capacity")
    /\ \/ AtCapacity /\ Leaves(r)
       \/ ~AtCapacity /\ Goes(r, "reserving")
    /\ UNCHANGED <<registry, sessionVars>>

\* try_reserve_token
Reserve(r) ==
    /\ At(r, "reserving")
    /\ LET t == TokenOf[r] IN
       \/ /\ tokens.counts[t] >= MaxSessionsPerToken
          /\ Leaves(r)
          /\ UNCHANGED tokens
       \/ /\ tokens.counts[t] < MaxSessionsPerToken
          /\ tokens' = [tokens EXCEPT !.counts[t] = @ + 1, !.pending = @ + 1]
          /\ req' = [req EXCEPT ![r].phase = "inside", ![r].reserved = TRUE]
    /\ UNCHANGED <<limits, registry, active, activity, inner, workers, leaving, expired>>

-----------------------------------------------------------------------------
(***************************************************************************)
(* The layers inside: body limit and preflight (which may refuse), then    *)
(* target_concurrency_middleware.                                          *)
(***************************************************************************)

\* A response, and whether it is a success that names the session it created.
Answers(r, named) == req' = [req EXCEPT ![r].phase = "answered", ![r].named = named]

Refuse(r) ==
    /\ At(r, "inside")
    /\ Answers(r, FALSE)
    /\ UNCHANGED <<registry, sessionVars>>

PassWithoutTargets(r) ==
    /\ At(r, "inside")
    /\ Goes(r, "handler")
    /\ UNCHANGED <<registry, sessionVars>>

\* A semaphore is named after the request that made it; it lives while anyone holds it.
Alive(d, sem) == sem # None /\ \E q \in Requests : req[q].arcs[d] = sem
InUse(d, sem) == {q \in Requests : d \in req[q].permits /\ req[q].arcs[d] = sem}

\* resolve_semaphores, under the registry's mutex
ResolveTargets(r, named) ==
    /\ At(r, "inside") /\ req[r].kind = "call" /\ named # {}
    /\ LET sem(d) == IF Alive(d, registry[d]) THEN registry[d] ELSE r
       IN  /\ registry' = [d \in Targets |-> IF d \in named THEN sem(d) ELSE registry[d]]
           /\ req' = [req EXCEPT ![r].phase = "resolved",
                                 ![r].arcs = [d \in Targets |->
                                     IF d \in named THEN sem(d) ELSE None]]
    /\ UNCHANGED sessionVars

Wanted(r) == {d \in Targets : req[r].arcs[d] # None}

\* try_acquire: one permit after the other, outside the registry's mutex; the
\* first that is refused drops all of them.  The order of the names is left open.
AcquireTarget(r, d) ==
    /\ At(r, "resolved") /\ d \in Wanted(r) \ req[r].permits
    /\ \/ /\ Cardinality(InUse(d, req[r].arcs[d])) >= MaxPerTarget
          /\ req' = [req EXCEPT ![r].phase = "answered", ![r].permits = {},
                                ![r].arcs = [e \in Targets |-> None]]
       \/ /\ Cardinality(InUse(d, req[r].arcs[d])) < MaxPerTarget
          /\ req' = [req EXCEPT ![r].permits = @ \cup {d},
                                ![r].phase = IF Wanted(r) = req[r].permits \cup {d}
                                             THEN "handler" ELSE @]
    /\ UNCHANGED <<registry, sessionVars>>

-----------------------------------------------------------------------------
(***************************************************************************)
(* LimitedSessionManager::create_session.                                  *)
(***************************************************************************)

Creating(r) == At(r, "handler") /\ req[r].kind = "initialize"

\* The inner manager creates the session; note_session_created records it.
CreateInner(r) ==
    /\ Creating(r)
    /\ inner' = inner \cup {r}
    /\ tokens' = [tokens EXCEPT !.unbound = IF tokens.pending > 0 THEN @ \cup {r} ELSE @]
    /\ Goes(r, "created")
    /\ UNCHANGED <<limits, registry, active, activity, workers, leaving, expired>>

\* mutant: the cap is tested against the tracked sessions, before the counter is raised
CountSessionUnordered(r) ==
    /\ At(r, "created")
    /\ active' = active + 1
    /\ Goes(r, IF Cardinality(Tracked) >= MaxSessions THEN "overcap" ELSE "counted")
    /\ UNCHANGED <<limits, registry, tokens, activity, inner, workers, leaving, expired>>

\* try_register: fetch_add, which also decides.
CountSession(r) ==
    /\ At(r, "created")
    /\ active' = active + 1
    /\ Goes(r, IF active >= MaxSessions THEN "overcap" ELSE "counted")
    /\ UNCHANGED <<limits, registry, tokens, activity, inner, workers, leaving, expired>>

\* try_register: the entry; create_session returns and rmcp starts the service task.
TrackSession(r) ==
    /\ At(r, "counted")
    /\ activity' = [activity EXCEPT ![r].tracked = TRUE]
    /\ workers' = workers \cup {r}
    /\ Goes(r, "registered")
    /\ UNCHANGED <<limits, registry, tokens, active, inner, leaving, expired>>

\* try_register over the cap: fetch_sub; create_session then calls unregister.
RollBackCount(r) ==
    /\ At(r, "overcap")
    /\ active' = active - 1
    /\ leaving' = leaving \cup {[who |-> r, id |-> r, at |-> "entry"]}
    /\ Goes(r, "rejected")
    /\ UNCHANGED <<limits, registry, tokens, activity, inner, workers, expired>>

Finished(who) == \A l \in leaving : l.who # who

\* mutant: the cleanup is not a task of its own and dies with the request
SpawnCleanupInline(r) ==
    /\ At(r, "rejected") /\ Finished(r)
    /\ Goes(r, "cleaning")
    /\ UNCHANGED <<registry, sessionVars>>

\* The cleanup of the inner session is a task of its own: it outlives the request.
SpawnCleanup(r) ==
    /\ At(r, "rejected") /\ Finished(r)
    /\ leaving' = leaving \cup {[who |-> r, id |-> r, at |-> "inner"]}
    /\ Goes(r, "cleaning")
    /\ UNCHANGED <<limits, registry, tokens, active, activity, inner, workers, expired>>

\* The cleanup task was joined; the marked rejection becomes a 503.
AnswerOverCap(r) ==
    /\ At(r, "cleaning") /\ Finished(r)
    /\ Answers(r, FALSE)
    /\ UNCHANGED <<registry, sessionVars>>

Touched(s) == [activity EXCEPT ![s].idle = 0]

\* initialize_session touches the session; the handshake succeeds or fails.
AnswerInitialize(r, succeeds) ==
    /\ At(r, "registered")
    /\ activity' = Touched(r)
    /\ Answers(r, succeeds)
    /\ UNCHANGED <<limits, registry, tokens, active, inner, workers, leaving, expired>>

\* The inner manager created nothing, or rmcp served a modern client statelessly.
AnswerWithoutSession(r) ==
    /\ Creating(r)
    /\ Answers(r, FALSE)
    /\ UNCHANGED <<registry, sessionVars>>

-----------------------------------------------------------------------------
(***************************************************************************)
(* Calls in a session, and close_session.                                  *)
(***************************************************************************)

\* has_session, accept_message, create_stream...: touch, then the inner manager.
AnswerCall(r) ==
    /\ At(r, "handler") /\ req[r].kind = "call"
    /\ activity' = Touched(req[r].about)
    /\ Answers(r, FALSE)
    /\ UNCHANGED <<limits, registry, tokens, active, inner, workers, leaving, expired>>

\* close_session: the inner manager first (an await), then unregister.
CloseInner(r) ==
    /\ At(r, "handler") /\ req[r].kind = "delete"
    /\ inner' = inner \ {req[r].about}
    /\ Goes(r, "closing")
    /\ UNCHANGED <<limits, registry, tokens, active, activity, workers, leaving, expired>>

UnregisterClosed(r) ==
    /\ At(r, "closing")
    /\ leaving' = leaving \cup {[who |-> r, id |-> req[r].about, at |-> "entry"]}
    /\ Goes(r, "unregistering")
    /\ UNCHANGED <<limits, registry, tokens, active, activity, inner, workers, expired>>

AnswerDelete(r) ==
    /\ At(r, "unregistering") /\ Finished(r)
    /\ Answers(r, FALSE)
    /\ UNCHANGED <<registry, sessionVars>>

\* The service task of a session ends and closes it.
WorkerEnds(s) ==
    /\ s \in workers
    /\ workers' = workers \ {s}
    /\ inner' = inner \ {s}
    /\ leaving' = leaving \cup {[who |-> "worker", id |-> s, at |-> "entry"]}
    /\ UNCHANGED <<limits, req, registry, tokens, active, activity, expired>>

\* unregister_inner: only the caller that removed the entry lowers the counter.
RemoveEntry(l) ==
    /\ l.at = "entry"
    /\ activity' = [activity EXCEPT ![l.id] = Untracked]
    /\ leaving' = (leaving \ {l}) \cup
           {[l EXCEPT !.at = IF activity[l.id].tracked THEN "count" ELSE "token"]}
    /\ UNCHANGED <<limits, req, registry, tokens, active, inner, workers, expired>>

LowerCount(l) ==
    /\ l.at = "count"
    /\ active' = active - 1
    /\ leaving' = (leaving \ {l}) \cup {[l EXCEPT !.at = "token"]}
    /\ UNCHANGED <<limits, req, registry, tokens, activity, inner, workers, expired>>

ReleaseToken(l) ==
    /\ l.at = "token"
    /\ tokens' = Released(tokens, l.id)
    /\ leaving' = leaving \ {l}
    /\ UNCHANGED <<limits, req, registry, active, activity, inner, workers, expired>>

\* The spawned cleanup of a rejected session.
CleanUpInner(l) ==
    /\ l.at = "inner"
    /\ inner' = inner \ {l.id}
    /\ leaving' = leaving \ {l}
    /\ UNCHANGED <<limits, req, registry, tokens, active, activity, workers, expired>>

Unregister(l) == RemoveEntry(l) \/ LowerCount(l) \/ ReleaseToken(l) \/ CleanUpInner(l)

-----------------------------------------------------------------------------
(***************************************************************************)
(* The reaper, and the clock.  Ages stop at the limit they are compared    *)
(* with: past it nothing changes.                                          *)
(***************************************************************************)

Older(age, limit) == IF age < limit THEN age + 1 ELSE age

Tick ==
    /\ activity' = [s \in Requests |->
          IF ~activity[s].tracked THEN activity[s]
          ELSE [activity[s] EXCEPT !.idle = Older(@, IdleTimeout),
                                   !.age = Older(@, MaxLifetime)]]
    /\ UNCHANGED <<limits, req, registry, tokens, active, inner, workers, leaving, expired>>

\* reap_with_reasons
Overdue(s) ==
    activity[s].tracked /\ (activity[s].age >= MaxLifetime \/ activity[s].idle >= IdleTimeout)

\* The sweep reads the ages once; the sessions it found are then closed one by one.
ReapSweep ==
    /\ expired = {} /\ Finished("reaper")
    /\ {s \in Requests : Overdue(s)} # {}
    /\ expired' = {s \in Requests : Overdue(s)}
    /\ UNCHANGED <<limits, req, registry, tokens, active, activity, inner, workers, leaving>>

\* inner.close_session, awaited; finish_reap unregisters.
Reap(s) ==
    /\ s \in expired /\ Finished("reaper")
    /\ expired' = expired \ {s}
    /\ inner' = inner \ {s}
    /\ leaving' = leaving \cup {[who |-> "reaper", id |-> s, at |-> "entry"]}
    /\ UNCHANGED <<limits, req, registry, tokens, active, activity, workers>>

-----------------------------------------------------------------------------
(***************************************************************************)
(* The way out: the reservation is settled, the permits follow the body.   *)
(***************************************************************************)

\* A successful response that names its session commits; any other drops the reservation.
Settle(r) ==
    /\ At(r, "answered")
    /\ tokens' = CASE ~req[r].reserved -> tokens
                   [] req[r].reserved /\ req[r].named -> Commit(tokens, r)
                   [] OTHER -> DropReservation(tokens, r)
    /\ req' = [req EXCEPT ![r].phase = "body", ![r].reserved = FALSE]
    /\ UNCHANGED <<limits, registry, active, activity, inner, workers, leaving, expired>>

\* The body ends or is dropped.
EndBody(r) ==
    /\ At(r, "body")
    /\ Leaves(r)
    /\ UNCHANGED <<registry, sessionVars>>

\* The client disconnects while the request waits: its future is dropped.
Awaiting == {"inside", "handler", "registered", "cleaning", "closing"}
Cancel(r) ==
    /\ req[r].phase \in Awaiting
    /\ tokens' = IF req[r].reserved THEN DropReservation(tokens, r) ELSE tokens
    /\ Leaves(r)
    /\ UNCHANGED <<limits, registry, active, activity, inner, workers, leaving, expired>>

-----------------------------------------------------------------------------
Accept(r) == \E kind \in Kinds, about \in Requests \cup {None} : Arrive(r, kind, about)
Admit(r) == AcquireToken(r) \/ CheckCapacity(r) \/ Reserve(r)
Pass(r) ==
    \/ Refuse(r) \/ PassWithoutTargets(r)
    \/ \E named \in SUBSET Targets : ResolveTargets(r, named)
    \/ \E d \in Targets : AcquireTarget(r, d)
Register(r) ==
    \/ CountSession(r) \/ TrackSession(r) \/ RollBackCount(r) \/ SpawnCleanup(r)
Handle(r) ==
    \/ CreateInner(r) \/ AnswerWithoutSession(r)
    \/ \E succeeds \in BOOLEAN : AnswerInitialize(r, succeeds)
    \/ AnswerOverCap(r)
    \/ AnswerCall(r) \/ CloseInner(r) \/ UnregisterClosed(r) \/ AnswerDelete(r)
Reaper == ReapSweep \/ \E s \in Requests : Reap(s)

Next ==
    \/ \E r \in Requests :
          \/ Accept(r) \/ Admit(r) \/ Pass(r) \/ Register(r) \/ Handle(r)
          \/ Settle(r) \/ EndBody(r) \/ Cancel(r)
    \/ \E s \in Requests : WorkerEnds(s)
    \/ \E l \in leaving : Unregister(l)
    \/ Tick
    \/ Reaper

Spec == Init /\ [][Next]_vars

-----------------------------------------------------------------------------
(***************************************************************************)
(* What must hold.                                                         *)
(***************************************************************************)

BoundTo(t) == {s \in Requests : tokens.sessions[s] = t}
ReservedBy(t) == {r \in Requests : req[r].reserved /\ TokenOf[r] = t}

\* A token's count is exactly the sessions bound to it plus the reservations of
\* requests still under way, and never more than max_sessions_per_token, however
\* commits, drops, cancellations and closes interleave (session.rs 87-210, 350-355).
SlotsAreAccounted ==
    /\ tokens.pending = Cardinality({r \in Requests : req[r].reserved})
    /\ \A t \in Tokens :
          /\ tokens.counts[t] = Cardinality(BoundTo(t)) + Cardinality(ReservedBy(t))
          /\ tokens.counts[t] <= MaxSessionsPerToken

\* A tracked session whose response came back is charged to its token, and a token
\* is charged only for a session that is tracked or being unregistered: no close
\* that overtakes the binding leaves a slot behind or a session uncharged.
SessionsAreCharged ==
    \A s \in Requests :
        /\ s \in Tracked \cap Known => tokens.sessions[s] = TokenOf[s]
        /\ tokens.sessions[s] # None =>
              s \in Tracked \/ \E l \in leaving : l.id = s /\ l.at \in {"count", "token"}

\* The per-token counts and the sessions they stand for agree, in whatever order
\* sessions are reserved, bound, closed and unregistered.
SessionsAreAccounted == SlotsAreAccounted /\ SessionsAreCharged

\* The counter is the tracked sessions plus the additions and subtractions still to
\* be made, and the tracked sessions never exceed max_sessions (session.rs 244-265).
SessionCapHolds ==
    /\ active = Cardinality(Tracked)
                + Cardinality({r \in Requests : req[r].phase \in {"counted", "overcap"}})
                + Cardinality({l \in leaving : l.at = "count"})
    /\ Cardinality(Tracked) <= MaxSessions

\* However semaphores come and go, a device never serves more requests at once than
\* max_inflight_requests_per_device (target.rs, TargetLimiter).
TargetsWithinLimit ==
    \A d \in Targets : Cardinality({r \in Requests : d \in req[r].permits}) <= MaxPerTarget

\* Neither the sessions of the server nor the requests of a device exceed their
\* cap, at any point between the checks and the counts.
LimitsHold == SessionCapHolds /\ TargetsWithinLimit

\* Every session the inner manager holds is tracked, so that the reaper will find it,
\* or its creation or its cleanup is still under way; also when the client leaves
\* before its response, and when the cap refuses the session (session.rs 501-540).
NoOrphanSession ==
    \A s \in inner :
        \/ s \in Tracked
        \/ req[s].phase \in {"created", "counted", "overcap", "rejected"}
        \/ \E l \in leaving : l.id = s /\ l.at = "inner"

=============================================================================
