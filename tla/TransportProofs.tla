--------------------------- MODULE TransportProofs ---------------------------
(***************************************************************************)
(* Proofs about Transport, for every finite set of requests, every set of  *)
(* tokens and targets and every value of the limits.                       *)
(*                                                                         *)
(* The argument.  A session goes one way: it is created, counted, tracked, *)
(* removed from the tracker, uncounted and released, and no two steps of   *)
(* different callers repeat one of these for the same session.  What makes *)
(* that so is that a session is named after a request, that a request      *)
(* never returns to a phase before creation, and that whoever unregisters  *)
(* a session found it tracked, known or rejected (LeavingInv).  The        *)
(* counters are then sums over disjoint sets (CountInv, SlotInv).          *)
(***************************************************************************)
EXTENDS Transport, FiniteSetTheorems, TLAPS

Early == {"new", "global", "capacity", "reserving", "inside", "resolved", "handler"}
Unsettled == Early \cup {"created", "counted", "overcap"}
Phases == Unsettled \cup {"rejected", "cleaning", "registered", "answered", "closing",
                          "unregistering", "body", "done"}

\* The request may have created its session; its session's fate is decided.
Past(s) == req[s].phase \notin Early
Later(s) == req[s].phase \notin Unsettled

Request ==
    [phase : Phases, kind : Kinds, about : Requests \cup {None}, reserved : BOOLEAN,
     named : BOOLEAN, arcs : [Targets -> Requests \cup {None}], permits : SUBSET Targets]
Leaver == [who : Requests \cup {"worker", "reaper"}, id : Requests,
           at : {"entry", "count", "token", "inner"}]

TokenState ==
    [counts : [Tokens -> Nat], sessions : [Requests -> Tokens \cup {None}], pending : Nat,
     unbound : SUBSET Requests, closedEarly : SUBSET Requests]
Activity == [tracked : BOOLEAN, idle : Nat, age : Nat]

RequestTypes == req \in [Requests -> Request] /\ limits \in Configurations

SessionTypes ==
    /\ tokens \in TokenState
    /\ active \in Nat
    /\ activity \in [Requests -> Activity]
    /\ inner \subseteq Requests /\ workers \subseteq Requests /\ expired \subseteq Requests
    /\ leaving \subseteq Leaver /\ IsFiniteSet(leaving)

-----------------------------------------------------------------------------
(* Requests *)

\* What a request holds in each phase.
RequestOK(q) ==
    /\ q.phase \in {"new", "global", "capacity", "reserving", "body", "done"} => ~q.reserved
    /\ q.phase \notin {"answered", "body", "done"} => ~q.named
    /\ (q.kind = "initialize" /\ q.phase \in {"inside", "resolved", "handler"}) => q.reserved
    /\ q.phase \in {"created", "counted", "registered"} => q.reserved
    /\ (q.phase = "answered" /\ q.named) => q.reserved
    /\ q.phase = "closing" => q.kind = "delete"

\* A request about a session names one whose response was sent.
AboutOK(q) == (q.kind # "initialize" /\ q.phase \notin {"new", "done"}) => 
                 q.about \in Requests /\ Later(q.about)

RequestInv == \A r \in Requests : RequestOK(req[r]) /\ AboutOK(req[r])

\* Device permits: every request holds the semaphore the registry names.
TargetInv ==
    /\ \A r \in Requests : req[r].phase \in Early \ {"resolved", "handler"} => req[r].permits = {}
    /\ \A r \in Requests, d \in Targets :
          /\ d \in req[r].permits => req[r].arcs[d] # None
          /\ req[r].arcs[d] # None => req[r].arcs[d] = registry[d]
    /\ TargetsWithinLimit

-----------------------------------------------------------------------------
(* Sessions *)

\* Nothing is held of a session before its request created it, and nobody
\* tracks or unregisters it before its registration was decided.
OrderInv ==
    /\ \A s \in inner \cup tokens.unbound \cup tokens.closedEarly : Past(s)
    /\ \A s \in Tracked \cup workers \cup expired : Later(s)
    /\ \A s \in Requests : tokens.sessions[s] # None => Later(s)
    /\ \A l \in leaving : Later(l.id)

\* Unregistering begins once the inner session is closed, or is that of a refused
\* registration; past the entry the session is no longer tracked.
LeavingInv ==
    /\ \A l \in leaving :
          /\ l.at = "entry" => \/ l.id \notin inner
                               \/ req[l.id].phase = "rejected" /\ l.who = l.id
          /\ l.at \in {"count", "token"} => l.id \notin Tracked
    /\ \A r \in Requests : req[r].phase = "closing" => req[r].about \notin inner

Counted == {r \in Requests : req[r].phase = "counted"}
Counting == {r \in Requests : req[r].phase \in {"counted", "overcap"}}
Lowering == {l \in leaving : l.at = "count"}

CountInv ==
    /\ active = Cardinality(Tracked) + Cardinality(Counting) + Cardinality(Lowering)
    /\ Cardinality(Tracked) + Cardinality(Counted) <= MaxSessions

Reserved == {r \in Requests : req[r].reserved}

Live(s) == s \in Tracked \/ \E l \in leaving : l.id = s /\ l.at \in {"count", "token"}

\* A reservation that can still be bound, and a binding, each stand for a session.
ChargeInv ==
    /\ \A s \in Requests :
          /\ tokens.sessions[s] \in {None, TokenOf[s]}
          /\ tokens.sessions[s] # None => s \notin tokens.unbound /\ Live(s)
          /\ (s \in tokens.unbound /\ (req[s].phase = "registered" \/ req[s].named)) => Live(s)
          /\ (req[s].reserved /\ (req[s].phase \in {"created", "counted"} \/ s \in Tracked)) =>
                s \in tokens.unbound /\ s \notin tokens.closedEarly
          /\ s \in Tracked \cap Known => tokens.sessions[s] = TokenOf[s]

SessionInv == /\ SessionTypes /\ RequestInv /\ OrderInv /\ LeavingInv /\ NoOrphanSession
              /\ CountInv /\ SlotsAreAccounted /\ ChargeInv

AllInv == RequestTypes /\ TargetInv /\ SessionInv

-----------------------------------------------------------------------------
(* How a request moves *)

\* Request r is now n; nobody else moved.
Becomes(r, n) ==
    /\ req' \in [Requests -> Request] /\ req'[r] = n
    /\ \A x \in Requests : x # r => req'[x] = req[x]

LEMMA GoesMove ==
    ASSUME RequestTypes, NEW r \in Requests, NEW phase \in Phases, Goes(r, phase)
    PROVE  \E n \in Request :
              /\ Becomes(r, n) /\ n.phase = phase
              /\ n.kind = req[r].kind /\ n.about = req[r].about /\ n.reserved = req[r].reserved
              /\ n.named = req[r].named /\ n.arcs = req[r].arcs /\ n.permits = req[r].permits
<1> DEFINE n == [req[r] EXCEPT !.phase = phase]
<1>1. req[r] \in Request /\ req' = [req EXCEPT ![r] = n]  BY DEF RequestTypes, Goes
<1>2. /\ n \in Request /\ n.phase = phase
      /\ n.kind = req[r].kind /\ n.about = req[r].about /\ n.reserved = req[r].reserved
      /\ n.named = req[r].named /\ n.arcs = req[r].arcs /\ n.permits = req[r].permits
  BY <1>1 DEF Request
<1> HIDE DEF n
<1>3. Becomes(r, n)  BY <1>1, <1>2 DEF Becomes, RequestTypes
<1>4. QED  BY <1>2, <1>3

LEMMA AnswersMove ==
    ASSUME RequestTypes, NEW r \in Requests, NEW named \in BOOLEAN, Answers(r, named)
    PROVE  \E n \in Request :
              /\ Becomes(r, n) /\ n.phase = "answered" /\ n.named = named
              /\ n.kind = req[r].kind /\ n.about = req[r].about /\ n.reserved = req[r].reserved
              /\ n.arcs = req[r].arcs /\ n.permits = req[r].permits
<1> DEFINE n == [req[r] EXCEPT !.phase = "answered", !.named = named]
<1>1. req[r] \in Request /\ "answered" \in Phases  BY DEF RequestTypes, Phases
<1>2. req' = [req EXCEPT ![r] = n]  BY DEF Answers, RequestTypes
<1>3. n \in Request  BY <1>1 DEF Request
<1>4. /\ n.phase = "answered" /\ n.named = named
      /\ n.kind = req[r].kind /\ n.about = req[r].about /\ n.reserved = req[r].reserved
      /\ n.arcs = req[r].arcs /\ n.permits = req[r].permits
  BY <1>1 DEF Request
<1> HIDE DEF n
<1>5. Becomes(r, n)  BY <1>2, <1>3 DEF Becomes, RequestTypes
<1>6. QED  BY <1>3, <1>4, <1>5

LEMMA LeavesMove ==
    ASSUME RequestTypes, NEW r \in Requests, Leaves(r)
    PROVE  \E n \in Request :
              /\ Becomes(r, n) /\ n.phase = "done" /\ n.kind = "call" /\ n.about = None
              /\ ~n.reserved /\ n.named = req[r].named /\ n.permits = {}
              /\ n.arcs = [d \in Targets |-> None]
<1> DEFINE n == [NewRequest EXCEPT !.phase = "done", !.named = req[r].named]
<1>1. req[r].named \in BOOLEAN /\ {"new", "done"} \subseteq Phases /\ "call" \in Kinds
  BY DEF RequestTypes, Request, Phases, Unsettled, Early, Kinds
<1>2. [d \in Targets |-> None] \in [Targets -> Requests \cup {None}]  OBVIOUS
<1>3. NewRequest \in Request  BY <1>1, <1>2 DEF NewRequest, Request
<1>4. n \in Request  BY <1>1, <1>3 DEF Request
<1>5. /\ n.phase = "done" /\ n.kind = "call" /\ n.about = None /\ ~n.reserved
      /\ n.named = req[r].named /\ n.permits = {} /\ n.arcs = [d \in Targets |-> None]
  BY DEF NewRequest
<1>6. req' = [req EXCEPT ![r] = n]  BY DEF Leaves
<1> HIDE DEF n
<1>7. Becomes(r, n)  BY <1>4, <1>6 DEF Becomes, RequestTypes
<1>8. QED  BY <1>4, <1>5, <1>7

Arrives(r, kind, about) == req' = [req EXCEPT ![r].kind = kind, ![r].about = about, ![r].phase = "global"]

\* The request gets through the door.
LEMMA ArriveMove ==
    ASSUME RequestTypes, NEW r \in Requests, NEW kind \in Kinds, NEW about \in Requests \cup {None},
           Arrives(r, kind, about)
    PROVE  \E n \in Request :
              /\ Becomes(r, n) /\ n.phase = "global" /\ n.kind = kind /\ n.about = about
              /\ n.reserved = req[r].reserved /\ n.named = req[r].named
              /\ n.arcs = req[r].arcs /\ n.permits = req[r].permits
<1> DEFINE n == [req[r] EXCEPT !.kind = kind, !.about = about, !.phase = "global"]
<1>1. req[r] \in Request /\ "global" \in Phases  BY DEF RequestTypes, Phases, Unsettled, Early
<1>2. req' = [req EXCEPT ![r] = n]  BY DEF RequestTypes, Arrives
<1>3. n \in Request  BY <1>1 DEF Request
<1>4. /\ n.phase = "global" /\ n.kind = kind /\ n.about = about
      /\ n.reserved = req[r].reserved /\ n.named = req[r].named
      /\ n.arcs = req[r].arcs /\ n.permits = req[r].permits
  BY <1>1 DEF Request
<1> HIDE DEF n
<1>5. Becomes(r, n)  BY <1>2, <1>3 DEF Becomes, RequestTypes
<1>6. QED  BY <1>3, <1>4, <1>5

Reserves(r, phase, b) == req' = [req EXCEPT ![r].phase = phase, ![r].reserved = b]

\* The reservation is taken, or settled.
LEMMA ReserveMove ==
    ASSUME RequestTypes, NEW r \in Requests, NEW phase \in Phases, NEW b \in BOOLEAN,
           Reserves(r, phase, b)
    PROVE  \E n \in Request :
              /\ Becomes(r, n) /\ n.phase = phase /\ n.reserved = b
              /\ n.kind = req[r].kind /\ n.about = req[r].about /\ n.named = req[r].named
              /\ n.arcs = req[r].arcs /\ n.permits = req[r].permits
<1> DEFINE n == [req[r] EXCEPT !.phase = phase, !.reserved = b]
<1>1. req[r] \in Request  BY DEF RequestTypes
<1>2. req' = [req EXCEPT ![r] = n]  BY DEF RequestTypes, Reserves
<1>3. n \in Request  BY <1>1 DEF Request
<1>4. /\ n.phase = phase /\ n.reserved = b
      /\ n.kind = req[r].kind /\ n.about = req[r].about /\ n.named = req[r].named
      /\ n.arcs = req[r].arcs /\ n.permits = req[r].permits
  BY <1>1 DEF Request
<1> HIDE DEF n
<1>5. Becomes(r, n)  BY <1>2, <1>3 DEF Becomes, RequestTypes
<1>6. QED  BY <1>3, <1>4, <1>5

Resolves(r, phase, arcs) == req' = [req EXCEPT ![r].phase = phase, ![r].arcs = arcs]

\* The semaphores are looked up.
LEMMA ResolveMove ==
    ASSUME RequestTypes, NEW r \in Requests, NEW phase \in Phases,
           NEW arcs \in [Targets -> Requests \cup {None}],
           Resolves(r, phase, arcs)
    PROVE  \E n \in Request :
              /\ Becomes(r, n) /\ n.phase = phase /\ n.arcs = arcs /\ n.permits = req[r].permits
              /\ n.kind = req[r].kind /\ n.about = req[r].about /\ n.named = req[r].named
              /\ n.reserved = req[r].reserved
<1> DEFINE n == [req[r] EXCEPT !.phase = phase, !.arcs = arcs]
<1>1. req[r] \in Request  BY DEF RequestTypes
<1>2. req' = [req EXCEPT ![r] = n]  BY DEF RequestTypes, Resolves
<1>3. n \in Request  BY <1>1 DEF Request
<1>4. /\ n.phase = phase /\ n.arcs = arcs /\ n.permits = req[r].permits
      /\ n.kind = req[r].kind /\ n.about = req[r].about /\ n.named = req[r].named
      /\ n.reserved = req[r].reserved
  BY <1>1 DEF Request
<1> HIDE DEF n
<1>5. Becomes(r, n)  BY <1>2, <1>3 DEF Becomes, RequestTypes
<1>6. QED  BY <1>3, <1>4, <1>5

Drops(r, phase, permits, arcs) == req' = [req EXCEPT ![r].phase = phase, ![r].permits = permits, ![r].arcs = arcs]

\* A permit is refused, and what was taken is dropped.
LEMMA RefuseMove ==
    ASSUME RequestTypes, NEW r \in Requests, NEW phase \in Phases,
           NEW arcs \in [Targets -> Requests \cup {None}], NEW permits \in SUBSET Targets,
           Drops(r, phase, permits, arcs)
    PROVE  \E n \in Request :
              /\ Becomes(r, n) /\ n.phase = phase /\ n.arcs = arcs /\ n.permits = permits
              /\ n.kind = req[r].kind /\ n.about = req[r].about /\ n.named = req[r].named
              /\ n.reserved = req[r].reserved
<1> DEFINE n == [req[r] EXCEPT !.phase = phase, !.permits = permits, !.arcs = arcs]
<1>1. req[r] \in Request  BY DEF RequestTypes
<1>2. req' = [req EXCEPT ![r] = n]  BY DEF RequestTypes, Drops
<1>3. n \in Request  BY <1>1 DEF Request
<1>4. /\ n.phase = phase /\ n.arcs = arcs /\ n.permits = permits
      /\ n.kind = req[r].kind /\ n.about = req[r].about /\ n.named = req[r].named
      /\ n.reserved = req[r].reserved
  BY <1>1 DEF Request
<1> HIDE DEF n
<1>5. Becomes(r, n)  BY <1>2, <1>3 DEF Becomes, RequestTypes
<1>6. QED  BY <1>3, <1>4, <1>5

Permits(r, permits, phase) == req' = [req EXCEPT ![r].permits = permits, ![r].phase = phase]

\* A permit is taken.
LEMMA PermitMove ==
    ASSUME RequestTypes, NEW r \in Requests, NEW phase \in Phases,
           NEW permits \in SUBSET Targets,
           Permits(r, permits, phase)
    PROVE  \E n \in Request :
              /\ Becomes(r, n) /\ n.phase = phase /\ n.arcs = req[r].arcs /\ n.permits = permits
              /\ n.kind = req[r].kind /\ n.about = req[r].about /\ n.named = req[r].named
              /\ n.reserved = req[r].reserved
<1> DEFINE n == [req[r] EXCEPT !.permits = permits, !.phase = phase]
<1>1. req[r] \in Request  BY DEF RequestTypes
<1>2. req' = [req EXCEPT ![r] = n]  BY DEF RequestTypes, Permits
<1>3. n \in Request  BY <1>1 DEF Request
<1>4. /\ n.phase = phase /\ n.arcs = req[r].arcs /\ n.permits = permits
      /\ n.kind = req[r].kind /\ n.about = req[r].about /\ n.named = req[r].named
      /\ n.reserved = req[r].reserved
  BY <1>1 DEF Request
<1> HIDE DEF n
<1>5. Becomes(r, n)  BY <1>2, <1>3 DEF Becomes, RequestTypes
<1>6. QED  BY <1>3, <1>4, <1>5

\* The phases the session invariants speak of.
Special == {"created", "counted", "overcap", "rejected", "registered", "closing"}

\* Request r moved forward, and is in order where it now is.
Fits(r) ==
    /\ req' \in [Requests -> Request]
    /\ \A x \in Requests : x # r => req'[x] = req[x]
    /\ RequestOK(req'[r])
    /\ (req'[r].kind # "initialize" /\ req'[r].phase \notin {"new", "done"}) =>
          req'[r].about \in Requests /\ Later(req'[r].about)
    /\ Past(r) => req'[r].phase \notin Early
    /\ Later(r) => req'[r].phase \notin Unsettled

QuietMove(r) ==
    /\ Fits(r)
    /\ req[r].phase \notin Special /\ req'[r].phase \notin Special
    /\ req'[r].reserved = req[r].reserved /\ req'[r].named = req[r].named
    /\ (req[r].named /\ req'[r].phase \in {"body", "done"}) => req[r].phase \in {"body", "done"}

\* The steps that touch no session.
QuietStep(r) ==
    \/ Accept(r) \/ AcquireToken(r) \/ CheckCapacity(r) \/ Pass(r)
    \/ AnswerWithoutSession(r) \/ AnswerOverCap(r) \/ AnswerCall(r) \/ AnswerDelete(r) \/ EndBody(r)
    \/ At(r, "reserving") /\ Leaves(r)

LEMMA QuietSteps ==
    ASSUME RequestTypes, RequestInv, NEW r \in Requests, QuietStep(r)
    PROVE  QuietMove(r)
<1>1. req[r] \in Request /\ RequestOK(req[r]) /\ AboutOK(req[r])  BY DEF RequestTypes, RequestInv
<1>2. ASSUME req[r].phase \in {"new", "global", "capacity", "reserving", "body"}, Leaves(r)
      PROVE  QuietMove(r)
  <2>1. PICK n \in Request :
              /\ Becomes(r, n) /\ n.phase = "done" /\ n.kind = "call" /\ ~n.reserved
              /\ n.named = req[r].named
    BY <1>2, LeavesMove
  <2>2. n = req'[r]  BY <2>1 DEF Becomes
  <2>3. req[r].reserved \in BOOLEAN /\ n.reserved \in BOOLEAN  BY <1>1 DEF Request
  <2>4. n.reserved = req[r].reserved  BY <1>1, <1>2, <2>1, <2>3 DEF RequestOK
  <2>5. Fits(r)  BY <1>1, <1>2, <2>1, <2>2 DEF Fits, Becomes, RequestOK, Early, Unsettled
  <2>6. QED  BY <1>1, <1>2, <2>1, <2>2, <2>4, <2>5 DEF QuietMove, Special, RequestOK
<1>3. ASSUME NEW n \in Request, Becomes(r, n), n.reserved = req[r].reserved, n.named = req[r].named,
             n.kind = req[r].kind, n.about = req[r].about,
             \/ /\ req[r].phase = "global"
                /\ n.phase = (IF req[r].kind = "initialize" THEN "capacity" ELSE "inside")
             \/ req[r].phase = "capacity" /\ n.phase = "reserving"
             \/ req[r].phase \in {"inside", "resolved"} /\ n.phase \in {"resolved", "handler", "answered"}
             \/ req[r].phase \in {"handler", "cleaning", "unregistering"} /\ n.phase = "answered"
      PROVE  QuietMove(r)
  <2>1. n = req'[r]  BY <1>3 DEF Becomes
  <2>2. RequestOK(n)  BY <1>1, <1>3 DEF RequestOK
  <2>3. Fits(r)  BY <1>1, <1>3, <2>1, <2>2 DEF Fits, Becomes, AboutOK, Past, Later, Early, Unsettled
  <2>4. QED  BY <1>3, <2>1, <2>3 DEF QuietMove, Special
<1>4. ASSUME NEW kind \in Kinds, NEW about \in Requests \cup {None}, Arrive(r, kind, about)
      PROVE  QuietMove(r)
  <2>1. req[r].phase = "new"  BY <1>4 DEF Arrive, At
  <2>2. CASE Leaves(r)  BY <1>2, <2>1, <2>2
  <2>3. CASE req' = [req EXCEPT ![r].kind = kind, ![r].about = about, ![r].phase = "global"]
    <3>1. PICK n \in Request :
              /\ Becomes(r, n) /\ n.phase = "global" /\ n.kind = kind /\ n.about = about
              /\ n.reserved = req[r].reserved /\ n.named = req[r].named
              /\ n.arcs = req[r].arcs /\ n.permits = req[r].permits
      <4>1. Arrives(r, kind, about)  BY <2>3 DEF Arrives
      <4>2. QED  BY <4>1, ArriveMove
    <3>2. n = req'[r]  BY <3>1 DEF Becomes
    <3>3. kind # "initialize" => about \in Requests /\ Later(about)
      BY <1>4 DEF Arrive, Known, Later, Unsettled, Early
    <3>4. RequestOK(n)  BY <1>1, <2>1, <3>1 DEF RequestOK
    <3>5. Fits(r)  BY <2>1, <3>1, <3>2, <3>3, <3>4 DEF Fits, Becomes, Past, Later, Early, Unsettled
    <3>6. QED  BY <2>1, <3>1, <3>2, <3>5 DEF QuietMove, Special
  <2>4. QED  BY <1>4, <2>2, <2>3 DEF Arrive
<1>5. {"capacity", "reserving", "inside", "resolved", "handler", "answered"} \subseteq Phases
  BY DEF Phases, Unsettled, Early
<1>6. CASE AcquireToken(r)
  <2>1. req[r].phase = "global"  BY <1>6 DEF AcquireToken, At
  <2>2. Leaves(r) \/ Goes(r, IF req[r].kind = "initialize" THEN "capacity" ELSE "inside")
    BY <1>6 DEF AcquireToken
  <2>3. QED  BY <1>2, <1>3, <1>5, <2>1, <2>2, GoesMove
<1>7. CASE CheckCapacity(r)
  <2>1. req[r].phase = "capacity" /\ (Leaves(r) \/ Goes(r, "reserving"))
    BY <1>7 DEF CheckCapacity, At
  <2>2. QED  BY <1>2, <1>3, <1>5, <2>1, GoesMove
<1>8. ASSUME req[r].phase \in {"inside", "handler", "cleaning", "unregistering"}, Answers(r, FALSE)
      PROVE  QuietMove(r)
  <2>1. PICK n \in Request :
              /\ Becomes(r, n) /\ n.phase = "answered" /\ n.named = FALSE
              /\ n.kind = req[r].kind /\ n.about = req[r].about /\ n.reserved = req[r].reserved
    BY <1>8, AnswersMove
  <2>2. req[r].named \in BOOLEAN  BY <1>1 DEF Request
  <2>3. n.named = req[r].named  BY <1>1, <1>8, <2>1, <2>2 DEF RequestOK
  <2>4. QED  BY <1>3, <1>8, <2>1, <2>3
<1>9. CASE Pass(r)
  <2>1. CASE Refuse(r)  BY <1>8, <2>1 DEF Refuse, At
  <2>2. CASE PassWithoutTargets(r)
    <3>1. req[r].phase = "inside" /\ Goes(r, "handler")  BY <2>2 DEF PassWithoutTargets, At
    <3>2. QED  BY <1>3, <1>5, <3>1, GoesMove
  <2>3. ASSUME NEW named \in SUBSET Targets, ResolveTargets(r, named) PROVE QuietMove(r)
    <3> DEFINE arcs == [d \in Targets |-> IF d \in named
                            THEN IF Alive(d, registry[d]) THEN registry[d] ELSE r ELSE None]
    <3>1. req[r].phase = "inside" /\ req' = [req EXCEPT ![r].phase = "resolved", ![r].arcs = arcs]
      BY <2>3 DEF ResolveTargets, At
    <3>2. arcs \in [Targets -> Requests \cup {None}] /\ req[r].permits \in SUBSET Targets
      <4>1. ASSUME NEW d \in Targets, Alive(d, registry[d]) PROVE registry[d] \in Requests \cup {None}
        <5>1. PICK q \in Requests : req[q].arcs[d] = registry[d]  BY <4>1 DEF Alive
        <5>2. QED  BY <5>1 DEF RequestTypes, Request
      <4>2. QED  BY <1>1, <4>1 DEF Request
    <3> HIDE DEF arcs
    <3>3. PICK n \in Request :
              /\ Becomes(r, n) /\ n.phase = "resolved" /\ n.arcs = arcs /\ n.permits = req[r].permits
              /\ n.kind = req[r].kind /\ n.about = req[r].about /\ n.named = req[r].named
              /\ n.reserved = req[r].reserved
      <4>1. Resolves(r, "resolved", arcs)  BY <3>1 DEF Resolves
      <4>2. QED  BY <1>5, <3>2, <4>1, ResolveMove
    <3>4. QED  BY <1>3, <3>1, <3>3
  <2>4. ASSUME NEW d \in Targets, AcquireTarget(r, d) PROVE QuietMove(r)
    <3>1. req[r].phase = "resolved"  BY <2>4 DEF AcquireTarget, At
    <3>2. req[r].permits \in SUBSET Targets /\ req[r].arcs \in [Targets -> Requests \cup {None}]
      BY <1>1 DEF Request
    <3>3. CASE req' = [req EXCEPT ![r].phase = "answered", ![r].permits = {},
                                  ![r].arcs = [e \in Targets |-> None]]
      <4>1. [e \in Targets |-> None] \in [Targets -> Requests \cup {None}] /\ {} \in SUBSET Targets
        OBVIOUS
      <4>2. PICK n \in Request :
                /\ Becomes(r, n) /\ n.phase = "answered" /\ n.arcs = [e \in Targets |-> None]
                /\ n.permits = {}
                /\ n.kind = req[r].kind /\ n.about = req[r].about /\ n.named = req[r].named
                /\ n.reserved = req[r].reserved
        <5>1. Drops(r, "answered", {}, [e \in Targets |-> None])  BY <3>3 DEF Drops
        <5>2. QED  BY <1>5, <4>1, <5>1, RefuseMove
      <4>3. QED  BY <1>3, <3>1, <4>2
    <3>4. ASSUME NEW phase \in {"handler", "resolved"},
                 req' = [req EXCEPT ![r].permits = req[r].permits \cup {d}, ![r].phase = phase]
          PROVE  QuietMove(r)
      <4>1. req[r].permits \cup {d} \in SUBSET Targets  BY <3>2
      <4>2. PICK n \in Request :
                /\ Becomes(r, n) /\ n.phase = phase /\ n.arcs = req[r].arcs
                /\ n.permits = req[r].permits \cup {d}
                /\ n.kind = req[r].kind /\ n.about = req[r].about /\ n.named = req[r].named
                /\ n.reserved = req[r].reserved
        <5>1. Permits(r, req[r].permits \cup {d}, phase)  BY <3>4 DEF Permits
        <5>2. QED  BY <1>5, <4>1, <5>1, PermitMove
      <4>3. QED  BY <1>3, <3>1, <3>4, <4>2
    <3>5. \/ req' = [req EXCEPT ![r].phase = "answered", ![r].permits = {},
                                ![r].arcs = [e \in Targets |-> None]]
          \/ \E phase \in {"handler", "resolved"} :
                req' = [req EXCEPT ![r].permits = req[r].permits \cup {d}, ![r].phase = phase]
      <4>1. \/ req' = [req EXCEPT ![r].phase = "answered", ![r].permits = {},
                                  ![r].arcs = [e \in Targets |-> None]]
            \/ req' = [req EXCEPT ![r].permits = req[r].permits \cup {d},
                         ![r].phase = IF Wanted(r) = req[r].permits \cup {d} THEN "handler" ELSE req[r].phase]
        BY <2>4 DEF AcquireTarget, RequestTypes
      <4>2. QED  BY <3>1, <4>1
    <3>6. QED  BY <3>3, <3>4, <3>5
  <2>5. QED  BY <1>9, <2>1, <2>2, <2>3, <2>4 DEF Pass
<1>10. CASE AnswerWithoutSession(r) \/ AnswerOverCap(r) \/ AnswerCall(r) \/ AnswerDelete(r)
  BY <1>8, <1>10 DEF AnswerWithoutSession, AnswerOverCap, AnswerCall, AnswerDelete, Creating, At
<1>11. CASE EndBody(r) \/ (At(r, "reserving") /\ Leaves(r))  BY <1>2, <1>11 DEF EndBody, At
<1>12. QED  BY <1>4, <1>6, <1>7, <1>9, <1>10, <1>11 DEF QuietStep, Accept

\* Where the steps that touch a session take their request.
Route(from, to) ==
    \/ from = "handler" /\ to = "created"
    \/ from = "created" /\ to \in {"counted", "overcap"}
    \/ from = "counted" /\ to = "registered"
    \/ from = "overcap" /\ to = "rejected"
    \/ from = "rejected" /\ to = "cleaning"
    \/ from = "handler" /\ to = "closing"
    \/ from = "closing" /\ to = "unregistering"

LEMMA RouteFits ==
    ASSUME RequestTypes, RequestInv, NEW r \in Requests, NEW to \in Phases, Goes(r, to),
           Route(req[r].phase, to), to = "created" => req[r].kind = "initialize",
           to = "closing" => req[r].kind = "delete"
    PROVE  /\ Fits(r) /\ req'[r].phase = to /\ req'[r].reserved = req[r].reserved
           /\ req'[r].named = req[r].named /\ req'[r].about = req[r].about /\ ~req[r].named
           /\ to \in {"created", "registered"} => req[r].reserved
<1>1. req[r] \in Request /\ RequestOK(req[r]) /\ AboutOK(req[r])  BY DEF RequestTypes, RequestInv
<1>2. PICK n \in Request :
              /\ Becomes(r, n) /\ n.phase = to
              /\ n.kind = req[r].kind /\ n.about = req[r].about /\ n.reserved = req[r].reserved
              /\ n.named = req[r].named /\ n.arcs = req[r].arcs /\ n.permits = req[r].permits
  BY GoesMove
<1>3. n = req'[r]  BY <1>2 DEF Becomes
<1>4. RequestOK(n)  BY <1>1, <1>2 DEF RequestOK, Route
<1>5. Fits(r)
  BY <1>1, <1>2, <1>3, <1>4 DEF Fits, Becomes, AboutOK, Past, Later, Early, Unsettled, Route
<1>6. QED  BY <1>1, <1>2, <1>3, <1>5 DEF Route, RequestOK

LEMMA ReserveFits ==
    ASSUME RequestTypes, RequestInv, NEW r \in Requests, req[r].phase = "reserving",
           req' = [req EXCEPT ![r].phase = "inside", ![r].reserved = TRUE]
    PROVE  /\ Fits(r) /\ req'[r].phase = "inside" /\ req'[r].reserved /\ ~req[r].reserved
           /\ ~req[r].named /\ ~req'[r].named
<1>1. req[r] \in Request /\ RequestOK(req[r]) /\ AboutOK(req[r])  BY DEF RequestTypes, RequestInv
<1>2. Reserves(r, "inside", TRUE) /\ "inside" \in Phases  BY DEF Reserves, Phases, Unsettled, Early
<1>3. PICK n \in Request :
              /\ Becomes(r, n) /\ n.phase = "inside" /\ n.reserved = TRUE
              /\ n.kind = req[r].kind /\ n.about = req[r].about /\ n.named = req[r].named
              /\ n.arcs = req[r].arcs /\ n.permits = req[r].permits
  BY <1>2, ReserveMove
<1>4. n = req'[r]  BY <1>3 DEF Becomes
<1>5. RequestOK(n)  BY <1>1, <1>3 DEF RequestOK
<1>6. Fits(r)
  BY <1>1, <1>3, <1>4, <1>5 DEF Fits, Becomes, AboutOK, Past, Later, Early, Unsettled
<1>7. QED  BY <1>1, <1>3, <1>4, <1>6 DEF RequestOK

LEMMA SettleFits ==
    ASSUME RequestTypes, RequestInv, NEW r \in Requests, req[r].phase = "answered",
           req' = [req EXCEPT ![r].phase = "body", ![r].reserved = FALSE]
    PROVE  /\ Fits(r) /\ req'[r].phase = "body" /\ ~req'[r].reserved
           /\ req'[r].named = req[r].named
           /\ req[r].named => req[r].reserved
<1>1. req[r] \in Request /\ RequestOK(req[r]) /\ AboutOK(req[r])  BY DEF RequestTypes, RequestInv
<1>2. Reserves(r, "body", FALSE) /\ "body" \in Phases  BY DEF Reserves, Phases
<1>3. PICK n \in Request :
              /\ Becomes(r, n) /\ n.phase = "body" /\ n.reserved = FALSE
              /\ n.kind = req[r].kind /\ n.about = req[r].about /\ n.named = req[r].named
              /\ n.arcs = req[r].arcs /\ n.permits = req[r].permits
  BY <1>2, ReserveMove
<1>4. n = req'[r]  BY <1>3 DEF Becomes
<1>5. RequestOK(n)  BY <1>1, <1>3 DEF RequestOK
<1>6. Fits(r)
  BY <1>1, <1>3, <1>4, <1>5 DEF Fits, Becomes, AboutOK, Past, Later, Early, Unsettled
<1>7. QED  BY <1>1, <1>3, <1>4, <1>6 DEF RequestOK

LEMMA InitializeFits ==
    ASSUME RequestTypes, RequestInv, NEW r \in Requests, req[r].phase = "registered",
           NEW b \in BOOLEAN, Answers(r, b)
    PROVE  /\ Fits(r) /\ req'[r].phase = "answered" /\ req'[r].reserved /\ req[r].reserved
           /\ req'[r].named = b
<1>1. req[r] \in Request /\ RequestOK(req[r]) /\ AboutOK(req[r])  BY DEF RequestTypes, RequestInv
<1>2. PICK n \in Request :
              /\ Becomes(r, n) /\ n.phase = "answered" /\ n.named = b
              /\ n.kind = req[r].kind /\ n.about = req[r].about /\ n.reserved = req[r].reserved
              /\ n.arcs = req[r].arcs /\ n.permits = req[r].permits
  BY AnswersMove
<1>3. n = req'[r]  BY <1>2 DEF Becomes
<1>4. RequestOK(n)  BY <1>1, <1>2 DEF RequestOK
<1>5. Fits(r)
  BY <1>1, <1>2, <1>3, <1>4 DEF Fits, Becomes, AboutOK, Past, Later, Early, Unsettled
<1>6. QED  BY <1>1, <1>2, <1>3, <1>5 DEF RequestOK

LEMMA CancelFits ==
    ASSUME RequestTypes, RequestInv, NEW r \in Requests, req[r].phase \in Awaiting, Leaves(r)
    PROVE  Fits(r) /\ req'[r].phase = "done" /\ ~req'[r].reserved /\ ~req'[r].named /\ ~req[r].named
<1>1. req[r] \in Request /\ RequestOK(req[r])  BY DEF RequestTypes, RequestInv
<1>2. PICK n \in Request :
              /\ Becomes(r, n) /\ n.phase = "done" /\ n.kind = "call" /\ n.about = None
              /\ ~n.reserved /\ n.named = req[r].named /\ n.permits = {}
              /\ n.arcs = [d \in Targets |-> None]
  BY LeavesMove
<1>3. n = req'[r]  BY <1>2 DEF Becomes
<1>4. RequestOK(n) /\ ~req[r].named  BY <1>1, <1>2 DEF RequestOK, Awaiting
<1>5. Fits(r)  BY <1>2, <1>3, <1>4 DEF Fits, Becomes, Early, Unsettled
<1>6. QED  BY <1>2, <1>3, <1>4, <1>5

-----------------------------------------------------------------------------
(* What moving forward preserves *)

LEMMA Forward ==
    ASSUME NEW r \in Requests, Fits(r), NEW s \in Requests
    PROVE  (Past(s) => Past(s)') /\ (Later(s) => Later(s)')
BY DEF Fits, Past, Later

LEMMA FitsRequests ==
    ASSUME RequestTypes, RequestInv, NEW r \in Requests, Fits(r), limits' = limits
    PROVE  RequestTypes' /\ RequestInv'
<1>1. RequestTypes'  BY DEF RequestTypes, Fits
<1>2. ASSUME NEW x \in Requests PROVE RequestOK(req'[x])  BY DEF Fits, RequestInv
<1>3. ASSUME NEW x \in Requests, req'[x].kind # "initialize", req'[x].phase \notin {"new", "done"}
      PROVE  req'[x].about \in Requests /\ Later(req'[x].about)
  BY <1>3 DEF Fits, RequestInv, AboutOK
<1>4. ASSUME NEW x \in Requests PROVE AboutOK(req[x])'
  BY <1>3, Forward DEF AboutOK, Later
<1>5. QED  BY <1>1, <1>2, <1>4 DEF RequestInv

Onward == \A s \in Requests : (Past(s) => Past(s)') /\ (Later(s) => Later(s)')

LEMMA OrderKeep ==
    ASSUME SessionTypes', OrderInv, Onward,
           \A s \in inner' \cup tokens'.unbound \cup tokens'.closedEarly :
              s \in inner \cup tokens.unbound \cup tokens.closedEarly \/ Past(s)',
           \A s \in Tracked' \cup workers' \cup expired' :
              s \in Tracked \cup workers \cup expired \/ Later(s)',
           \A s \in Requests : tokens'.sessions[s] # None => tokens.sessions[s] # None \/ Later(s)',
           \A l \in leaving' : (\E k \in leaving : k.id = l.id) \/ Later(l.id)'
    PROVE  OrderInv'
<1>1. /\ inner' \cup tokens'.unbound \cup tokens'.closedEarly \subseteq Requests
      /\ Tracked' \cup workers' \cup expired' \subseteq Requests
      /\ \A l \in leaving' : l.id \in Requests
  BY DEF SessionTypes, TokenState, Tracked, Leaver
<1>2. \A s \in inner' \cup tokens'.unbound \cup tokens'.closedEarly : Past(s)'
  BY <1>1 DEF OrderInv, Onward
<1>3. \A s \in Tracked' \cup workers' \cup expired' : Later(s)'  BY <1>1 DEF OrderInv, Onward
<1>4. \A s \in Requests : tokens'.sessions[s] # None => Later(s)'  BY DEF OrderInv, Onward
<1>5. \A l \in leaving' : Later(l.id)'  BY <1>1 DEF OrderInv, Onward
<1>6. QED  BY <1>2, <1>3, <1>4, <1>5 DEF OrderInv

\* The counters of tokens stand while their slots do.
LEMMA SlotKeep ==
    ASSUME SlotsAreAccounted, tokens'.counts = tokens.counts, tokens'.pending = tokens.pending,
           tokens'.sessions = tokens.sessions,
           \A x \in Requests : req'[x].reserved = req[x].reserved
    PROVE  SlotsAreAccounted'
<1>1. {x \in Requests : req'[x].reserved} = {x \in Requests : req[x].reserved}  OBVIOUS
<1>2. \A t \in Tokens : BoundTo(t)' = BoundTo(t) /\ ReservedBy(t)' = ReservedBy(t)
  BY DEF BoundTo, ReservedBy
<1>3. QED  BY <1>1, <1>2 DEF SlotsAreAccounted

\* The session counter stands while the three sets it sums do.
LEMMA CountKeep ==
    ASSUME CountInv, active' = active, Tracked' = Tracked,
           \A x \in Requests : /\ req'[x].phase = "counted" <=> req[x].phase = "counted"
                               /\ req'[x].phase = "overcap" <=> req[x].phase = "overcap",
           \A l \in leaving \cup leaving' : l.at = "count" => l \in leaving \cap leaving'
    PROVE  CountInv'
<1>1. Counting' = Counting /\ Counted' = Counted  BY DEF Counting, Counted
<1>2. Lowering' = Lowering  BY DEF Lowering
<1>3. QED  BY <1>1, <1>2 DEF CountInv

\* A step of request r that touches no session.
LEMMA QuietSessions ==
    ASSUME RequestTypes, SessionInv, NEW r \in Requests, QuietMove(r), SessionTypes',
           UNCHANGED <<limits, tokens, active, inner, workers, leaving, expired>>, Tracked' = Tracked
    PROVE  SessionInv'
<1>1. Fits(r) /\ \A x \in Requests : x # r => req'[x] = req[x]  BY DEF QuietMove, Fits
<1>2. RequestInv'  BY <1>1, FitsRequests DEF SessionInv
<1>3. Onward  BY <1>1, Forward DEF Onward
<1>4. OrderInv'  BY <1>3, OrderKeep DEF SessionInv
<1>5. \A x \in Requests : /\ req'[x].phase = req[x].phase \/ {req'[x].phase, req[x].phase} \cap Special = {}
                          /\ req'[x].reserved = req[x].reserved /\ req'[x].named = req[x].named
  BY <1>1 DEF QuietMove
<1>6. \A l \in leaving : l.id \in Requests  BY DEF SessionInv, SessionTypes, Leaver
<1>7. LeavingInv'
  <2>1. \A x \in Requests : req'[x].phase = "closing" => req'[x] = req[x]
    BY <1>1 DEF QuietMove, Special
  <2>2. \A x \in Requests : req[x].phase = "rejected" => req'[x] = req[x]
    BY <1>1 DEF QuietMove, Special
  <2>3. QED  BY <1>6, <2>1, <2>2 DEF SessionInv, LeavingInv
<1>8. NoOrphanSession'
  <2>1. \A x \in Requests : req[x].phase \in {"created", "counted", "overcap", "rejected"} => req'[x] = req[x]
    BY <1>1 DEF QuietMove, Special
  <2>2. inner \subseteq Requests  BY DEF SessionInv, SessionTypes
  <2>3. QED  BY <2>1, <2>2 DEF SessionInv, NoOrphanSession
<1>9. CountInv'
  <2>1. \A x \in Requests : /\ req'[x].phase = "counted" <=> req[x].phase = "counted"
                            /\ req'[x].phase = "overcap" <=> req[x].phase = "overcap"
    BY <1>1 DEF QuietMove, Special
  <2>2. QED  BY <2>1, CountKeep DEF SessionInv
<1>10. SlotsAreAccounted'  BY <1>5, SlotKeep DEF SessionInv
<1>11. ChargeInv'
  <2>1. \A x \in Requests : x \in Known' => x \in Known
    BY <1>1, <1>5 DEF Known, QuietMove
  <2>2. \A s \in Requests : Live(s)' <=> Live(s)  BY DEF Live
  <2>3. \A x \in Requests : req'[x].phase \in {"registered", "created", "counted"} => req'[x] = req[x]
    BY <1>1 DEF QuietMove, Special
  <2>4. QED  BY <1>5, <2>1, <2>2, <2>3 DEF SessionInv, ChargeInv
<1>12. QED  BY <1>2, <1>4, <1>7, <1>8, <1>9, <1>10, <1>11 DEF SessionInv

-----------------------------------------------------------------------------
(* Sessions: the request's steps *)

LEMMA TouchTypes ==
    ASSUME SessionTypes, NEW s \in Requests, activity' = Touched(s)
    PROVE  activity' \in [Requests -> Activity] /\ Tracked' = Tracked
<1> DEFINE n == [activity[s] EXCEPT !.idle = 0]
<1>1. activity \in [Requests -> Activity] /\ activity[s] \in Activity  BY DEF SessionTypes
<1>2. activity' = [activity EXCEPT ![s] = n]  BY <1>1 DEF Touched
<1>3. n \in Activity /\ n.tracked = activity[s].tracked  BY <1>1 DEF Activity
<1> HIDE DEF n
<1>4. activity' \in [Requests -> Activity]  BY <1>1, <1>2, <1>3
<1>5. \A x \in Requests : activity'[x].tracked = activity[x].tracked  BY <1>1, <1>2, <1>3
<1>6. QED  BY <1>4, <1>5 DEF Tracked

LEMMA QuietInv ==
    ASSUME RequestTypes, SessionInv, NEW r \in Requests,
           \/ Accept(r) \/ AcquireToken(r) \/ CheckCapacity(r) \/ Pass(r)
           \/ AnswerWithoutSession(r) \/ AnswerOverCap(r) \/ AnswerCall(r) \/ AnswerDelete(r) \/ EndBody(r)
           \/ Reserve(r) /\ Leaves(r) /\ UNCHANGED tokens
    PROVE  SessionInv'
<1>1. QuietMove(r)  BY QuietSteps DEF SessionInv, QuietStep, Reserve
<1>2. UNCHANGED <<limits, tokens, active, inner, workers, leaving, expired>>
  BY DEF Accept, Arrive, AcquireToken, CheckCapacity, Pass, Refuse, PassWithoutTargets, ResolveTargets,
     AcquireTarget, AnswerWithoutSession, AnswerOverCap, AnswerCall, AnswerDelete, EndBody, Reserve,
     sessionVars
<1>3. activity' \in [Requests -> Activity] /\ Tracked' = Tracked
  <2>1. CASE UNCHANGED activity  BY <2>1 DEF SessionInv, SessionTypes, Tracked
  <2>2. CASE AnswerCall(r)
    <3>1. req[r].kind = "call" /\ req[r].phase = "handler" /\ activity' = Touched(req[r].about)
      BY <2>2 DEF AnswerCall, At
    <3>2. req[r].about \in Requests  BY <3>1 DEF SessionInv, RequestInv, AboutOK
    <3>3. QED  BY <3>1, <3>2, TouchTypes DEF SessionInv
  <2>3. QED
    BY <2>1, <2>2 DEF Accept, Arrive, AcquireToken, CheckCapacity, Pass, Refuse, PassWithoutTargets,
       ResolveTargets, AcquireTarget, AnswerWithoutSession, AnswerOverCap, AnswerDelete, EndBody,
       Reserve, sessionVars
<1>4. SessionTypes'  BY <1>2, <1>3 DEF SessionInv, SessionTypes
<1>5. QED  BY <1>1, <1>2, <1>3, <1>4, QuietSessions

\* A request under way that holds a reservation keeps the pending count above zero.
LEMMA PendingPositive ==
    ASSUME SlotsAreAccounted, NEW r \in Requests, req[r].reserved
    PROVE  tokens.pending \in Nat /\ tokens.pending > 0
<1> DEFINE S == {x \in Requests : req[x].reserved}
<1>1. IsFiniteSet(S)  BY NamesAssumption, FS_Subset
<1>2. r \in S  OBVIOUS
<1>3. Cardinality(S) \in Nat /\ Cardinality(S) # 0  BY <1>1, <1>2, FS_CardinalityType, FS_EmptySet
<1>4. QED  BY <1>3 DEF SlotsAreAccounted

\* The inner manager creates the session of r.
LEMMA CreateInv ==
    ASSUME RequestTypes, SessionInv, NEW r \in Requests, CreateInner(r)
    PROVE  SessionInv'
<1>1. /\ Fits(r) /\ req'[r].phase = "created" /\ req'[r].reserved = req[r].reserved
      /\ req'[r].named = req[r].named /\ ~req[r].named /\ req[r].reserved
  <2>1. Goes(r, "created") /\ req[r].phase = "handler" /\ req[r].kind = "initialize"
    BY DEF CreateInner, Creating, At
  <2>2. "created" \in Phases  BY DEF Phases, Unsettled
  <2>3. QED  BY <2>1, <2>2, RouteFits DEF Route, SessionInv
<1>2. req[r].phase = "handler" /\ \A x \in Requests : x # r => req'[x] = req[x]
  BY <1>1 DEF CreateInner, Creating, At, Fits
<1>3. tokens \in TokenState /\ tokens.pending > 0  BY <1>1, PendingPositive DEF SessionInv, SessionTypes
<1>4. tokens' = [tokens EXCEPT !.unbound = @ \cup {r}]  BY <1>3 DEF CreateInner
<1>5. /\ tokens'.counts = tokens.counts /\ tokens'.sessions = tokens.sessions
      /\ tokens'.pending = tokens.pending /\ tokens'.unbound = tokens.unbound \cup {r}
      /\ tokens'.closedEarly = tokens.closedEarly
  BY <1>3, <1>4 DEF TokenState
<1>6. tokens' \in TokenState  BY <1>3, <1>4 DEF TokenState
<1>7. inner' = inner \cup {r} /\ UNCHANGED <<limits, active, activity, workers, leaving, expired>>
  BY DEF CreateInner
<1>8. SessionTypes' /\ Tracked' = Tracked
  BY <1>6, <1>7 DEF SessionInv, SessionTypes, Tracked
<1>9. RequestInv'  BY <1>1, <1>7, FitsRequests DEF SessionInv
<1>10. Onward  BY <1>1, Forward DEF Onward
<1>11. Past(r)'  BY <1>1 DEF Past, Early
<1>12. OrderInv'
  BY <1>5, <1>7, <1>8, <1>10, <1>11, OrderKeep DEF SessionInv
<1>13. ~Past(r) /\ ~Later(r)  BY <1>2 DEF Past, Later, Unsettled, Early
<1>14. r \notin inner \cup tokens.unbound \cup tokens.closedEarly /\ r \notin Tracked
       /\ tokens.sessions[r] = None /\ \A l \in leaving : l.id # r
  BY <1>13 DEF SessionInv, OrderInv
<1>15. \A l \in leaving : l.id \in Requests  BY DEF SessionInv, SessionTypes, Leaver
<1>16. LeavingInv'
  <2>1. \A x \in Requests : req'[x].phase = "closing" => x # r /\ req'[x] = req[x]
    BY <1>1, <1>2
  <2>2. \A x \in Requests : req[x].phase = "rejected" => req'[x] = req[x]  BY <1>2
  <2>3. \A x \in Requests : req'[x].phase = "closing" => req'[x].about # r
    <3> SUFFICES ASSUME NEW x \in Requests, req'[x].phase = "closing" PROVE req'[x].about # r
      OBVIOUS
    <3>1. req[x].phase = "closing" /\ req'[x] = req[x]  BY <2>1
    <3>2. req[x].kind = "delete" /\ Later(req[x].about)
      BY <3>1 DEF SessionInv, RequestInv, RequestOK, AboutOK
    <3>3. QED  BY <1>13, <3>1, <3>2
  <2>4. QED  BY <1>7, <1>8, <1>14, <1>15, <2>1, <2>2, <2>3 DEF SessionInv, LeavingInv
<1>17. NoOrphanSession'
  <2>1. inner \subseteq Requests  BY DEF SessionInv, SessionTypes
  <2>2. QED  BY <1>1, <1>2, <1>7, <1>8, <2>1 DEF SessionInv, NoOrphanSession
<1>18. CountInv'  BY <1>1, <1>2, <1>7, <1>8, CountKeep DEF SessionInv
<1>19. SlotsAreAccounted'  BY <1>1, <1>2, <1>5, SlotKeep DEF SessionInv
<1>20. ChargeInv'
  <2>1. \A x \in Requests : x \in Known' => x \in Known /\ x # r  BY <1>1, <1>2 DEF Known
  <2>2. \A s \in Requests : Live(s)' <=> Live(s)  BY <1>7, <1>8 DEF Live
  <2>3. QED  BY <1>1, <1>2, <1>5, <1>8, <1>14, <2>1, <2>2 DEF SessionInv, ChargeInv
<1>21. QED  BY <1>8, <1>9, <1>12, <1>16, <1>17, <1>18, <1>19, <1>20 DEF SessionInv

LEMMA AddOne ==
    ASSUME NEW S, IsFiniteSet(S), NEW x, x \notin S
    PROVE  Cardinality(S) \in Nat /\ Cardinality(S \cup {x}) = Cardinality(S) + 1
BY FS_AddElement, FS_CardinalityType

LEMMA DropOne ==
    ASSUME NEW S, IsFiniteSet(S), NEW x \in S
    PROVE  /\ Cardinality(S) \in Nat /\ Cardinality(S \ {x}) \in Nat
           /\ Cardinality(S) = Cardinality(S \ {x}) + 1
<1>1. IsFiniteSet(S \ {x}) /\ Cardinality(S \ {x}) = Cardinality(S) - 1  BY FS_RemoveElement
<1>2. Cardinality(S) \in Nat /\ Cardinality(S \ {x}) \in Nat  BY <1>1, FS_CardinalityType
<1>3. QED  BY <1>1, <1>2

\* The sets the session counter sums are finite.
LEMMA CountedSets ==
    ASSUME SessionTypes
    PROVE  /\ IsFiniteSet(Tracked) /\ IsFiniteSet(Counting) /\ IsFiniteSet(Counted) /\ IsFiniteSet(Lowering)
           /\ {Cardinality(Tracked), Cardinality(Counting), Cardinality(Counted), Cardinality(Lowering)}
                 \subseteq Nat
           /\ Cardinality(Counted) <= Cardinality(Counting)
<1>1. IsFiniteSet(Tracked) /\ IsFiniteSet(Counting) /\ IsFiniteSet(Counted)
  BY NamesAssumption, FS_Subset DEF Tracked, Counting, Counted
<1>2. IsFiniteSet(Lowering)  BY FS_Subset DEF SessionTypes, Lowering
<1>3. Counted \subseteq Counting  BY DEF Counted, Counting
<1>4. QED  BY <1>1, <1>2, <1>3, FS_CardinalityType, FS_Subset

\* Where leaving gains an entry that has yet to begin.
LEMMA EntryAdded ==
    ASSUME SessionTypes, NEW e \in Leaver, e.at \in {"entry", "inner"}, leaving' = leaving \cup {e},
           Tracked' = Tracked
    PROVE  /\ leaving' \subseteq Leaver /\ IsFiniteSet(leaving')
           /\ \A l \in leaving \cup leaving' : l.at = "count" => l \in leaving \cap leaving'
           /\ \A s : Live(s)' <=> Live(s)
BY FS_AddElement DEF SessionTypes, Live

\* try_register raises the counter.
LEMMA CountSessionInv ==
    ASSUME RequestTypes, SessionInv, NEW r \in Requests, CountSession(r)
    PROVE  SessionInv'
<1> DEFINE to == IF active >= MaxSessions THEN "overcap" ELSE "counted"
<1>1. /\ Fits(r) /\ req'[r].phase = to /\ req'[r].reserved = req[r].reserved
      /\ req'[r].named = req[r].named /\ ~req[r].named /\ req[r].phase = "created"
  <2>1. Goes(r, to) /\ req[r].phase = "created"  BY DEF CountSession, At
  <2>2. to \in Phases /\ to \in {"overcap", "counted"}  BY DEF Phases, Unsettled
  <2>3. QED  BY <2>1, <2>2, RouteFits DEF Route, SessionInv
<1>2. \A x \in Requests : x # r => req'[x] = req[x]  BY <1>1 DEF Fits
<1>3. active' = active + 1 /\ UNCHANGED <<limits, tokens, activity, inner, workers, leaving, expired>>
  BY DEF CountSession
<1>4. SessionTypes' /\ Tracked' = Tracked  BY <1>3 DEF SessionInv, SessionTypes, Tracked
<1>5. RequestInv'  BY <1>1, <1>3, FitsRequests DEF SessionInv
<1>6. Onward  BY <1>1, Forward DEF Onward
<1>7. OrderInv'  BY <1>3, <1>4, <1>6, OrderKeep DEF SessionInv
<1>8. to \in {"overcap", "counted"}  OBVIOUS
<1>9. r \notin Tracked /\ \A l \in leaving : l.id # r /\ l.id \in Requests
  BY <1>1 DEF SessionInv, OrderInv, Later, Unsettled, SessionTypes, Leaver
<1>10. CountInv'
  <2>1. IsFiniteSet(Counting) /\ IsFiniteSet(Counted)  BY CountedSets DEF SessionInv
  <2>2. r \notin Counting /\ r \notin Counted  BY <1>1 DEF Counting, Counted
  <2>3. Counting' = Counting \cup {r}  BY <1>1, <1>2 DEF Counting
  <2>4. Lowering' = Lowering  BY <1>3 DEF Lowering
  <2>5. Cardinality(Counting') = Cardinality(Counting) + 1  BY <2>1, <2>2, <2>3, AddOne
  <2>6. MaxSessions \in Nat /\ active \in Nat  BY LimitsAssumption DEF SessionInv, SessionTypes
  <2>7. /\ {Cardinality(Tracked), Cardinality(Counting), Cardinality(Counted), Cardinality(Lowering)}
              \subseteq Nat
        /\ Cardinality(Counted) <= Cardinality(Counting)
    BY CountedSets DEF SessionInv
  <2>8. active = Cardinality(Tracked) + Cardinality(Counting) + Cardinality(Lowering)
        /\ Cardinality(Tracked) + Cardinality(Counted) <= MaxSessions
    BY DEF SessionInv, CountInv
  <2>9. active' = Cardinality(Tracked') + Cardinality(Counting') + Cardinality(Lowering')
    BY <1>3, <1>4, <2>4, <2>5, <2>7, <2>8
  <2>10. CASE active >= MaxSessions
    <3>1. Counted' = Counted  BY <1>1, <1>2, <2>10 DEF Counted
    <3>2. QED  BY <1>4, <2>8, <2>9, <3>1 DEF CountInv
  <2>11. CASE ~(active >= MaxSessions)
    <3>1. Counted' = Counted \cup {r}  BY <1>1, <1>2, <2>11 DEF Counted
    <3>2. Cardinality(Counted') = Cardinality(Counted) + 1  BY <2>1, <2>2, <3>1, AddOne
    <3>3. Cardinality(Tracked') + Cardinality(Counted') <= MaxSessions
      BY <1>4, <2>6, <2>7, <2>8, <2>11, <3>2
    <3>4. QED  BY <2>9, <3>3 DEF CountInv
  <2>12. QED  BY <2>10, <2>11
<1> HIDE DEF to
<1>11. LeavingInv'
  <2>1. \A x \in Requests : req'[x].phase = "closing" => req'[x] = req[x]  BY <1>1, <1>2, <1>8
  <2>2. \A x \in Requests : req[x].phase = "rejected" => req'[x] = req[x]  BY <1>1, <1>2
  <2>3. QED  BY <1>3, <1>4, <1>9, <2>1, <2>2 DEF SessionInv, LeavingInv
<1>12. NoOrphanSession'
  <2>1. inner \subseteq Requests  BY DEF SessionInv, SessionTypes
  <2>2. QED  BY <1>1, <1>2, <1>3, <1>4, <1>8, <2>1 DEF SessionInv, NoOrphanSession
<1>13. SlotsAreAccounted'  BY <1>1, <1>2, <1>3, SlotKeep DEF SessionInv
<1>14. ChargeInv'
  <2>1. \A x \in Requests : x \in Known' => x \in Known  BY <1>1, <1>2 DEF Known
  <2>2. \A s \in Requests : Live(s)' <=> Live(s)  BY <1>3, <1>4 DEF Live
  <2>3. QED  BY <1>1, <1>2, <1>3, <1>4, <1>8, <1>9, <2>1, <2>2 DEF SessionInv, ChargeInv
<1>15. QED  BY <1>4, <1>5, <1>7, <1>10, <1>11, <1>12, <1>13, <1>14 DEF SessionInv

\* try_register enters the session, and its service task starts.
LEMMA TrackInv ==
    ASSUME RequestTypes, SessionInv, NEW r \in Requests, TrackSession(r)
    PROVE  SessionInv'
<1>1. /\ Fits(r) /\ req'[r].phase = "registered" /\ req'[r].reserved = req[r].reserved
      /\ req'[r].named = req[r].named /\ ~req[r].named /\ req[r].phase = "counted"
  <2>1. Goes(r, "registered") /\ req[r].phase = "counted"  BY DEF TrackSession, At
  <2>2. "registered" \in Phases  BY DEF Phases
  <2>3. QED  BY <2>1, <2>2, RouteFits DEF Route, SessionInv
<1>2. \A x \in Requests : x # r => req'[x] = req[x]  BY <1>1 DEF Fits
<1>3. /\ workers' = workers \cup {r} /\ activity' = [activity EXCEPT ![r].tracked = TRUE]
      /\ UNCHANGED <<limits, tokens, active, inner, leaving, expired>>
  BY DEF TrackSession
<1>4. activity' \in [Requests -> Activity] /\ Tracked' = Tracked \cup {r}
  <2> DEFINE n == [activity[r] EXCEPT !.tracked = TRUE]
  <2>1. activity \in [Requests -> Activity] /\ activity[r] \in Activity  BY DEF SessionInv, SessionTypes
  <2>2. n \in Activity /\ n.tracked  BY <2>1 DEF Activity
  <2>3. activity' = [activity EXCEPT ![r] = n]  BY <1>3, <2>1
  <2> HIDE DEF n
  <2>4. activity' \in [Requests -> Activity]  BY <2>1, <2>2, <2>3
  <2>5. activity'[r].tracked /\ \A x \in Requests : x # r => activity'[x] = activity[x]
    BY <2>1, <2>2, <2>3
  <2>6. QED  BY <2>4, <2>5 DEF Tracked
<1>5. SessionTypes'  BY <1>3, <1>4 DEF SessionInv, SessionTypes
<1>6. RequestInv'  BY <1>1, <1>3, FitsRequests DEF SessionInv
<1>7. Onward  BY <1>1, Forward DEF Onward
<1>8. Later(r)'  BY <1>1 DEF Later, Unsettled, Early
<1>9. OrderInv'  BY <1>3, <1>4, <1>5, <1>7, <1>8, OrderKeep DEF SessionInv
<1>10. r \notin Tracked /\ \A l \in leaving : l.id # r /\ l.id \in Requests
  BY <1>1 DEF SessionInv, OrderInv, Later, Unsettled, SessionTypes, Leaver
<1>11. CountInv'
  <2>1. IsFiniteSet(Counting) /\ IsFiniteSet(Counted) /\ IsFiniteSet(Tracked)
    BY CountedSets DEF SessionInv
  <2>2. r \in Counting /\ r \in Counted  BY <1>1 DEF Counting, Counted
  <2>3. Counting' = Counting \ {r} /\ Counted' = Counted \ {r}  BY <1>1, <1>2 DEF Counting, Counted
  <2>4. Lowering' = Lowering  BY <1>3 DEF Lowering
  <2>5. /\ Cardinality(Tracked') = Cardinality(Tracked) + 1 /\ Cardinality(Tracked) \in Nat
        /\ Cardinality(Counting) = Cardinality(Counting') + 1 /\ Cardinality(Counting') \in Nat
        /\ Cardinality(Counted) = Cardinality(Counted') + 1 /\ Cardinality(Counted') \in Nat
    BY <1>4, <1>10, <2>1, <2>2, <2>3, AddOne, DropOne
  <2>6. Cardinality(Lowering) \in Nat  BY CountedSets DEF SessionInv
  <2>7. QED  BY <1>3, <2>4, <2>5, <2>6, LimitsAssumption DEF SessionInv, CountInv
<1>12. LeavingInv'
  <2>1. \A x \in Requests : req'[x].phase = "closing" => req'[x] = req[x]  BY <1>1, <1>2
  <2>2. \A x \in Requests : req[x].phase = "rejected" => req'[x] = req[x]  BY <1>1, <1>2
  <2>3. QED  BY <1>3, <1>4, <1>10, <2>1, <2>2 DEF SessionInv, LeavingInv
<1>13. NoOrphanSession'
  <2>1. inner \subseteq Requests  BY DEF SessionInv, SessionTypes
  <2>2. QED  BY <1>1, <1>2, <1>3, <1>4, <2>1 DEF SessionInv, NoOrphanSession
<1>14. SlotsAreAccounted'  BY <1>1, <1>2, <1>3, SlotKeep DEF SessionInv
<1>15. ChargeInv'
  <2>1. \A x \in Requests : x \in Known' => x \in Known /\ x # r  BY <1>1, <1>2 DEF Known
  <2>2. \A s \in Requests : (Live(s) => Live(s)') /\ Live(r)'  BY <1>3, <1>4 DEF Live
  <2>3. QED  BY <1>1, <1>2, <1>3, <1>4, <2>1, <2>2 DEF SessionInv, ChargeInv
<1>16. QED  BY <1>5, <1>6, <1>9, <1>11, <1>12, <1>13, <1>14, <1>15 DEF SessionInv

\* try_register over the cap takes its count back and unregisters.
LEMMA RollBackInv ==
    ASSUME RequestTypes, SessionInv, NEW r \in Requests, RollBackCount(r)
    PROVE  SessionInv'
<1> DEFINE e == [who |-> r, id |-> r, at |-> "entry"]
<1>1. /\ Fits(r) /\ req'[r].phase = "rejected" /\ req'[r].reserved = req[r].reserved
      /\ req'[r].named = req[r].named /\ ~req[r].named /\ req[r].phase = "overcap"
  <2>1. Goes(r, "rejected") /\ req[r].phase = "overcap"  BY DEF RollBackCount, At
  <2>2. "rejected" \in Phases  BY DEF Phases
  <2>3. QED  BY <2>1, <2>2, RouteFits DEF Route, SessionInv
<1>2. \A x \in Requests : x # r => req'[x] = req[x]  BY <1>1 DEF Fits
<1>3. /\ active' = active - 1 /\ leaving' = leaving \cup {e}
      /\ UNCHANGED <<limits, tokens, activity, inner, workers, expired>> /\ Tracked' = Tracked
  BY DEF RollBackCount, Tracked
<1>4. e \in Leaver /\ e.who = r /\ e.id = r /\ e.at = "entry"  BY DEF Leaver
<1> HIDE DEF e
<1>5. /\ leaving' \subseteq Leaver /\ IsFiniteSet(leaving')
      /\ \A l \in leaving \cup leaving' : l.at = "count" => l \in leaving \cap leaving'
      /\ \A s : Live(s)' <=> Live(s)
  BY <1>3, <1>4, EntryAdded DEF SessionInv
<1>6. r \notin Tracked /\ \A l \in leaving : l.id # r /\ l.id \in Requests
  BY <1>1 DEF SessionInv, OrderInv, Later, Unsettled, SessionTypes, Leaver
<1>7. CountInv' /\ active' \in Nat
  <2>1. IsFiniteSet(Counting)  BY CountedSets DEF SessionInv
  <2>2. r \in Counting  BY <1>1 DEF Counting
  <2>3. Counting' = Counting \ {r} /\ Counted' = Counted  BY <1>1, <1>2 DEF Counting, Counted
  <2>4. Lowering' = Lowering  BY <1>5 DEF Lowering
  <2>5. Cardinality(Counting) = Cardinality(Counting') + 1 /\ Cardinality(Counting') \in Nat
    BY <2>1, <2>2, <2>3, DropOne
  <2>6. Cardinality(Lowering) \in Nat /\ Cardinality(Tracked) \in Nat  BY CountedSets DEF SessionInv
  <2>7. active = Cardinality(Tracked) + Cardinality(Counting) + Cardinality(Lowering)
        /\ Cardinality(Tracked) + Cardinality(Counted) <= MaxSessions
    BY DEF SessionInv, CountInv
  <2>8. active' = Cardinality(Tracked') + Cardinality(Counting') + Cardinality(Lowering')
    BY <1>3, <2>4, <2>5, <2>6, <2>7
  <2>9. active' \in Nat  BY <1>3, <2>4, <2>5, <2>6, <2>8
  <2>10. QED  BY <1>3, <2>3, <2>7, <2>8, <2>9 DEF CountInv
<1>8. SessionTypes'  BY <1>3, <1>5, <1>7 DEF SessionInv, SessionTypes
<1>9. RequestInv'  BY <1>1, <1>3, FitsRequests DEF SessionInv
<1>10. Onward  BY <1>1, Forward DEF Onward
<1>11. Later(r)'  BY <1>1 DEF Later, Unsettled, Early
<1>12. OrderInv'  BY <1>3, <1>4, <1>8, <1>10, <1>11, OrderKeep DEF SessionInv
<1>13. LeavingInv'
  <2>1. \A x \in Requests : req'[x].phase = "closing" => req'[x] = req[x]  BY <1>1, <1>2
  <2>2. \A x \in Requests : req[x].phase = "rejected" => req'[x] = req[x]  BY <1>1, <1>2
  <2>3. QED  BY <1>1, <1>3, <1>4, <1>6, <2>1, <2>2 DEF SessionInv, LeavingInv
<1>14. NoOrphanSession'
  <2>1. inner \subseteq Requests  BY DEF SessionInv, SessionTypes
  <2>2. QED  BY <1>1, <1>2, <1>3, <2>1 DEF SessionInv, NoOrphanSession
<1>15. SlotsAreAccounted'  BY <1>1, <1>2, <1>3, SlotKeep DEF SessionInv
<1>16. ChargeInv'
  <2>1. \A x \in Requests : x \in Known' => x \in Known  BY <1>1, <1>2 DEF Known
  <2>2. QED  BY <1>1, <1>2, <1>3, <1>5, <1>6, <2>1 DEF SessionInv, ChargeInv
<1>17. QED  BY <1>7, <1>8, <1>9, <1>12, <1>13, <1>14, <1>15, <1>16 DEF SessionInv

\* A step that moves one request, adds at most one leaver that has yet to begin,
\* and leaves the counters alone.
LEMMA SpawnInv ==
    ASSUME RequestTypes, SessionInv, NEW r \in Requests, Fits(r), NEW e \in Leaver,
           e.at \in {"entry", "inner"}, Later(e.id)', leaving' = leaving \cup {e},
           UNCHANGED <<limits, tokens, active, activity, inner, workers, expired>>,
           req'[r].phase \notin Special, req[r].phase \in {"rejected", "closing"},
           req'[r].reserved = req[r].reserved, ~req[r].named, ~req'[r].named,
           e.at = "entry" => e.id \notin inner,
           req[r].phase = "rejected" => Finished(r) /\ e.id = r /\ e.at = "inner"
    PROVE  SessionInv'
<1>1. Tracked' = Tracked  BY DEF Tracked
<1>2. \A x \in Requests : x # r => req'[x] = req[x]  BY DEF Fits
<1>3. /\ leaving' \subseteq Leaver /\ IsFiniteSet(leaving')
      /\ \A l \in leaving \cup leaving' : l.at = "count" => l \in leaving \cap leaving'
      /\ \A s : Live(s)' <=> Live(s)
  BY <1>1, EntryAdded DEF SessionInv
<1>4. SessionTypes'  BY <1>3 DEF SessionInv, SessionTypes
<1>5. RequestInv'  BY FitsRequests DEF SessionInv
<1>6. Onward  BY Forward DEF Onward
<1>7. OrderInv'  BY <1>1, <1>4, <1>6, OrderKeep DEF SessionInv
<1>8. \A l \in leaving : l.id \in Requests  BY DEF SessionInv, SessionTypes, Leaver
<1>9. LeavingInv'
  <2>1. \A x \in Requests : req'[x].phase = "closing" => req'[x] = req[x]  BY <1>2 DEF Special
  <2>2. ASSUME NEW l \in leaving, req[l.id].phase = "rejected", l.who = l.id PROVE req'[l.id] = req[l.id]
    BY <1>2, <1>8, <2>2 DEF Finished
  <2>3. \A l \in leaving : l.at = "entry" => \/ l.id \notin inner
                                             \/ req'[l.id].phase = "rejected" /\ l.who = l.id
    BY <2>2 DEF SessionInv, LeavingInv
  <2>4. QED  BY <1>1, <2>1, <2>3 DEF SessionInv, LeavingInv
<1>10. NoOrphanSession'
  <2>1. inner \subseteq Requests  BY DEF SessionInv, SessionTypes
  <2>2. QED  BY <1>1, <1>2, <2>1 DEF SessionInv, NoOrphanSession
<1>11. CountInv'  BY <1>1, <1>2, <1>3, CountKeep DEF SessionInv, Special
<1>12. SlotsAreAccounted'  BY <1>2, SlotKeep DEF SessionInv
<1>13. ChargeInv'
  <2>1. \A x \in Requests : x \in Known' => x \in Known  BY <1>2 DEF Known
  <2>2. QED  BY <1>1, <1>2, <1>3, <2>1 DEF SessionInv, ChargeInv, Special
<1>14. QED  BY <1>4, <1>5, <1>7, <1>9, <1>10, <1>11, <1>12, <1>13 DEF SessionInv

LEMMA CleanupInv ==
    ASSUME RequestTypes, SessionInv, NEW r \in Requests, SpawnCleanup(r)
    PROVE  SessionInv'
<1> DEFINE e == [who |-> r, id |-> r, at |-> "inner"]
<1>1. /\ Fits(r) /\ req'[r].phase = "cleaning" /\ req'[r].reserved = req[r].reserved
      /\ req'[r].named = req[r].named /\ ~req[r].named /\ req[r].phase = "rejected"
  <2>1. Goes(r, "cleaning") /\ req[r].phase = "rejected"  BY DEF SpawnCleanup, At
  <2>2. "cleaning" \in Phases  BY DEF Phases
  <2>3. QED  BY <2>1, <2>2, RouteFits DEF Route, SessionInv
<1>2. /\ Finished(r) /\ leaving' = leaving \cup {e}
      /\ UNCHANGED <<limits, tokens, active, activity, inner, workers, expired>>
  BY DEF SpawnCleanup
<1>3. e \in Leaver /\ e.id = r /\ e.at = "inner"  BY DEF Leaver
<1> HIDE DEF e
<1>4. Later(e.id)'  BY <1>1, <1>3 DEF Later, Unsettled, Early
<1>5. req'[r].phase \notin Special  BY <1>1 DEF Special
<1>6. QED  BY <1>1, <1>2, <1>3, <1>4, <1>5, SpawnInv

LEMMA UnregisterInv ==
    ASSUME RequestTypes, SessionInv, NEW r \in Requests, UnregisterClosed(r)
    PROVE  SessionInv'
<1>1. /\ Fits(r) /\ req'[r].phase = "unregistering" /\ req'[r].reserved = req[r].reserved
      /\ req'[r].named = req[r].named /\ ~req[r].named /\ req[r].phase = "closing"
  <2>1. Goes(r, "unregistering") /\ req[r].phase = "closing"  BY DEF UnregisterClosed, At
  <2>2. "unregistering" \in Phases  BY DEF Phases
  <2>3. QED  BY <2>1, <2>2, RouteFits DEF Route, SessionInv
<1>2. PICK s \in Requests : s = req[r].about /\ Later(s) /\ s \notin inner
  BY <1>1 DEF SessionInv, RequestInv, RequestOK, AboutOK, LeavingInv
<1> DEFINE e == [who |-> r, id |-> s, at |-> "entry"]
<1>3. /\ leaving' = leaving \cup {e}
      /\ UNCHANGED <<limits, tokens, active, activity, inner, workers, expired>>
  BY <1>2 DEF UnregisterClosed
<1>4. e \in Leaver /\ e.id = s /\ e.at = "entry"  BY <1>2 DEF Leaver
<1> HIDE DEF e
<1>5. Later(e.id)'  BY <1>1, <1>2, <1>4, Forward DEF Later
<1>6. req'[r].phase \notin Special  BY <1>1 DEF Special
<1>7. QED  BY <1>1, <1>2, <1>3, <1>4, <1>5, <1>6, SpawnInv

\* close_session: the inner manager first.
LEMMA CloseInnerInv ==
    ASSUME RequestTypes, SessionInv, NEW r \in Requests, CloseInner(r)
    PROVE  SessionInv'
<1>1. /\ Fits(r) /\ req'[r].phase = "closing" /\ req'[r].reserved = req[r].reserved
      /\ req'[r].named = req[r].named /\ req'[r].about = req[r].about /\ ~req[r].named
      /\ req[r].phase = "handler"
  <2>1. Goes(r, "closing") /\ req[r].phase = "handler" /\ req[r].kind = "delete"  BY DEF CloseInner, At
  <2>2. "closing" \in Phases  BY DEF Phases
  <2>3. QED  BY <2>1, <2>2, RouteFits DEF Route, SessionInv
<1>2. \A x \in Requests : x # r => req'[x] = req[x]  BY <1>1 DEF Fits
<1>3. /\ inner' = inner \ {req[r].about} /\ Tracked' = Tracked
      /\ UNCHANGED <<limits, tokens, active, activity, workers, leaving, expired>>
  BY DEF CloseInner, Tracked
<1>4. SessionTypes'  BY <1>3 DEF SessionInv, SessionTypes
<1>5. RequestInv'  BY <1>1, <1>3, FitsRequests DEF SessionInv
<1>6. Onward  BY <1>1, Forward DEF Onward
<1>7. OrderInv'  BY <1>3, <1>4, <1>6, OrderKeep DEF SessionInv
<1>8. \A l \in leaving : l.id \in Requests  BY DEF SessionInv, SessionTypes, Leaver
<1>9. LeavingInv'
  <2>1. \A x \in Requests : req[x].phase = "rejected" => req'[x] = req[x]  BY <1>1, <1>2
  <2>2. \A x \in Requests : req'[x].phase = "closing" => req'[x].about \notin inner'
    BY <1>1, <1>2, <1>3 DEF SessionInv, LeavingInv
  <2>3. QED  BY <1>3, <1>8, <2>1, <2>2 DEF SessionInv, LeavingInv
<1>10. NoOrphanSession'
  <2>1. inner \subseteq Requests  BY DEF SessionInv, SessionTypes
  <2>2. QED  BY <1>1, <1>2, <1>3, <2>1 DEF SessionInv, NoOrphanSession
<1>11. CountInv'  BY <1>1, <1>2, <1>3, CountKeep DEF SessionInv
<1>12. SlotsAreAccounted'  BY <1>1, <1>2, <1>3, SlotKeep DEF SessionInv
<1>13. ChargeInv'
  <2>1. \A x \in Requests : x \in Known' => x \in Known  BY <1>1, <1>2 DEF Known
  <2>2. \A s \in Requests : Live(s)' <=> Live(s)  BY <1>3 DEF Live
  <2>3. QED  BY <1>1, <1>2, <1>3, <2>1, <2>2 DEF SessionInv, ChargeInv
<1>14. QED  BY <1>4, <1>5, <1>7, <1>9, <1>10, <1>11, <1>12, <1>13 DEF SessionInv

\* initialize_session answers.
LEMMA InitializeInv ==
    ASSUME RequestTypes, SessionInv, NEW r \in Requests, NEW b \in BOOLEAN, AnswerInitialize(r, b)
    PROVE  SessionInv'
<1>1. /\ Fits(r) /\ req'[r].phase = "answered" /\ req'[r].reserved /\ req[r].reserved
      /\ req'[r].named = b /\ req[r].phase = "registered"
  <2>1. Answers(r, b) /\ req[r].phase = "registered"  BY DEF AnswerInitialize, At
  <2>2. QED  BY <2>1, InitializeFits DEF SessionInv
<1>2. \A x \in Requests : x # r => req'[x] = req[x]  BY <1>1 DEF Fits
<1>3. activity' = Touched(r) /\ UNCHANGED <<limits, tokens, active, inner, workers, leaving, expired>>
  BY DEF AnswerInitialize
<1>4. activity' \in [Requests -> Activity] /\ Tracked' = Tracked  BY <1>3, TouchTypes DEF SessionInv
<1>5. SessionTypes'  BY <1>3, <1>4 DEF SessionInv, SessionTypes
<1>6. RequestInv'  BY <1>1, <1>3, FitsRequests DEF SessionInv
<1>7. Onward  BY <1>1, Forward DEF Onward
<1>8. OrderInv'  BY <1>3, <1>4, <1>5, <1>7, OrderKeep DEF SessionInv
<1>9. \A l \in leaving : l.id \in Requests  BY DEF SessionInv, SessionTypes, Leaver
<1>10. LeavingInv'
  <2>1. \A x \in Requests : req[x].phase = "rejected" => req'[x] = req[x]  BY <1>1, <1>2
  <2>2. \A x \in Requests : req'[x].phase = "closing" => req'[x] = req[x]  BY <1>1, <1>2
  <2>3. QED  BY <1>3, <1>4, <1>9, <2>1, <2>2 DEF SessionInv, LeavingInv
<1>11. NoOrphanSession'
  <2>1. inner \subseteq Requests  BY DEF SessionInv, SessionTypes
  <2>2. QED  BY <1>1, <1>2, <1>3, <1>4, <2>1 DEF SessionInv, NoOrphanSession
<1>12. CountInv'  BY <1>1, <1>2, <1>3, <1>4, CountKeep DEF SessionInv
<1>13. SlotsAreAccounted'
  <2>1. req[r].reserved = req'[r].reserved
    BY <1>1 DEF Fits, Request, RequestTypes
  <2>2. QED  BY <1>1, <1>2, <1>3, <2>1, SlotKeep DEF SessionInv
<1>14. ChargeInv'
  <2>1. \A x \in Requests : x \in Known' => x \in Known  BY <1>1, <1>2 DEF Known
  <2>2. \A s \in Requests : Live(s)' <=> Live(s)  BY <1>3, <1>4 DEF Live
  <2>3. QED  BY <1>1, <1>2, <1>3, <1>4, <2>1, <2>2 DEF SessionInv, ChargeInv
<1>15. QED  BY <1>5, <1>6, <1>8, <1>10, <1>11, <1>12, <1>13, <1>14 DEF SessionInv

-----------------------------------------------------------------------------
(* Sessions: the slots of a token *)

Less(counts, t) == [counts EXCEPT ![t] = IF @ = 0 THEN 0 ELSE @ - 1]

LEMMA Decremented ==
    ASSUME NEW state \in TokenState, NEW t \in Tokens
    PROVE  LET n == DecrementToken(state, t) IN
           /\ n \in TokenState /\ n.counts = Less(state.counts, t) /\ n.sessions = state.sessions
           /\ n.pending = state.pending /\ n.unbound = state.unbound /\ n.closedEarly = state.closedEarly
<1> DEFINE n == [state EXCEPT !.counts = Less(state.counts, t)]
<1>1. state.counts \in [Tokens -> Nat]  BY DEF TokenState
<1>2. Less(state.counts, t) \in [Tokens -> Nat]
  <2>1. (IF state.counts[t] = 0 THEN 0 ELSE state.counts[t] - 1) \in Nat
    <3>1. state.counts[t] \in Nat  BY <1>1
    <3>2. QED  BY <3>1
  <2>2. QED  BY <1>1, <2>1 DEF Less
<1>3. DecrementToken(state, t) = n  BY DEF DecrementToken, Less
<1>4. n \in TokenState  BY <1>2 DEF TokenState
<1>5. /\ n.counts = Less(state.counts, t) /\ n.sessions = state.sessions
      /\ n.pending = state.pending /\ n.unbound = state.unbound /\ n.closedEarly = state.closedEarly
  BY DEF TokenState
<1>6. QED  BY <1>3, <1>4, <1>5

LEMMA Completed ==
    ASSUME NEW state \in TokenState, state.pending > 0
    PROVE  LET n == CompletePending(state) IN
           /\ n \in TokenState /\ n.counts = state.counts /\ n.sessions = state.sessions
           /\ n.pending = state.pending - 1
           /\ n.unbound = IF state.pending = 1 THEN {} ELSE state.unbound
           /\ n.closedEarly = IF state.pending = 1 THEN {} ELSE state.closedEarly
<1> DEFINE u == IF state.pending = 1 THEN {} ELSE state.unbound
           e == IF state.pending = 1 THEN {} ELSE state.closedEarly
           p == state.pending - 1
           n == [state EXCEPT !.pending = p, !.unbound = u, !.closedEarly = e]
<1>1. state.pending \in Nat  BY DEF TokenState
<1>2. p \in Nat  BY <1>1
<1>3. u \in SUBSET Requests /\ e \in SUBSET Requests  BY DEF TokenState
<1>4. CompletePending(state) = n  BY DEF CompletePending
<1> HIDE DEF u, e, p
<1>5. n \in TokenState  BY <1>2, <1>3 DEF TokenState
<1>6. /\ n.counts = state.counts /\ n.sessions = state.sessions /\ n.pending = p
      /\ n.unbound = u /\ n.closedEarly = e
  BY DEF TokenState
<1>7. QED  BY <1>4, <1>5, <1>6 DEF u, e, p

\* A reservation is given back.
LEMMA Dropped ==
    ASSUME NEW state \in TokenState, state.pending > 0, NEW r \in Requests
    PROVE  LET n == DropReservation(state, r) IN
           /\ n \in TokenState /\ n.counts = Less(state.counts, TokenOf[r])
           /\ n.sessions = state.sessions /\ n.pending = state.pending - 1
           /\ n.unbound = IF state.pending = 1 THEN {} ELSE state.unbound
           /\ n.closedEarly = IF state.pending = 1 THEN {} ELSE state.closedEarly
<1> DEFINE d == DecrementToken(state, TokenOf[r])
<1>1. TokenOf[r] \in Tokens  BY NamesAssumption
<1>2. /\ d \in TokenState /\ d.counts = Less(state.counts, TokenOf[r]) /\ d.sessions = state.sessions
      /\ d.pending = state.pending /\ d.unbound = state.unbound /\ d.closedEarly = state.closedEarly
  BY <1>1, Decremented
<1> HIDE DEF d
<1>3. LET n == CompletePending(d) IN
           /\ n \in TokenState /\ n.counts = d.counts /\ n.sessions = d.sessions
           /\ n.pending = d.pending - 1
           /\ n.unbound = IF d.pending = 1 THEN {} ELSE d.unbound
           /\ n.closedEarly = IF d.pending = 1 THEN {} ELSE d.closedEarly
  BY <1>2, Completed
<1>4. QED  BY <1>2, <1>3 DEF DropReservation, d

\* A commit binds the session, or gives the reservation back.
LEMMA Committed ==
    ASSUME NEW state \in TokenState, state.pending > 0, NEW r \in Requests
    PROVE  LET n == Commit(state, r)
               binds == state.sessions[r] = None /\ r \notin state.closedEarly /\ r \in state.unbound IN
           /\ n \in TokenState /\ n.pending = state.pending - 1
           /\ n.unbound \subseteq state.unbound /\ n.closedEarly \subseteq state.closedEarly
           /\ state.pending # 1 => state.unbound \ {r} \subseteq n.unbound
           /\ binds => /\ n.counts = state.counts /\ r \notin n.unbound
                       /\ n.sessions = [state.sessions EXCEPT ![r] = TokenOf[r]]
           /\ ~binds => n.counts = Less(state.counts, TokenOf[r]) /\ n.sessions = state.sessions
<1> DEFINE n == Commit(state, r)
           binds == state.sessions[r] = None /\ r \notin state.closedEarly /\ r \in state.unbound
           a == [state EXCEPT !.closedEarly = @ \ {r}]
           b == [state EXCEPT !.sessions[r] = TokenOf[r], !.unbound = @ \ {r}]
<1>1. TokenOf[r] \in Tokens /\ None \notin Tokens  BY NamesAssumption
<1>2. /\ a \in TokenState /\ a.counts = state.counts /\ a.sessions = state.sessions
      /\ a.pending = state.pending /\ a.unbound = state.unbound
      /\ a.closedEarly = state.closedEarly \ {r}
  BY DEF TokenState
<1>3. /\ b.counts = state.counts /\ b.sessions = [state.sessions EXCEPT ![r] = TokenOf[r]]
      /\ b.pending = state.pending /\ b.unbound = state.unbound \ {r}
      /\ b.closedEarly = state.closedEarly
  BY DEF TokenState
<1>4. b \in TokenState
  <2>1. [state.sessions EXCEPT ![r] = TokenOf[r]] \in [Requests -> Tokens \cup {None}]
    BY <1>1 DEF TokenState
  <2>2. state.unbound \ {r} \in SUBSET Requests  BY DEF TokenState
  <2>3. b = [state EXCEPT !.sessions = [state.sessions EXCEPT ![r] = TokenOf[r]],
                          !.unbound = state.unbound \ {r}]
    OBVIOUS
  <2>4. QED  BY <2>1, <2>2, <2>3 DEF TokenState
<1>5. CASE binds
  <2>1. n = CompletePending(b)  BY <1>1, <1>5 DEF Commit
  <2> HIDE DEF b, n
  <2>2. /\ n \in TokenState /\ n.counts = b.counts /\ n.sessions = b.sessions
        /\ n.pending = b.pending - 1
        /\ n.unbound = IF b.pending = 1 THEN {} ELSE b.unbound
        /\ n.closedEarly = IF b.pending = 1 THEN {} ELSE b.closedEarly
    BY <1>3, <1>4, <2>1, Completed
  <2>3. QED  BY <1>3, <1>5, <2>2 DEF n
<1>6. ASSUME ~binds, NEW m \in {state, a}, n = DropReservation(m, r)
      PROVE  /\ n \in TokenState /\ n.pending = state.pending - 1
             /\ n.unbound \subseteq state.unbound /\ n.closedEarly \subseteq state.closedEarly
             /\ state.pending # 1 => state.unbound \ {r} \subseteq n.unbound
             /\ n.counts = Less(state.counts, TokenOf[r]) /\ n.sessions = state.sessions
  <2> HIDE DEF n, a
  <2>1. /\ m \in TokenState /\ m.pending = state.pending /\ m.counts = state.counts
        /\ m.sessions = state.sessions /\ m.unbound = state.unbound
        /\ m.closedEarly \subseteq state.closedEarly
    BY <1>2, <1>6
  <2>2. /\ n \in TokenState /\ n.counts = Less(m.counts, TokenOf[r])
        /\ n.sessions = m.sessions /\ n.pending = m.pending - 1
        /\ n.unbound = IF m.pending = 1 THEN {} ELSE m.unbound
        /\ n.closedEarly = IF m.pending = 1 THEN {} ELSE m.closedEarly
    BY <1>6, <2>1, Dropped
  <2>3. QED  BY <2>1, <2>2
<1>7. CASE ~binds
  <2>1. n = DropReservation(state, r) \/ n = DropReservation(a, r)
    <3>1. CASE state.sessions[r] # None  BY <3>1 DEF Commit
    <3>2. CASE state.sessions[r] = None
      <4>1. r \in state.closedEarly \/ r \notin state.unbound  BY <1>7, <3>2
      <4>2. QED  BY <3>2, <4>1 DEF Commit
    <3>3. QED  BY <3>1, <3>2
  <2> HIDE DEF n, a
  <2>2. QED  BY <1>6, <1>7, <2>1 DEF n
<1>8. QED  BY <1>5, <1>7

\* The token part of unregistering s.
LEMMA ReleasedState ==
    ASSUME NEW state \in TokenState, NEW s \in Requests
    PROVE  LET n == Released(state, s) IN
           /\ n \in TokenState /\ n.pending = state.pending
           /\ state.sessions[s] # None =>
                 /\ n.counts = Less(state.counts, state.sessions[s])
                 /\ n.sessions = [state.sessions EXCEPT ![s] = None]
                 /\ n.unbound = state.unbound /\ n.closedEarly = state.closedEarly
           /\ state.sessions[s] = None =>
                 /\ n.counts = state.counts /\ n.sessions = state.sessions
                 /\ n.unbound = state.unbound \ {s}
                 /\ n.closedEarly \subseteq state.closedEarly \cup {s}
                 /\ s \in n.closedEarly => s \in state.closedEarly \cup state.unbound
<1> DEFINE n == Released(state, s)
           m == [state EXCEPT !.sessions[s] = None]
           u == [state EXCEPT !.unbound = @ \ {s}, !.closedEarly = @ \cup {s}]
<1>1. CASE state.sessions[s] # None
  <2>1. state.sessions[s] \in Tokens  BY <1>1 DEF TokenState
  <2>2. [state.sessions EXCEPT ![s] = None] \in [Requests -> Tokens \cup {None}]  BY DEF TokenState
  <2>3. m = [state EXCEPT !.sessions = [state.sessions EXCEPT ![s] = None]]  OBVIOUS
  <2>4. m \in TokenState  BY <2>2, <2>3 DEF TokenState
  <2>5. /\ m.counts = state.counts /\ m.sessions = [state.sessions EXCEPT ![s] = None]
        /\ m.pending = state.pending /\ m.unbound = state.unbound /\ m.closedEarly = state.closedEarly
    BY DEF TokenState
  <2>6. n = DecrementToken(m, state.sessions[s])  BY <1>1 DEF Released
  <2> HIDE DEF m, n
  <2>7. /\ n \in TokenState /\ n.counts = Less(m.counts, state.sessions[s]) /\ n.sessions = m.sessions
        /\ n.pending = m.pending /\ n.unbound = m.unbound /\ n.closedEarly = m.closedEarly
    BY <2>1, <2>4, <2>6, Decremented
  <2>8. QED  BY <1>1, <2>5, <2>7 DEF n
<1>2. CASE state.sessions[s] = None /\ s \in state.unbound
  <2>1. n = u  BY <1>2 DEF Released
  <2>2. u \in TokenState
    <3>1. state.unbound \ {s} \in SUBSET Requests /\ state.closedEarly \cup {s} \in SUBSET Requests
      BY DEF TokenState
    <3>2. QED  BY <3>1 DEF TokenState
  <2>3. /\ u.counts = state.counts /\ u.sessions = state.sessions /\ u.pending = state.pending
        /\ u.unbound = state.unbound \ {s} /\ u.closedEarly = state.closedEarly \cup {s}
    BY DEF TokenState
  <2> HIDE DEF u, n
  <2>4. QED  BY <1>2, <2>1, <2>2, <2>3 DEF n
<1>3. CASE state.sessions[s] = None /\ s \notin state.unbound
  <2>1. n = state  BY <1>3 DEF Released
  <2> HIDE DEF n
  <2>2. QED  BY <1>3, <2>1 DEF n
<1>4. QED  BY <1>1, <1>2, <1>3

LEMMA SlotSets ==
    ASSUME NEW t
    PROVE  /\ IsFiniteSet({x \in Requests : req[x].reserved})
           /\ IsFiniteSet(BoundTo(t)) /\ IsFiniteSet(ReservedBy(t))
           /\ Cardinality(BoundTo(t)) \in Nat /\ Cardinality(ReservedBy(t)) \in Nat
           /\ Cardinality({x \in Requests : req[x].reserved}) \in Nat
<1>1. /\ IsFiniteSet({x \in Requests : req[x].reserved})
      /\ IsFiniteSet(BoundTo(t)) /\ IsFiniteSet(ReservedBy(t))
  BY NamesAssumption, FS_Subset DEF BoundTo, ReservedBy
<1>2. QED  BY <1>1, FS_CardinalityType

\* While only one reservation is pending, it is the reservation at hand.
LEMMA OnlyOne ==
    ASSUME SlotsAreAccounted, tokens.pending = 1, NEW r \in Requests, NEW s \in Requests,
           req[r].reserved, req[s].reserved
    PROVE  r = s
<1> DEFINE S == {x \in Requests : req[x].reserved}
<1>1. IsFiniteSet(S) /\ Cardinality(S) = 1  BY SlotSets DEF SlotsAreAccounted
<1>2. r \in S /\ s \in S  OBVIOUS
<1> HIDE DEF S
<1>3. Cardinality(S \ {r}) = 0 /\ IsFiniteSet(S \ {r})
  <2>1. Cardinality(S \ {r}) \in Nat /\ Cardinality(S) = Cardinality(S \ {r}) + 1  BY <1>1, <1>2, DropOne
  <2>2. IsFiniteSet(S \ {r})  BY <1>1, FS_Subset
  <2>3. QED  BY <1>1, <2>1, <2>2
<1>4. S \ {r} = {}  BY <1>3, FS_EmptySet
<1>5. QED  BY <1>2, <1>4

\* try_reserve_token takes a slot.
LEMMA SlotTaken ==
    ASSUME SessionTypes, SlotsAreAccounted, NEW r \in Requests, ~req[r].reserved, req'[r].reserved,
           \A x \in Requests : x # r => req'[x] = req[x],
           tokens.counts[TokenOf[r]] < MaxSessionsPerToken,
           tokens'.counts = [tokens.counts EXCEPT ![TokenOf[r]] = @ + 1],
           tokens'.pending = tokens.pending + 1, tokens'.sessions = tokens.sessions
    PROVE  SlotsAreAccounted'
<1> DEFINE S == {x \in Requests : req[x].reserved}
<1>1. {x \in Requests : req'[x].reserved} = S \cup {r} /\ r \notin S  OBVIOUS
<1>2. Cardinality(S \cup {r}) = Cardinality(S) + 1 /\ Cardinality(S) \in Nat
  BY <1>1, SlotSets, AddOne
<1>3. tokens'.pending = Cardinality({x \in Requests : req'[x].reserved})
  BY <1>1, <1>2 DEF SlotsAreAccounted
<1>4. ASSUME NEW t \in Tokens
      PROVE  /\ tokens'.counts[t] = Cardinality(BoundTo(t)') + Cardinality(ReservedBy(t)')
             /\ tokens'.counts[t] <= MaxSessionsPerToken
  <2>1. BoundTo(t)' = BoundTo(t)  BY DEF BoundTo
  <2>2. /\ tokens.counts[t] = Cardinality(BoundTo(t)) + Cardinality(ReservedBy(t))
        /\ tokens.counts[t] <= MaxSessionsPerToken
    BY <1>4 DEF SlotsAreAccounted
  <2>3. Cardinality(BoundTo(t)) \in Nat /\ Cardinality(ReservedBy(t)) \in Nat  BY SlotSets
  <2>4. tokens.counts \in [Tokens -> Nat] /\ MaxSessionsPerToken \in Nat
    BY LimitsAssumption DEF SessionTypes, TokenState
  <2>5. CASE t = TokenOf[r]
    <3>1. ReservedBy(t)' = ReservedBy(t) \cup {r} /\ r \notin ReservedBy(t)  BY <2>5 DEF ReservedBy
    <3>2. Cardinality(ReservedBy(t)') = Cardinality(ReservedBy(t)) + 1  BY <3>1, SlotSets, AddOne, ZenonT(60)
    <3>3. tokens'.counts[t] = tokens.counts[t] + 1  BY <2>4, <2>5
    <3>4. QED  BY <2>1, <2>2, <2>3, <2>4, <2>5, <3>2, <3>3
  <2>6. CASE t # TokenOf[r]
    <3>1. ReservedBy(t)' = ReservedBy(t)  BY <2>6 DEF ReservedBy
    <3>2. tokens'.counts[t] = tokens.counts[t]  BY <2>4, <2>6
    <3>3. QED  BY <2>1, <2>2, <3>1, <3>2
  <2>7. QED  BY <2>5, <2>6
<1>5. QED  BY <1>3, <1>4 DEF SlotsAreAccounted

\* A reservation ends: bound to its session, or given back.
LEMMA SlotSettled ==
    ASSUME SessionTypes, SlotsAreAccounted, NEW r \in Requests, req[r].reserved, ~req'[r].reserved,
           \A x \in Requests : x # r => req'[x] = req[x], tokens'.pending = tokens.pending - 1,
           \/ tokens'.counts = Less(tokens.counts, TokenOf[r]) /\ tokens'.sessions = tokens.sessions
           \/ /\ tokens.sessions[r] = None /\ tokens'.counts = tokens.counts
              /\ tokens'.sessions = [tokens.sessions EXCEPT ![r] = TokenOf[r]]
    PROVE  SlotsAreAccounted'
<1> DEFINE S == {x \in Requests : req[x].reserved}
<1>1. {x \in Requests : req'[x].reserved} = S \ {r} /\ r \in S  OBVIOUS
<1>2. Cardinality(S) = Cardinality(S \ {r}) + 1 /\ Cardinality(S \ {r}) \in Nat
  <2>1. IsFiniteSet(S)  BY SlotSets
  <2> HIDE DEF S
  <2>2. QED  BY <1>1, <2>1, DropOne
<1>3. tokens'.pending = Cardinality({x \in Requests : req'[x].reserved})
  <2>1. tokens.pending = Cardinality(S)  BY DEF SlotsAreAccounted
  <2> HIDE DEF S
  <2>2. tokens'.pending = Cardinality(S \ {r})  BY <1>2, <2>1
  <2>3. QED  BY <1>1, <2>2
<1>4. ASSUME NEW t \in Tokens
      PROVE  /\ tokens'.counts[t] = Cardinality(BoundTo(t)') + Cardinality(ReservedBy(t)')
             /\ tokens'.counts[t] <= MaxSessionsPerToken
  <2>1. tokens.counts \in [Tokens -> Nat] /\ tokens.sessions \in [Requests -> Tokens \cup {None}]
        /\ MaxSessionsPerToken \in Nat
    BY LimitsAssumption DEF SessionTypes, TokenState
  <2>2. /\ tokens.counts[t] = Cardinality(BoundTo(t)) + Cardinality(ReservedBy(t))
        /\ tokens.counts[t] <= MaxSessionsPerToken
    BY <1>4 DEF SlotsAreAccounted
  <2>3. Cardinality(BoundTo(t)) \in Nat /\ Cardinality(ReservedBy(t)) \in Nat  BY SlotSets
  <2>4. CASE t # TokenOf[r]
    <3>1. ReservedBy(t)' = ReservedBy(t)  BY <2>4 DEF ReservedBy
    <3>2. BoundTo(t)' = BoundTo(t)
      <4>1. CASE tokens'.sessions = tokens.sessions  BY <4>1 DEF BoundTo
      <4>2. CASE tokens.sessions[r] = None /\ tokens'.sessions = [tokens.sessions EXCEPT ![r] = TokenOf[r]]
        <5>1. t # None  BY <1>4, NamesAssumption
        <5>2. \A x \in Requests : tokens'.sessions[x] = t <=> tokens.sessions[x] = t
          BY <2>1, <2>4, <4>2, <5>1
        <5>3. QED  BY <5>2 DEF BoundTo
      <4>3. QED  BY <4>1, <4>2
    <3>3. tokens'.counts[t] = tokens.counts[t]  BY <2>1, <2>4 DEF Less
    <3>4. QED  BY <2>2, <3>1, <3>2, <3>3
  <2>5. CASE t = TokenOf[r]
    <3>1. ReservedBy(t)' = ReservedBy(t) \ {r} /\ r \in ReservedBy(t)  BY <2>5 DEF ReservedBy
    <3>2. Cardinality(ReservedBy(t)) = Cardinality(ReservedBy(t)') + 1 /\ Cardinality(ReservedBy(t)') \in Nat
      <4>1. PICK B : B = ReservedBy(t)  OBVIOUS
      <4>2. IsFiniteSet(B) /\ r \in B  BY <3>1, <4>1, SlotSets
      <4>3. Cardinality(B) = Cardinality(B \ {r}) + 1 /\ Cardinality(B \ {r}) \in Nat
        BY <4>2, DropOne
      <4>4. QED  BY <3>1, <4>1, <4>3
    <3>3. CASE tokens'.counts = Less(tokens.counts, TokenOf[r]) /\ tokens'.sessions = tokens.sessions
      <4>1. BoundTo(t)' = BoundTo(t)  BY <3>3 DEF BoundTo
      <4>2. tokens.counts[t] # 0  BY <2>2, <2>3, <3>2
      <4>3. tokens'.counts[t] = tokens.counts[t] - 1  BY <2>1, <2>5, <3>3, <4>2 DEF Less
      <4>4. QED  BY <2>1, <2>2, <2>3, <3>2, <4>1, <4>3
    <3>4. CASE /\ tokens.sessions[r] = None /\ tokens'.counts = tokens.counts
               /\ tokens'.sessions = [tokens.sessions EXCEPT ![r] = TokenOf[r]]
      <4>1. r \notin BoundTo(t)  BY <1>4, <3>4, NamesAssumption DEF BoundTo
      <4>2. BoundTo(t)' = BoundTo(t) \cup {r}  BY <2>1, <2>5, <3>4 DEF BoundTo
      <4>3. Cardinality(BoundTo(t)') = Cardinality(BoundTo(t)) + 1  BY <4>1, <4>2, SlotSets, AddOne
      <4>4. QED  BY <2>2, <2>3, <3>2, <3>4, <4>3
    <3>5. QED  BY <3>3, <3>4
  <2>6. QED  BY <2>4, <2>5
<1>5. QED  BY <1>3, <1>4 DEF SlotsAreAccounted

\* Unregistering a bound session frees its slot.
LEMMA SlotFreed ==
    ASSUME SessionTypes, SlotsAreAccounted, NEW s \in Requests, UNCHANGED req,
           tokens.sessions[s] # None, tokens'.pending = tokens.pending,
           tokens'.counts = Less(tokens.counts, tokens.sessions[s]),
           tokens'.sessions = [tokens.sessions EXCEPT ![s] = None]
    PROVE  SlotsAreAccounted'
<1>1. tokens'.pending = Cardinality({x \in Requests : req'[x].reserved})  BY DEF SlotsAreAccounted
<1>2. ASSUME NEW t \in Tokens
      PROVE  /\ tokens'.counts[t] = Cardinality(BoundTo(t)') + Cardinality(ReservedBy(t)')
             /\ tokens'.counts[t] <= MaxSessionsPerToken
  <2>1. tokens.counts \in [Tokens -> Nat] /\ tokens.sessions \in [Requests -> Tokens \cup {None}]
        /\ MaxSessionsPerToken \in Nat /\ t # None
    BY <1>2, LimitsAssumption, NamesAssumption DEF SessionTypes, TokenState
  <2>2. /\ tokens.counts[t] = Cardinality(BoundTo(t)) + Cardinality(ReservedBy(t))
        /\ tokens.counts[t] <= MaxSessionsPerToken
    BY <1>2 DEF SlotsAreAccounted
  <2>3. Cardinality(BoundTo(t)) \in Nat /\ Cardinality(ReservedBy(t)) \in Nat  BY SlotSets
  <2>4. ReservedBy(t)' = ReservedBy(t)  BY DEF ReservedBy
  <2>5. CASE t # tokens.sessions[s]
    <3>1. BoundTo(t)' = BoundTo(t)  BY <2>1, <2>5 DEF BoundTo
    <3>2. tokens'.counts[t] = tokens.counts[t]  BY <2>1, <2>5 DEF Less
    <3>3. QED  BY <2>2, <2>4, <3>1, <3>2
  <2>6. CASE t = tokens.sessions[s]
    <3>1. BoundTo(t)' = BoundTo(t) \ {s} /\ s \in BoundTo(t)  BY <2>1, <2>6 DEF BoundTo
    <3>2. Cardinality(BoundTo(t)) = Cardinality(BoundTo(t)') + 1 /\ Cardinality(BoundTo(t)') \in Nat
      <4>1. PICK S : S = BoundTo(t)  OBVIOUS
      <4>2. IsFiniteSet(S) /\ s \in S  BY <3>1, <4>1, SlotSets
      <4>3. Cardinality(S) = Cardinality(S \ {s}) + 1 /\ Cardinality(S \ {s}) \in Nat
        BY <4>2, DropOne
      <4>4. QED  BY <3>1, <4>1, <4>3
    <3>3. tokens.counts[t] # 0  BY <2>2, <2>3, <3>2
    <3>4. tokens'.counts[t] = tokens.counts[t] - 1  BY <2>1, <2>6, <3>3 DEF Less
    <3>5. QED  BY <2>1, <2>2, <2>3, <2>4, <3>2, <3>4
  <2>7. QED  BY <2>5, <2>6
<1>3. QED  BY <1>1, <1>2 DEF SlotsAreAccounted

LEMMA LeavingKeep ==
    ASSUME SessionTypes, LeavingInv, leaving' = leaving, inner' = inner, Tracked' = Tracked,
           \A x \in Requests : req[x].phase = "rejected" => req'[x] = req[x],
           \A x \in Requests : req'[x].phase = "closing" => req'[x] = req[x]
    PROVE  LeavingInv'
<1>1. \A l \in leaving : l.id \in Requests  BY DEF SessionTypes, Leaver
<1>2. QED  BY <1>1 DEF LeavingInv

\* try_reserve_token succeeds.
LEMMA ReserveInv ==
    ASSUME RequestTypes, SessionInv, NEW r \in Requests, Reserve(r), ~UNCHANGED tokens
    PROVE  SessionInv'
<1>1. /\ tokens.counts[TokenOf[r]] < MaxSessionsPerToken
      /\ tokens' = [tokens EXCEPT !.counts[TokenOf[r]] = @ + 1, !.pending = @ + 1]
      /\ req' = [req EXCEPT ![r].phase = "inside", ![r].reserved = TRUE]
      /\ req[r].phase = "reserving"
      /\ UNCHANGED <<limits, active, activity, inner, workers, leaving, expired>>
  BY DEF Reserve, At
<1>2. /\ Fits(r) /\ req'[r].phase = "inside" /\ req'[r].reserved /\ ~req[r].reserved
      /\ ~req[r].named /\ ~req'[r].named
  BY <1>1, ReserveFits DEF SessionInv
<1>3. \A x \in Requests : x # r => req'[x] = req[x]  BY <1>2 DEF Fits
<1>4. /\ tokens'.counts = [tokens.counts EXCEPT ![TokenOf[r]] = @ + 1]
      /\ tokens'.pending = tokens.pending + 1 /\ tokens'.sessions = tokens.sessions
      /\ tokens'.unbound = tokens.unbound /\ tokens'.closedEarly = tokens.closedEarly
  BY <1>1 DEF SessionInv, SessionTypes, TokenState
<1>5. tokens' \in TokenState
  <2>1. tokens \in TokenState /\ TokenOf[r] \in Tokens  BY NamesAssumption DEF SessionInv, SessionTypes
  <2>2. [tokens.counts EXCEPT ![TokenOf[r]] = @ + 1] \in [Tokens -> Nat] /\ tokens.pending + 1 \in Nat
    BY <2>1 DEF TokenState
  <2>3. tokens' = [tokens EXCEPT !.counts = [tokens.counts EXCEPT ![TokenOf[r]] = @ + 1],
                                 !.pending = tokens.pending + 1]
    BY <1>1
  <2>4. QED  BY <2>1, <2>2, <2>3 DEF TokenState
<1>6. SessionTypes' /\ Tracked' = Tracked  BY <1>1, <1>5 DEF SessionInv, SessionTypes, Tracked
<1>7. RequestInv'  BY <1>1, <1>2, FitsRequests DEF SessionInv
<1>8. Onward  BY <1>2, Forward DEF Onward
<1>9. OrderInv'  BY <1>1, <1>4, <1>6, <1>8, OrderKeep DEF SessionInv
<1>11. LeavingInv'
  <2>1. \A x \in Requests : req[x].phase = "rejected" => req'[x] = req[x]  BY <1>1, <1>3
  <2>2. \A x \in Requests : req'[x].phase = "closing" => req'[x] = req[x]  BY <1>2, <1>3
  <2>3. leaving' = leaving /\ inner' = inner  BY <1>1
  <2>4. QED  BY <1>6, <2>1, <2>2, <2>3, LeavingKeep DEF SessionInv
<1>12. NoOrphanSession'
  <2>1. inner \subseteq Requests  BY DEF SessionInv, SessionTypes
  <2>2. QED  BY <1>1, <1>3, <1>6, <2>1 DEF SessionInv, NoOrphanSession
<1>13. CountInv'  BY <1>1, <1>2, <1>3, <1>6, CountKeep DEF SessionInv
<1>14. SlotsAreAccounted'  BY <1>1, <1>2, <1>3, <1>4, SlotTaken DEF SessionInv
<1>15. ChargeInv'
  <2>1. \A x \in Requests : x \in Known' => x \in Known  BY <1>2, <1>3 DEF Known
  <2>2. \A s \in Requests : Live(s)' <=> Live(s)  BY <1>1, <1>6 DEF Live
  <2>3. r \notin Tracked  BY <1>1 DEF SessionInv, OrderInv, Later, Unsettled, Early
  <2>4. QED  BY <1>2, <1>3, <1>4, <1>6, <2>1, <2>2, <2>3 DEF SessionInv, ChargeInv
<1>16. QED  BY <1>6, <1>7, <1>9, <1>11, <1>12, <1>13, <1>14, <1>15 DEF SessionInv

\* The way out of a request: its reservation is bound to its session or given back.
Binds(r) == tokens.sessions[r] = None /\ r \notin tokens.closedEarly /\ r \in tokens.unbound

Resolved(r) ==
    \/ ~req[r].reserved /\ ~req[r].named /\ tokens' = tokens
    \/ req[r].reserved /\ ~req[r].named /\ tokens' = DropReservation(tokens, r)
    \/ req[r].reserved /\ req[r].named /\ tokens' = Commit(tokens, r)

LEMMA WayOutInv ==
    ASSUME RequestTypes, SessionInv, NEW r \in Requests, Fits(r), Resolved(r),
           req[r].phase \in Awaiting \cup {"answered"}, req'[r].phase \in {"body", "done"},
           ~req'[r].reserved, req'[r].named = req[r].named,
           UNCHANGED <<limits, active, activity, inner, workers, leaving, expired>>
    PROVE  SessionInv'
<1>1. \A x \in Requests : x # r => req'[x] = req[x]  BY DEF Fits
<1>2. /\ tokens' \in TokenState
      /\ tokens'.unbound \subseteq tokens.unbound /\ tokens'.closedEarly \subseteq tokens.closedEarly
      /\ (req[r].reserved => tokens.pending # 1) => tokens.unbound \ {r} \subseteq tokens'.unbound
      /\ req[r].reserved => tokens'.pending = tokens.pending - 1
      /\ ~req[r].reserved => tokens' = tokens
      /\ (req[r].named /\ Binds(r)) =>
            /\ tokens'.counts = tokens.counts /\ r \notin tokens'.unbound
            /\ tokens'.sessions = [tokens.sessions EXCEPT ![r] = TokenOf[r]]
      /\ (req[r].reserved /\ ~(req[r].named /\ Binds(r))) =>
            tokens'.counts = Less(tokens.counts, TokenOf[r]) /\ tokens'.sessions = tokens.sessions
  <2>1. tokens \in TokenState  BY DEF SessionInv, SessionTypes
  <2>2. CASE ~req[r].reserved /\ ~req[r].named /\ tokens' = tokens  BY <2>1, <2>2
  <2>3. CASE req[r].reserved /\ ~req[r].named /\ tokens' = DropReservation(tokens, r)
    <3>1. tokens.pending > 0  BY <2>3, PendingPositive DEF SessionInv
    <3>2. /\ tokens' \in TokenState /\ tokens'.counts = Less(tokens.counts, TokenOf[r])
          /\ tokens'.sessions = tokens.sessions /\ tokens'.pending = tokens.pending - 1
          /\ tokens'.unbound = IF tokens.pending = 1 THEN {} ELSE tokens.unbound
          /\ tokens'.closedEarly = IF tokens.pending = 1 THEN {} ELSE tokens.closedEarly
      BY <2>1, <2>3, <3>1, Dropped
    <3>3. QED  BY <2>3, <3>2
  <2>4. CASE req[r].reserved /\ req[r].named /\ tokens' = Commit(tokens, r)
    <3>1. tokens.pending > 0  BY <2>4, PendingPositive DEF SessionInv
    <3>2. /\ tokens' \in TokenState /\ tokens'.pending = tokens.pending - 1
          /\ tokens'.unbound \subseteq tokens.unbound /\ tokens'.closedEarly \subseteq tokens.closedEarly
          /\ tokens.pending # 1 => tokens.unbound \ {r} \subseteq tokens'.unbound
          /\ Binds(r) => /\ tokens'.counts = tokens.counts /\ r \notin tokens'.unbound
                         /\ tokens'.sessions = [tokens.sessions EXCEPT ![r] = TokenOf[r]]
          /\ ~Binds(r) => tokens'.counts = Less(tokens.counts, TokenOf[r]) /\ tokens'.sessions = tokens.sessions
      BY <2>1, <2>4, <3>1, Committed DEF Binds
    <3>3. QED  BY <2>4, <3>2
  <2>5. QED  BY <2>2, <2>3, <2>4 DEF Resolved
<1>3. req[r].named => req[r].reserved  BY DEF Resolved
<1>4. SessionTypes' /\ Tracked' = Tracked  BY <1>2 DEF SessionInv, SessionTypes, Tracked
<1>5. RequestInv'  BY FitsRequests DEF SessionInv
<1>6. Onward  BY Forward DEF Onward
<1>7. tokens.sessions \in [Requests -> Tokens \cup {None}]  BY DEF SessionInv, SessionTypes, TokenState
<1>8. \A s \in Requests : s # r => tokens'.sessions[s] = tokens.sessions[s]
  BY <1>2, <1>7
<1>9. Later(r)'  BY DEF Later, Unsettled, Early
<1>10. OrderInv'
  <2>1. \A s \in Requests : tokens'.sessions[s] # None => tokens.sessions[s] # None \/ Later(s)'
    BY <1>8, <1>9
  <2>2. \A s \in inner' \cup tokens'.unbound \cup tokens'.closedEarly :
              s \in inner \cup tokens.unbound \cup tokens.closedEarly
    BY <1>2
  <2>3. QED  BY <1>4, <1>6, <2>1, <2>2, OrderKeep DEF SessionInv
<1>12. LeavingInv'
  <2>1. \A x \in Requests : req[x].phase = "rejected" => req'[x] = req[x]  BY <1>1 DEF Awaiting
  <2>2. \A x \in Requests : req'[x].phase = "closing" => req'[x] = req[x]  BY <1>1
  <2>3. QED  BY <1>4, <2>1, <2>2, LeavingKeep DEF SessionInv
<1>13. NoOrphanSession'
  <2>1. inner \subseteq Requests  BY DEF SessionInv, SessionTypes
  <2>2. QED  BY <1>1, <1>4, <2>1 DEF SessionInv, NoOrphanSession, Awaiting
<1>14. CountInv'  BY <1>1, <1>4, CountKeep DEF SessionInv, Awaiting
<1>15. SlotsAreAccounted'
  <2>1. CASE ~req[r].reserved
    <3>1. \A x \in Requests : req'[x].reserved = req[x].reserved
      <4>1. req[r].reserved \in BOOLEAN /\ req'[r].reserved \in BOOLEAN
        BY DEF RequestTypes, Request, Fits
      <4>2. QED  BY <1>1, <2>1, <4>1
    <3>2. QED  BY <1>2, <2>1, <3>1, SlotKeep DEF SessionInv
  <2>2. CASE req[r].reserved
    BY <1>1, <1>2, <2>2, SlotSettled DEF SessionInv, Binds
  <2>3. QED  BY <2>1, <2>2
<1>16. ChargeInv'
  <2>1. \A s \in Requests : Live(s)' <=> Live(s)  BY <1>4 DEF Live
  <2>2. ASSUME NEW s \in Requests, s # r
        PROVE  /\ tokens'.sessions[s] \in {None, TokenOf[s]}
               /\ tokens'.sessions[s] # None => s \notin tokens'.unbound /\ Live(s)'
               /\ (s \in tokens'.unbound /\ (req'[s].phase = "registered" \/ req'[s].named)) => Live(s)'
               /\ (req'[s].reserved /\ (req'[s].phase \in {"created", "counted"} \/ s \in Tracked')) =>
                     s \in tokens'.unbound /\ s \notin tokens'.closedEarly
               /\ s \in Tracked' \cap Known' => tokens'.sessions[s] = TokenOf[s]
    <3>1. req'[s] = req[s] /\ tokens'.sessions[s] = tokens.sessions[s]  BY <1>1, <1>8, <2>2
    <3>2. s \in Known' => s \in Known  BY <3>1 DEF Known
    <3>3. req[s].reserved /\ s \in tokens.unbound => s \in tokens'.unbound
      <4>1. (req[s].reserved /\ req[r].reserved) => tokens.pending # 1  BY <2>2, OnlyOne DEF SessionInv
      <4>2. QED  BY <1>2, <2>2, <4>1
    <3>4. QED  BY <1>2, <1>4, <2>1, <3>1, <3>2, <3>3 DEF SessionInv, ChargeInv
  <2>3. /\ tokens.sessions[r] \in {None, TokenOf[r]}
        /\ tokens.sessions[r] # None => r \notin tokens.unbound /\ Live(r)
        /\ (r \in tokens.unbound /\ req[r].named) => Live(r)
        /\ (req[r].reserved /\ r \in Tracked) => r \in tokens.unbound /\ r \notin tokens.closedEarly
    BY DEF SessionInv, ChargeInv
  <2>4. req[r].named /\ r \in Tracked => Binds(r)  BY <1>3, <2>3 DEF Binds
  <2>5. tokens'.sessions[r] = IF req[r].named /\ Binds(r) THEN TokenOf[r] ELSE tokens.sessions[r]
    BY <1>2, <1>3, <1>7
  <2>6. r \in Known' => req[r].named  BY DEF Known
  <2>7. /\ tokens'.sessions[r] \in {None, TokenOf[r]}
        /\ tokens'.sessions[r] # None => r \notin tokens'.unbound /\ Live(r)'
        /\ (r \in tokens'.unbound /\ (req'[r].phase = "registered" \/ req'[r].named)) => Live(r)'
        /\ (req'[r].reserved /\ (req'[r].phase \in {"created", "counted"} \/ r \in Tracked')) =>
              r \in tokens'.unbound /\ r \notin tokens'.closedEarly
        /\ r \in Tracked' \cap Known' => tokens'.sessions[r] = TokenOf[r]
    BY <1>2, <1>4, <2>1, <2>3, <2>4, <2>5, <2>6 DEF Binds
  <2>8. QED  BY <2>2, <2>7 DEF ChargeInv
<1>17. QED  BY <1>4, <1>5, <1>10, <1>12, <1>13, <1>14, <1>15, <1>16 DEF SessionInv

LEMMA SettleInv ==
    ASSUME RequestTypes, SessionInv, NEW r \in Requests, Settle(r)
    PROVE  SessionInv'
<1>1. /\ req[r].phase = "answered" /\ req' = [req EXCEPT ![r].phase = "body", ![r].reserved = FALSE]
      /\ UNCHANGED <<limits, active, activity, inner, workers, leaving, expired>>
  BY DEF Settle, At
<1>2. /\ Fits(r) /\ req'[r].phase = "body" /\ ~req'[r].reserved /\ req'[r].named = req[r].named
      /\ req[r].named => req[r].reserved
  BY <1>1, SettleFits DEF SessionInv
<1>3. Resolved(r)
  <2>1. CASE ~req[r].reserved  BY <1>2, <2>1, Zenon DEF Settle, Resolved
  <2>2. CASE req[r].reserved /\ req[r].named  BY <2>2, Zenon DEF Settle, Resolved
  <2>3. CASE req[r].reserved /\ ~req[r].named  BY <2>3, Zenon DEF Settle, Resolved
  <2>4. QED  BY <2>1, <2>2, <2>3
<1>4. QED  BY <1>1, <1>2, <1>3, WayOutInv

LEMMA CancelInv ==
    ASSUME RequestTypes, SessionInv, NEW r \in Requests, Cancel(r)
    PROVE  SessionInv'
<1>1. /\ req[r].phase \in Awaiting /\ Leaves(r)
      /\ UNCHANGED <<limits, active, activity, inner, workers, leaving, expired>>
  BY DEF Cancel
<1>2. Fits(r) /\ req'[r].phase = "done" /\ ~req'[r].reserved /\ ~req'[r].named /\ ~req[r].named
  BY <1>1, CancelFits DEF SessionInv
<1>3. req'[r].named = req[r].named  BY <1>2 DEF Fits, RequestTypes, Request
<1>4. Resolved(r)  BY <1>2 DEF Cancel, Resolved
<1>5. QED  BY <1>1, <1>2, <1>3, <1>4, WayOutInv

-----------------------------------------------------------------------------
(* Sessions: the steps of no request *)

LEMMA Still ==
    ASSUME RequestInv, UNCHANGED req
    PROVE  RequestInv' /\ Onward /\ Known' = Known
BY DEF RequestInv, RequestOK, AboutOK, Later, Past, Onward, Known

\* The service task or the reaper closes session s and begins to unregister it.
LEMMA CloseOffInv ==
    ASSUME RequestTypes, SessionInv, NEW s \in workers \cup expired, NEW e \in Leaver,
           e.id = s, e.at = "entry", leaving' = leaving \cup {e}, inner' = inner \ {s},
           workers' \subseteq workers, expired' \subseteq expired,
           UNCHANGED <<limits, req, tokens, active, activity>>
    PROVE  SessionInv'
<1>1. Tracked' = Tracked  BY DEF Tracked
<1>2. /\ leaving' \subseteq Leaver /\ IsFiniteSet(leaving')
      /\ \A l \in leaving \cup leaving' : l.at = "count" => l \in leaving \cap leaving'
      /\ \A x : Live(x)' <=> Live(x)
  BY <1>1, EntryAdded DEF SessionInv
<1>3. SessionTypes'  BY <1>2 DEF SessionInv, SessionTypes
<1>4. RequestInv' /\ Onward /\ Known' = Known  BY Still DEF SessionInv
<1>5. OrderInv'
  <2>1. Later(s)'  BY DEF SessionInv, OrderInv, Later
  <2>2. QED  BY <1>1, <1>3, <1>4, <2>1, OrderKeep DEF SessionInv
<1>6. LeavingInv'  BY <1>1 DEF SessionInv, LeavingInv
<1>7. NoOrphanSession'  BY <1>1 DEF SessionInv, NoOrphanSession
<1>8. CountInv'  BY <1>1, <1>2, CountKeep DEF SessionInv
<1>9. SlotsAreAccounted'  BY SlotKeep DEF SessionInv
<1>10. ChargeInv'  BY <1>1, <1>2, <1>4 DEF SessionInv, ChargeInv
<1>11. QED  BY <1>3, <1>4, <1>5, <1>6, <1>7, <1>8, <1>9, <1>10 DEF SessionInv

LEMMA WorkerInv ==
    ASSUME RequestTypes, SessionInv, NEW s \in Requests, WorkerEnds(s)
    PROVE  SessionInv'
<1> DEFINE e == [who |-> "worker", id |-> s, at |-> "entry"]
<1>1. e \in Leaver /\ e.id = s /\ e.at = "entry"  BY DEF Leaver
<1>2. /\ s \in workers /\ workers' = workers \ {s} /\ inner' = inner \ {s} /\ leaving' = leaving \cup {e}
      /\ UNCHANGED <<limits, req, tokens, active, activity, expired>>
  BY DEF WorkerEnds
<1> HIDE DEF e
<1>3. QED  BY <1>1, <1>2, CloseOffInv

LEMMA ReapInv ==
    ASSUME RequestTypes, SessionInv, NEW s \in Requests, Reap(s)
    PROVE  SessionInv'
<1> DEFINE e == [who |-> "reaper", id |-> s, at |-> "entry"]
<1>1. e \in Leaver /\ e.id = s /\ e.at = "entry"  BY DEF Leaver
<1>2. /\ s \in expired /\ expired' = expired \ {s} /\ inner' = inner \ {s} /\ leaving' = leaving \cup {e}
      /\ UNCHANGED <<limits, req, tokens, active, activity, workers>>
  BY DEF Reap
<1> HIDE DEF e
<1>3. QED  BY <1>1, <1>2, CloseOffInv

\* The sweep notes tracked sessions, and the clock only ages them.
LEMMA ClockInv ==
    ASSUME RequestTypes, SessionInv, Tick \/ ReapSweep
    PROVE  SessionInv'
<1>1. /\ UNCHANGED <<limits, req, tokens, active, inner, workers, leaving>>
      /\ expired' \subseteq Tracked \cup expired
  BY DEF Tick, ReapSweep, Overdue, Tracked
<1>2. activity' \in [Requests -> Activity] /\ Tracked' = Tracked
  <2>1. activity \in [Requests -> Activity]  BY DEF SessionInv, SessionTypes
  <2>2. CASE ReapSweep  BY <2>1, <2>2 DEF ReapSweep, Tracked
  <2>3. CASE Tick
    <3> DEFINE older(s) == [activity[s] EXCEPT !.idle = Older(activity[s].idle, IdleTimeout),
                                               !.age = Older(activity[s].age, MaxLifetime)]
    <3>1. activity' = [s \in Requests |-> IF ~activity[s].tracked THEN activity[s] ELSE older(s)]
      BY <2>3 DEF Tick
    <3>2. ASSUME NEW s \in Requests PROVE older(s) \in Activity /\ older(s).tracked = activity[s].tracked
      <4>1. activity[s] \in Activity  BY <2>1
      <4>2. activity[s].idle \in Nat /\ activity[s].age \in Nat  BY <4>1 DEF Activity
      <4>3. Older(activity[s].idle, IdleTimeout) \in Nat /\ Older(activity[s].age, MaxLifetime) \in Nat
        BY <4>2 DEF Older
      <4>4. QED  BY <4>1, <4>3 DEF Activity
    <3> HIDE DEF older
    <3>3. activity' \in [Requests -> Activity]  BY <2>1, <3>1, <3>2
    <3>4. \A s \in Requests : activity'[s].tracked = activity[s].tracked  BY <3>1, <3>2
    <3>5. QED  BY <3>3, <3>4 DEF Tracked
  <2>4. QED  BY <2>2, <2>3
<1>3. SessionTypes'
  <2>1. Tracked \subseteq Requests  BY DEF Tracked
  <2>2. QED  BY <1>1, <1>2, <2>1 DEF SessionInv, SessionTypes
<1>4. RequestInv' /\ Onward /\ Known' = Known  BY <1>1, Still DEF SessionInv
<1>5. OrderInv'  BY <1>1, <1>2, <1>3, <1>4, OrderKeep DEF SessionInv
<1>6. LeavingInv'  BY <1>1, <1>2 DEF SessionInv, LeavingInv
<1>7. NoOrphanSession'  BY <1>1, <1>2 DEF SessionInv, NoOrphanSession
<1>8. CountInv'  BY <1>1, <1>2, CountKeep DEF SessionInv
<1>9. SlotsAreAccounted'  BY <1>1, SlotKeep DEF SessionInv
<1>10. ChargeInv'
  <2>1. \A s \in Requests : Live(s)' <=> Live(s)  BY <1>1, <1>2 DEF Live
  <2>2. QED  BY <1>1, <1>2, <1>4, <2>1 DEF SessionInv, ChargeInv
<1>11. QED  BY <1>3, <1>4, <1>5, <1>6, <1>7, <1>8, <1>9, <1>10 DEF SessionInv

\* One call of unregister_inner, or the spawned cleanup, is done.
LEMMA CleanUpInv ==
    ASSUME RequestTypes, SessionInv, NEW l \in leaving, CleanUpInner(l)
    PROVE  SessionInv'
<1>1. /\ l.at = "inner" /\ inner' = inner \ {l.id} /\ leaving' = leaving \ {l}
      /\ UNCHANGED <<limits, req, tokens, active, activity, workers, expired>> /\ Tracked' = Tracked
  BY DEF CleanUpInner, Tracked
<1>2. SessionTypes'  BY <1>1, FS_Subset DEF SessionInv, SessionTypes
<1>3. RequestInv' /\ Onward /\ Known' = Known  BY <1>1, Still DEF SessionInv
<1>4. OrderInv'  BY <1>1, <1>2, <1>3, OrderKeep DEF SessionInv
<1>5. LeavingInv'  BY <1>1 DEF SessionInv, LeavingInv
<1>6. NoOrphanSession'  BY <1>1 DEF SessionInv, NoOrphanSession
<1>7. CountInv'  BY <1>1, CountKeep DEF SessionInv
<1>8. SlotsAreAccounted'  BY <1>1, SlotKeep DEF SessionInv
<1>9. ChargeInv'
  <2>1. \A s \in Requests : Live(s)' <=> Live(s)  BY <1>1 DEF Live
  <2>2. QED  BY <1>1, <1>3, <2>1 DEF SessionInv, ChargeInv
<1>10. QED  BY <1>2, <1>3, <1>4, <1>5, <1>6, <1>7, <1>8, <1>9 DEF SessionInv

\* A leaver goes on to its next step.
LEMMA Advance ==
    ASSUME SessionTypes, NEW l \in leaving, NEW at \in {"count", "token"},
           leaving' = (leaving \ {l}) \cup {[l EXCEPT !.at = at]}
    PROVE  \E m \in Leaver :
              /\ m.id = l.id /\ m.at = at /\ leaving' = (leaving \ {l}) \cup {m}
              /\ leaving' \subseteq Leaver /\ IsFiniteSet(leaving')
<1> DEFINE m == [l EXCEPT !.at = at]
<1>1. l \in Leaver  BY DEF SessionTypes
<1>2. m \in Leaver /\ m.id = l.id /\ m.at = at  BY <1>1 DEF Leaver
<1> HIDE DEF m
<1>3. leaving' = (leaving \ {l}) \cup {m}  BY DEF m
<1>4. IsFiniteSet(leaving \ {l})  BY FS_Subset DEF SessionTypes
<1>5. IsFiniteSet((leaving \ {l}) \cup {m})  BY <1>4, FS_AddElement
<1>6. QED  BY <1>2, <1>3, <1>5 DEF SessionTypes

LEMMA LowerInv ==
    ASSUME RequestTypes, SessionInv, NEW l \in leaving, LowerCount(l)
    PROVE  SessionInv'
<1>1. /\ l.at = "count" /\ active' = active - 1
      /\ leaving' = (leaving \ {l}) \cup {[l EXCEPT !.at = "token"]}
      /\ UNCHANGED <<limits, req, tokens, activity, inner, workers, expired>> /\ Tracked' = Tracked
  BY DEF LowerCount, Tracked
<1>2. PICK m \in Leaver : /\ m.id = l.id /\ m.at = "token" /\ leaving' = (leaving \ {l}) \cup {m}
                          /\ leaving' \subseteq Leaver /\ IsFiniteSet(leaving')
  <2>1. "token" \in {"count", "token"}  OBVIOUS
  <2>2. QED  BY <1>1, <2>1, Advance DEF SessionInv
<1>3. CountInv' /\ active' \in Nat
  <2>1. l \in Lowering /\ Lowering' = Lowering \ {l}  BY <1>1, <1>2 DEF Lowering
  <2>2. IsFiniteSet(Lowering)  BY CountedSets DEF SessionInv
  <2>3. Cardinality(Lowering) = Cardinality(Lowering') + 1 /\ Cardinality(Lowering') \in Nat
    <3>1. PICK S : S = Lowering  OBVIOUS
    <3>2. Cardinality(S) = Cardinality(S \ {l}) + 1 /\ Cardinality(S \ {l}) \in Nat
      BY <2>1, <2>2, <3>1, DropOne
    <3>3. QED  BY <2>1, <3>1, <3>2
  <2>4. Counting' = Counting /\ Counted' = Counted  BY <1>1 DEF Counting, Counted
  <2>5. Cardinality(Tracked) \in Nat /\ Cardinality(Counting) \in Nat  BY CountedSets DEF SessionInv
  <2>6. active = Cardinality(Tracked) + Cardinality(Counting) + Cardinality(Lowering)
        /\ Cardinality(Tracked) + Cardinality(Counted) <= MaxSessions
    BY DEF SessionInv, CountInv
  <2>7. active' = Cardinality(Tracked') + Cardinality(Counting') + Cardinality(Lowering')
    BY <1>1, <2>3, <2>4, <2>5, <2>6
  <2>8. active' \in Nat  BY <1>1, <2>3, <2>4, <2>5, <2>7
  <2>9. QED  BY <1>1, <2>4, <2>6, <2>7, <2>8 DEF CountInv
<1>4. SessionTypes'  BY <1>1, <1>2, <1>3 DEF SessionInv, SessionTypes
<1>5. RequestInv' /\ Onward /\ Known' = Known  BY <1>1, Still DEF SessionInv
<1>6. OrderInv'  BY <1>1, <1>2, <1>4, <1>5, OrderKeep DEF SessionInv
<1>7. LeavingInv'  BY <1>1, <1>2 DEF SessionInv, LeavingInv
<1>8. NoOrphanSession'  BY <1>1, <1>2 DEF SessionInv, NoOrphanSession
<1>9. SlotsAreAccounted'  BY <1>1, SlotKeep DEF SessionInv
<1>10. ChargeInv'
  <2>1. \A s \in Requests : Live(s) => Live(s)'  BY <1>1, <1>2 DEF Live
  <2>2. QED  BY <1>1, <1>5, <2>1 DEF SessionInv, ChargeInv
<1>11. QED  BY <1>3, <1>4, <1>5, <1>6, <1>7, <1>8, <1>9, <1>10 DEF SessionInv

\* Whoever removes the entry, and only that caller, goes on to lower the counter.
LEMMA RemoveInv ==
    ASSUME RequestTypes, SessionInv, NEW l \in leaving, RemoveEntry(l)
    PROVE  SessionInv'
<1> DEFINE at == IF activity[l.id].tracked THEN "count" ELSE "token"
<1>1. /\ l.at = "entry" /\ activity' = [activity EXCEPT ![l.id] = Untracked]
      /\ leaving' = (leaving \ {l}) \cup {[l EXCEPT !.at = at]}
      /\ UNCHANGED <<limits, req, tokens, active, inner, workers, expired>>
  BY DEF RemoveEntry
<1>2. l.id \in Requests  BY DEF SessionInv, SessionTypes, Leaver
<1>3. at = (IF l.id \in Tracked THEN "count" ELSE "token") /\ at \in {"count", "token"}
  BY <1>2 DEF Tracked
<1> HIDE DEF at
<1>4. PICK m \in Leaver : /\ m.id = l.id /\ m.at = at /\ leaving' = (leaving \ {l}) \cup {m}
                          /\ leaving' \subseteq Leaver /\ IsFiniteSet(leaving')
  BY <1>1, <1>3, Advance DEF SessionInv
<1>5. activity' \in [Requests -> Activity] /\ Tracked' = Tracked \ {l.id}
  <2>1. activity \in [Requests -> Activity]  BY DEF SessionInv, SessionTypes
  <2>2. Untracked \in Activity /\ ~Untracked.tracked  BY DEF Untracked, Activity
  <2>3. activity' \in [Requests -> Activity] /\ activity'[l.id] = Untracked
        /\ \A x \in Requests : x # l.id => activity'[x] = activity[x]
    BY <1>1, <1>2, <2>1, <2>2
  <2>4. QED  BY <2>2, <2>3 DEF Tracked
<1>6. SessionTypes'  BY <1>1, <1>4, <1>5 DEF SessionInv, SessionTypes
<1>7. RequestInv' /\ Onward /\ Known' = Known  BY <1>1, Still DEF SessionInv
<1>8. OrderInv'  BY <1>1, <1>4, <1>5, <1>6, <1>7, OrderKeep DEF SessionInv
<1>9. LeavingInv'  BY <1>1, <1>3, <1>4, <1>5 DEF SessionInv, LeavingInv
<1>10. NoOrphanSession'
  <2>1. l.id \notin inner \/ req[l.id].phase = "rejected"  BY <1>1 DEF SessionInv, LeavingInv
  <2>2. QED  BY <1>1, <1>4, <1>5, <2>1 DEF SessionInv, NoOrphanSession
<1>11. CountInv'
  <2>1. Counting' = Counting /\ Counted' = Counted  BY <1>1 DEF Counting, Counted
  <2>2. CASE l.id \notin Tracked
    <3>1. Tracked' = Tracked  BY <1>5, <2>2
    <3>2. Lowering' = Lowering  BY <1>1, <1>3, <1>4, <2>2 DEF Lowering
    <3>3. QED  BY <1>1, <2>1, <3>1, <3>2 DEF SessionInv, CountInv
  <2>3. CASE l.id \in Tracked
    <3>1. m \notin leaving  BY <1>3, <1>4, <2>3 DEF SessionInv, LeavingInv
    <3>2. Lowering' = Lowering \cup {m} /\ m \notin Lowering
      BY <1>1, <1>3, <1>4, <2>3, <3>1 DEF Lowering
    <3>3. IsFiniteSet(Lowering) /\ IsFiniteSet(Tracked)  BY CountedSets DEF SessionInv
    <3>4. /\ Cardinality(Lowering') = Cardinality(Lowering) + 1 /\ Cardinality(Lowering) \in Nat
          /\ Cardinality(Tracked) = Cardinality(Tracked') + 1 /\ Cardinality(Tracked') \in Nat
      <4>1. PICK S, T : S = Lowering /\ T = Tracked  OBVIOUS
      <4>2. /\ Cardinality(S \cup {m}) = Cardinality(S) + 1 /\ Cardinality(S) \in Nat
            /\ Cardinality(T) = Cardinality(T \ {l.id}) + 1 /\ Cardinality(T \ {l.id}) \in Nat
        BY <2>3, <3>2, <3>3, <4>1, AddOne, DropOne
      <4>3. QED  BY <1>5, <3>2, <4>1, <4>2
    <3>5. Cardinality(Counting) \in Nat /\ Cardinality(Counted) \in Nat  BY CountedSets DEF SessionInv
    <3>6. active = Cardinality(Tracked) + Cardinality(Counting) + Cardinality(Lowering)
          /\ Cardinality(Tracked) + Cardinality(Counted) <= MaxSessions
      BY DEF SessionInv, CountInv
    <3>7. MaxSessions \in Nat  BY LimitsAssumption
    <3>8. active' = Cardinality(Tracked') + Cardinality(Counting') + Cardinality(Lowering')
      BY <1>1, <2>1, <3>4, <3>5, <3>6
    <3>9. Cardinality(Tracked') + Cardinality(Counted') <= MaxSessions
      BY <2>1, <3>4, <3>5, <3>6, <3>7
    <3>10. QED  BY <3>8, <3>9 DEF CountInv
  <2>4. QED  BY <2>2, <2>3
<1>12. SlotsAreAccounted'  BY <1>1, SlotKeep DEF SessionInv
<1>13. ChargeInv'
  <2>1. \A s \in Requests : Live(s) => Live(s)'  BY <1>1, <1>3, <1>4, <1>5 DEF Live
  <2>2. QED  BY <1>1, <1>5, <1>7, <2>1 DEF SessionInv, ChargeInv
<1>14. QED  BY <1>6, <1>7, <1>8, <1>9, <1>10, <1>11, <1>12, <1>13 DEF SessionInv

\* The last part of unregister_inner frees the slot of a bound session, and marks
\* an unbound one so that its commit gives the slot back.
LEMMA ReleaseInv ==
    ASSUME RequestTypes, SessionInv, NEW l \in leaving, ReleaseToken(l)
    PROVE  SessionInv'
<1>1. PICK s \in Requests : s = l.id  BY DEF SessionInv, SessionTypes, Leaver
<1>2. /\ l.at = "token" /\ tokens' = Released(tokens, s) /\ leaving' = leaving \ {l}
      /\ UNCHANGED <<limits, req, active, activity, inner, workers, expired>> /\ Tracked' = Tracked
  BY <1>1 DEF ReleaseToken, Tracked
<1>3. /\ tokens' \in TokenState /\ tokens'.pending = tokens.pending
      /\ tokens.sessions[s] # None =>
            /\ tokens'.counts = Less(tokens.counts, tokens.sessions[s])
            /\ tokens'.sessions = [tokens.sessions EXCEPT ![s] = None]
            /\ tokens'.unbound = tokens.unbound /\ tokens'.closedEarly = tokens.closedEarly
      /\ tokens.sessions[s] = None =>
            /\ tokens'.counts = tokens.counts /\ tokens'.sessions = tokens.sessions
            /\ tokens'.unbound = tokens.unbound \ {s}
            /\ tokens'.closedEarly \subseteq tokens.closedEarly \cup {s}
            /\ s \in tokens'.closedEarly => s \in tokens.closedEarly \cup tokens.unbound
  BY <1>2, ReleasedState DEF SessionInv, SessionTypes
<1>4. SessionTypes'  BY <1>2, <1>3, FS_Subset DEF SessionInv, SessionTypes
<1>5. RequestInv' /\ Onward /\ Known' = Known  BY <1>2, Still DEF SessionInv
<1>6. tokens.sessions \in [Requests -> Tokens \cup {None}]  BY DEF SessionInv, SessionTypes, TokenState
<1>7. s \notin Tracked /\ Later(s)  BY <1>1, <1>2 DEF SessionInv, LeavingInv, OrderInv
<1>8. tokens'.sessions[s] = None /\ \A x \in Requests : x # s => tokens'.sessions[x] = tokens.sessions[x]
  BY <1>3, <1>6
<1>9. /\ s \notin tokens'.unbound
      /\ \A x \in Requests \ {s} : x \in tokens'.unbound <=> x \in tokens.unbound
      /\ \A x \in Requests \ {s} : x \in tokens'.closedEarly => x \in tokens.closedEarly
  <2>1. tokens.sessions[s] # None => s \notin tokens.unbound  BY DEF SessionInv, ChargeInv
  <2>2. QED  BY <1>3, <2>1
<1>10. OrderInv'
  <2>1. tokens'.unbound \subseteq tokens.unbound /\ tokens'.closedEarly \subseteq tokens.closedEarly \cup tokens.unbound
    BY <1>3
  <2>2. \A x \in Requests : tokens'.sessions[x] # None => tokens.sessions[x] # None  BY <1>8
  <2>3. QED  BY <1>2, <1>4, <1>5, <2>1, <2>2, OrderKeep DEF SessionInv
<1>11. LeavingInv'  BY <1>2 DEF SessionInv, LeavingInv
<1>12. NoOrphanSession'  BY <1>2 DEF SessionInv, NoOrphanSession
<1>13. CountInv'  BY <1>2, CountKeep DEF SessionInv
<1>14. SlotsAreAccounted'
  <2>1. CASE tokens.sessions[s] # None  BY <1>2, <1>3, <2>1, SlotFreed DEF SessionInv
  <2>2. CASE tokens.sessions[s] = None  BY <1>2, <1>3, <2>2, SlotKeep DEF SessionInv
  <2>3. QED  BY <2>1, <2>2
<1>15. ChargeInv'
  <2>1. \A x \in Requests : x # s => (Live(x) => Live(x)')  BY <1>1, <1>2 DEF Live
  <2>2. req[s].phase \notin {"created", "counted"}  BY <1>7 DEF Later, Unsettled
  <2>3. \A x \in Requests : req'[x] = req[x]  BY <1>2
  <2>4. ASSUME NEW x \in Requests
        PROVE  /\ tokens'.sessions[x] \in {None, TokenOf[x]}
               /\ tokens'.sessions[x] # None => x \notin tokens'.unbound /\ Live(x)'
               /\ (x \in tokens'.unbound /\ (req'[x].phase = "registered" \/ req'[x].named)) => Live(x)'
               /\ (req'[x].reserved /\ (req'[x].phase \in {"created", "counted"} \/ x \in Tracked')) =>
                     x \in tokens'.unbound /\ x \notin tokens'.closedEarly
               /\ x \in Tracked' \cap Known' => tokens'.sessions[x] = TokenOf[x]
    <3>1. CASE x = s  BY <1>2, <1>7, <1>8, <1>9, <2>2, <2>3, <3>1
    <3>2. CASE x # s
      <4>1. /\ tokens.sessions[x] \in {None, TokenOf[x]}
            /\ tokens.sessions[x] # None => x \notin tokens.unbound /\ Live(x)
            /\ (x \in tokens.unbound /\ (req[x].phase = "registered" \/ req[x].named)) => Live(x)
            /\ (req[x].reserved /\ (req[x].phase \in {"created", "counted"} \/ x \in Tracked)) =>
                  x \in tokens.unbound /\ x \notin tokens.closedEarly
            /\ x \in Tracked \cap Known => tokens.sessions[x] = TokenOf[x]
        BY DEF SessionInv, ChargeInv
      <4>2. tokens'.sessions[x] = tokens.sessions[x] /\ Tracked' = Tracked /\ Known' = Known /\ req'[x] = req[x]
        BY <1>2, <1>5, <1>8, <2>3, <3>2
      <4>3. (x \in tokens'.unbound <=> x \in tokens.unbound)
            /\ (x \in tokens'.closedEarly => x \in tokens.closedEarly)
        BY <1>9, <3>2
      <4>4. Live(x) => Live(x)'  BY <2>1, <3>2
      <4>5. QED  BY <4>1, <4>2, <4>3, <4>4
    <3>3. QED  BY <3>1, <3>2
  <2>5. QED  BY <2>4 DEF ChargeInv
<1>16. QED  BY <1>4, <1>5, <1>10, <1>11, <1>12, <1>13, <1>14, <1>15 DEF SessionInv

-----------------------------------------------------------------------------
(* The permits of devices *)

Waiting == Early \ {"resolved", "handler"}

\* Request r moved, and kept the semaphores and permits it held or let go of all.
Held(r) ==
    /\ req' \in [Requests -> Request]
    /\ \A x \in Requests : x # r => req'[x] = req[x]
    /\ req'[r].phase \in Waiting => req'[r].permits = {}
    /\ \/ req'[r].arcs = req[r].arcs /\ req'[r].permits = req[r].permits
       \/ req'[r].permits = {} /\ \A d \in Targets : req'[r].arcs[d] = None

HoldStep(r) ==
    \/ Accept(r) \/ Admit(r) \/ Refuse(r) \/ PassWithoutTargets(r) \/ Register(r) \/ Handle(r)
    \/ Settle(r) \/ EndBody(r) \/ Cancel(r)

LEMMA HoldSteps ==
    ASSUME RequestTypes, TargetInv, NEW r \in Requests, HoldStep(r)
    PROVE  Held(r) /\ registry' = registry /\ limits' = limits
<1>1. registry' = registry /\ limits' = limits
  BY DEF HoldStep, Accept, Arrive, Admit, AcquireToken, CheckCapacity, Reserve, Refuse, PassWithoutTargets,
     Register, CountSession, TrackSession, RollBackCount, SpawnCleanup, Handle, CreateInner,
     AnswerWithoutSession, AnswerInitialize, AnswerOverCap, AnswerCall, CloseInner, UnregisterClosed,
     AnswerDelete, Settle, EndBody, Cancel, sessionVars
<1> SUFFICES Held(r)  BY <1>1
<1>2. ASSUME NEW n \in Request, Becomes(r, n), n.arcs = req[r].arcs, n.permits = req[r].permits,
             n.phase \in Waiting => req[r].phase \in Waiting
      PROVE  Held(r)
  BY <1>2 DEF Becomes, Held, TargetInv, Waiting
<1>3. ASSUME Leaves(r) PROVE Held(r)
  <2>1. PICK n \in Request : Becomes(r, n) /\ n.permits = {} /\ n.arcs = [d \in Targets |-> None]
    BY <1>3, LeavesMove
  <2>2. req'[r].permits = {} /\ req'[r].arcs = [d \in Targets |-> None]  BY <2>1 DEF Becomes
  <2>3. \A d \in Targets : req'[r].arcs[d] = None  BY <2>2
  <2>4. QED  BY <2>1, <2>2, <2>3 DEF Becomes, Held
<1>4. ASSUME NEW b \in BOOLEAN, Answers(r, b) PROVE Held(r)
  <2>1. PICK n \in Request : /\ Becomes(r, n) /\ n.phase = "answered" /\ n.arcs = req[r].arcs
                             /\ n.permits = req[r].permits
    BY <1>4, AnswersMove
  <2>2. QED  BY <1>2, <2>1 DEF Waiting, Early
<1>5. ASSUME NEW to \in Phases, Goes(r, to), to \in Waiting => req[r].phase \in Waiting PROVE Held(r)
  <2>1. PICK n \in Request : /\ Becomes(r, n) /\ n.phase = to /\ n.arcs = req[r].arcs
                             /\ n.permits = req[r].permits
    BY <1>5, GoesMove
  <2>2. QED  BY <1>2, <1>5, <2>1
<1>6. ASSUME NEW to \in Phases, NEW b \in BOOLEAN, Reserves(r, to, b),
             to \in Waiting => req[r].phase \in Waiting
      PROVE  Held(r)
  <2>1. PICK n \in Request : /\ Becomes(r, n) /\ n.phase = to /\ n.arcs = req[r].arcs
                             /\ n.permits = req[r].permits
    BY <1>6, ReserveMove
  <2>2. QED  BY <1>2, <1>6, <2>1
<1>7. CASE Accept(r)
  <2>1. PICK kind \in Kinds, about \in Requests \cup {None} : Arrive(r, kind, about)  BY <1>7 DEF Accept
  <2>2. CASE ~Leaves(r)
    <3>1. Arrives(r, kind, about)  BY <2>1, <2>2 DEF Arrive, Arrives
    <3>2. PICK n \in Request : /\ Becomes(r, n) /\ n.phase = "global" /\ n.arcs = req[r].arcs
                               /\ n.permits = req[r].permits
      BY <3>1, ArriveMove
    <3>3. req[r].phase \in Waiting  BY <2>1 DEF Arrive, At, Waiting, Early
    <3>4. QED  BY <1>2, <3>2, <3>3
  <2>3. QED  BY <1>3, <2>2
<1>8. CASE Admit(r)
  <2>1. {"capacity", "inside", "reserving"} \subseteq Phases  BY DEF Phases, Unsettled, Early
  <2>2. CASE AcquireToken(r)
    <3>1. req[r].phase \in Waiting  BY <2>2 DEF AcquireToken, At, Waiting, Early
    <3>2. Leaves(r) \/ \E to \in {"capacity", "inside"} : Goes(r, to)  BY <2>2 DEF AcquireToken
    <3>3. QED  BY <1>3, <1>5, <2>1, <3>1, <3>2
  <2>3. CASE CheckCapacity(r)
    <3>1. req[r].phase \in Waiting  BY <2>3 DEF CheckCapacity, At, Waiting, Early
    <3>2. Leaves(r) \/ Goes(r, "reserving")  BY <2>3 DEF CheckCapacity
    <3>3. QED  BY <1>3, <1>5, <2>1, <3>1, <3>2
  <2>4. CASE Reserve(r)
    <3>1. req[r].phase \in Waiting  BY <2>4 DEF Reserve, At, Waiting, Early
    <3>2. Leaves(r) \/ Reserves(r, "inside", TRUE)  BY <2>4 DEF Reserve, Reserves
    <3>3. QED  BY <1>3, <1>6, <2>1, <3>1, <3>2
  <2>5. QED  BY <1>8, <2>2, <2>3, <2>4 DEF Admit
<1>9. CASE Refuse(r)  BY <1>4, <1>9 DEF Refuse
<1>10. CASE PassWithoutTargets(r)
  <2>1. "handler" \in Phases /\ "handler" \notin Waiting  BY DEF Phases, Unsettled, Early, Waiting
  <2>2. QED  BY <1>5, <1>10, <2>1 DEF PassWithoutTargets
<1>11. {"created", "counted", "overcap", "registered", "rejected", "cleaning", "closing", "unregistering", "body"}
          \subseteq Phases \ Waiting
  BY DEF Phases, Unsettled, Early, Waiting
<1>12. CASE Register(r)
  <2>1. \E to \in {"counted", "overcap", "registered", "rejected", "cleaning"} : Goes(r, to)
    BY <1>12 DEF Register, CountSession, TrackSession, RollBackCount, SpawnCleanup
  <2>2. QED  BY <1>5, <1>11, <2>1
<1>13. CASE Handle(r)
  <2>1. \/ \E to \in {"created", "closing", "unregistering"} : Goes(r, to)
        \/ \E b \in BOOLEAN : Answers(r, b)
    BY <1>13 DEF Handle, CreateInner, AnswerWithoutSession, AnswerInitialize, AnswerOverCap, AnswerCall,
       CloseInner, UnregisterClosed, AnswerDelete
  <2>2. QED  BY <1>4, <1>5, <1>11, <2>1
<1>14. CASE Settle(r)
  <2>1. Reserves(r, "body", FALSE)  BY <1>14 DEF Settle, Reserves
  <2>2. QED  BY <1>6, <1>11, <2>1
<1>15. CASE EndBody(r) \/ Cancel(r)  BY <1>3, <1>15 DEF EndBody, Cancel
<1>16. QED
  BY <1>7, <1>8, <1>9, <1>10, <1>12, <1>13, <1>14, <1>15 DEF HoldStep

LEMMA HeldTargets ==
    ASSUME TargetInv, NEW r \in Requests, Held(r), registry' = registry
    PROVE  TargetInv'
<1>1. \A x \in Requests : req'[x].phase \in Waiting => req'[x].permits = {}
  BY DEF Held, TargetInv, Waiting
<1>2. \A x \in Requests, d \in Targets :
          /\ d \in req'[x].permits => req'[x].arcs[d] # None /\ d \in req[x].permits
          /\ req'[x].arcs[d] # None => req'[x].arcs[d] = registry'[d]
  BY DEF Held, TargetInv
<1>3. ASSUME NEW d \in Targets
      PROVE  Cardinality({x \in Requests : d \in req'[x].permits}) <= MaxPerTarget
  <2> DEFINE S == {x \in Requests : d \in req[x].permits}
             T == {x \in Requests : d \in req'[x].permits}
  <2>1. T \subseteq S  BY <1>2
  <2>2. IsFiniteSet(S)  BY NamesAssumption, FS_Subset
  <2>3. Cardinality(S) <= MaxPerTarget  BY DEF TargetInv, TargetsWithinLimit
  <2> HIDE DEF S, T
  <2>4. Cardinality(T) <= Cardinality(S) /\ Cardinality(T) \in Nat /\ Cardinality(S) \in Nat
    BY <2>1, <2>2, FS_Subset, FS_CardinalityType
  <2>5. Cardinality(T) <= MaxPerTarget  BY <2>3, <2>4, LimitsAssumption
  <2>6. QED  BY <2>5 DEF T
<1>4. QED  BY <1>1, <1>2, <1>3 DEF TargetInv, TargetsWithinLimit, Waiting

\* resolve_semaphores: a semaphore anyone still holds is found again.
LEMMA ResolveTargetsInv ==
    ASSUME RequestTypes, TargetInv, NEW r \in Requests, NEW named \in SUBSET Targets,
           ResolveTargets(r, named)
    PROVE  RequestTypes' /\ TargetInv'
<1> DEFINE sem(d) == IF Alive(d, registry[d]) THEN registry[d] ELSE r
           arcs == [d \in Targets |-> IF d \in named THEN sem(d) ELSE None]
<1>1. /\ req[r].phase = "inside" /\ Resolves(r, "resolved", arcs) /\ limits' = limits
      /\ registry' = [d \in Targets |-> IF d \in named THEN sem(d) ELSE registry[d]]
  BY DEF ResolveTargets, At, Resolves, sessionVars
<1>2. arcs \in [Targets -> Requests \cup {None}]
  <2>1. ASSUME NEW d \in Targets, Alive(d, registry[d]) PROVE registry[d] \in Requests \cup {None}
    <3>1. PICK q \in Requests : req[q].arcs[d] = registry[d]  BY <2>1 DEF Alive
    <3>2. QED  BY <3>1 DEF RequestTypes, Request
  <2>2. QED  BY <2>1
<1>3. \A d \in Targets : /\ arcs[d] = (IF d \in named THEN sem(d) ELSE None)
                         /\ registry'[d] = (IF d \in named THEN sem(d) ELSE registry[d])
  BY <1>1
<1> HIDE DEF arcs
<1>4. PICK n \in Request : /\ Becomes(r, n) /\ n.phase = "resolved" /\ n.arcs = arcs
                           /\ n.permits = req[r].permits
  <2>1. "resolved" \in Phases  BY DEF Phases, Unsettled, Early
  <2>2. QED  BY <1>1, <1>2, <2>1, ResolveMove
<1>5. req[r].permits = {}  BY <1>1 DEF TargetInv, Waiting, Early
<1>6. /\ req'[r].phase = "resolved" /\ req'[r].arcs = arcs /\ req'[r].permits = {}
      /\ \A x \in Requests : x # r => req'[x] = req[x]
  BY <1>4, <1>5 DEF Becomes
<1>7. \A x \in Requests : req'[x].permits = req[x].permits  BY <1>5, <1>6
<1>8. ASSUME NEW x \in Requests, NEW d \in Targets
      PROVE  /\ d \in req'[x].permits => req'[x].arcs[d] # None
             /\ req'[x].arcs[d] # None => req'[x].arcs[d] = registry'[d]
  <2>1. CASE x = r  BY <1>3, <1>6, <2>1
  <2>2. CASE x # r
    <3>1. req'[x] = req[x] /\ (d \in req[x].permits => req[x].arcs[d] # None)
          /\ (req[x].arcs[d] # None => req[x].arcs[d] = registry[d])
      BY <1>6, <2>2 DEF TargetInv
    <3>2. req[x].arcs[d] # None => Alive(d, registry[d])  BY <3>1 DEF Alive
    <3>3. QED  BY <1>3, <3>1, <3>2
  <2>3. QED  BY <2>1, <2>2
<1>9. TargetsWithinLimit'
  <2>1. \A d \in Targets : {x \in Requests : d \in req'[x].permits} = {x \in Requests : d \in req[x].permits}
    BY <1>7
  <2>2. QED  BY <2>1 DEF TargetInv, TargetsWithinLimit
<1>10. \A x \in Requests : req'[x].phase \in Early \ {"resolved", "handler"} => req'[x].permits = {}
  BY <1>6 DEF TargetInv
<1>11. RequestTypes'  BY <1>1, <1>4 DEF RequestTypes, Becomes
<1>12. QED  BY <1>8, <1>9, <1>10, <1>11 DEF TargetInv

\* try_acquire: the semaphore counts every request that holds the device.
LEMMA AcquireTargetInv ==
    ASSUME RequestTypes, TargetInv, NEW r \in Requests, NEW d \in Targets, AcquireTarget(r, d)
    PROVE  RequestTypes' /\ TargetInv'
<1>1. /\ req[r].phase = "resolved" /\ req[r].arcs[d] # None /\ d \notin req[r].permits
      /\ registry' = registry /\ limits' = limits
  BY DEF AcquireTarget, At, Wanted, sessionVars
<1>2. req[r] \in Request /\ req[r].permits \in SUBSET Targets  BY DEF RequestTypes, Request
<1>3. {"answered", "handler", "resolved"} \subseteq Phases \ Waiting  BY DEF Phases, Unsettled, Early, Waiting
<1>4. CASE Drops(r, "answered", {}, [e \in Targets |-> None])
  <2>1. [e \in Targets |-> None] \in [Targets -> Requests \cup {None}] /\ {} \in SUBSET Targets
    OBVIOUS
  <2>2. PICK n \in Request : /\ Becomes(r, n) /\ n.phase = "answered" /\ n.permits = {}
                             /\ n.arcs = [e \in Targets |-> None]
    BY <1>3, <1>4, <2>1, RefuseMove
  <2>3. req'[r].permits = {} /\ req'[r].arcs = [e \in Targets |-> None]  BY <2>2 DEF Becomes
  <2>4. \A e \in Targets : req'[r].arcs[e] = None  BY <2>3
  <2>5. Held(r)  BY <2>2, <2>3, <2>4 DEF Becomes, Held
  <2>6. QED  BY <1>1, <2>5, HeldTargets DEF Held, RequestTypes
<1>5. ASSUME NEW to \in {"handler", "resolved"}, Permits(r, req[r].permits \cup {d}, to),
             Cardinality(InUse(d, req[r].arcs[d])) < MaxPerTarget
      PROVE  RequestTypes' /\ TargetInv'
  <2>1. req[r].permits \cup {d} \in SUBSET Targets  BY <1>2
  <2>2. PICK n \in Request : /\ Becomes(r, n) /\ n.phase = to /\ n.arcs = req[r].arcs
                             /\ n.permits = req[r].permits \cup {d}
    BY <1>3, <1>5, <2>1, PermitMove
  <2>3. /\ req'[r].phase = to /\ req'[r].arcs = req[r].arcs /\ req'[r].permits = req[r].permits \cup {d}
        /\ \A x \in Requests : x # r => req'[x] = req[x]
    BY <2>2 DEF Becomes
  <2>4. \A x \in Requests : req'[x].phase \in Early \ {"resolved", "handler"} => req'[x].permits = {}
    BY <1>5, <2>3 DEF TargetInv
  <2>5. \A x \in Requests, e \in Targets :
          /\ e \in req'[x].permits => req'[x].arcs[e] # None
          /\ req'[x].arcs[e] # None => req'[x].arcs[e] = registry'[e]
    BY <1>1, <2>3 DEF TargetInv
  <2>6. ASSUME NEW e \in Targets
        PROVE  Cardinality({x \in Requests : e \in req'[x].permits}) <= MaxPerTarget
    <3> DEFINE S == {x \in Requests : e \in req[x].permits}
               T == {x \in Requests : e \in req'[x].permits}
    <3>1. CASE e # d
      <4>1. T = S  BY <2>3, <3>1
      <4>2. QED  BY <4>1 DEF TargetInv, TargetsWithinLimit
    <3>2. CASE e = d
      <4>1. T = S \cup {r} /\ r \notin S  BY <1>1, <2>3, <3>2
      <4>2. S = InUse(d, req[r].arcs[d])  BY <1>1, <3>2 DEF InUse, TargetInv
      <4>3. Cardinality(S) < MaxPerTarget  BY <1>5, <4>2
      <4>4. IsFiniteSet(S)  BY NamesAssumption, FS_Subset
      <4> HIDE DEF S, T
      <4>5. Cardinality(S) \in Nat /\ Cardinality(S \cup {r}) = Cardinality(S) + 1  BY <4>1, <4>4, AddOne
      <4>6. Cardinality(T) <= MaxPerTarget  BY <4>1, <4>3, <4>5, LimitsAssumption
      <4>7. QED  BY <4>6 DEF T
    <3>3. QED  BY <3>1, <3>2
  <2>7. RequestTypes'  BY <1>1, <2>2 DEF RequestTypes, Becomes
  <2>8. QED  BY <2>4, <2>5, <2>6, <2>7 DEF TargetInv, TargetsWithinLimit
<1>6. \/ Drops(r, "answered", {}, [e \in Targets |-> None])
      \/ /\ Cardinality(InUse(d, req[r].arcs[d])) < MaxPerTarget
         /\ \E to \in {"handler", "resolved"} : Permits(r, req[r].permits \cup {d}, to)
  <2>1. \/ req' = [req EXCEPT ![r].phase = "answered", ![r].permits = {},
                              ![r].arcs = [e \in Targets |-> None]]
        \/ /\ Cardinality(InUse(d, req[r].arcs[d])) < MaxPerTarget
           /\ req' = [req EXCEPT ![r].permits = req[r].permits \cup {d},
                       ![r].phase = IF Wanted(r) = req[r].permits \cup {d} THEN "handler" ELSE req[r].phase]
    BY DEF AcquireTarget, RequestTypes
  <2>2. QED  BY <1>1, <2>1 DEF Drops, Permits
<1>7. QED  BY <1>4, <1>5, <1>6

-----------------------------------------------------------------------------
(* The whole *)

LEMMA InitInv == Init => AllInv
<1> SUFFICES ASSUME Init PROVE AllInv  OBVIOUS
<1>1. /\ NewRequest.phase = "new" /\ NewRequest.kind = "call" /\ NewRequest.about = None
      /\ NewRequest.reserved = FALSE /\ NewRequest.named = FALSE /\ NewRequest.permits = {}
      /\ NewRequest.arcs = [d \in Targets |-> None]
  BY DEF NewRequest
<1>2. NewRequest \in Request
  <2>1. "new" \in Phases /\ "call" \in Kinds  BY DEF Phases, Unsettled, Early, Kinds
  <2>2. [d \in Targets |-> None] \in [Targets -> Requests \cup {None}]  OBVIOUS
  <2>3. QED  BY <2>1, <2>2 DEF NewRequest, Request
<1>3. \A r \in Requests : req[r] = NewRequest  BY DEF Init
<1>4. RequestTypes  BY <1>2 DEF Init, RequestTypes
<1>5. /\ tokens.counts = [t \in Tokens |-> 0] /\ tokens.sessions = [s \in Requests |-> None]
      /\ tokens.pending = 0 /\ tokens.unbound = {} /\ tokens.closedEarly = {}
  BY DEF Init
<1>6. tokens \in TokenState  BY DEF Init, TokenState
<1>7. Untracked \in Activity /\ ~Untracked.tracked  BY DEF Untracked, Activity
<1>8. activity \in [Requests -> Activity] /\ Tracked = {}  BY <1>7 DEF Init, Tracked
<1>9. IsFiniteSet({}) /\ Cardinality({}) = 0  BY FS_EmptySet
<1>10. SessionTypes  BY <1>6, <1>8, <1>9 DEF Init, SessionTypes
<1>11. RequestInv  BY <1>1, <1>3 DEF RequestInv, RequestOK, AboutOK
<1>12. OrderInv  BY <1>5, <1>8 DEF Init, OrderInv
<1>13. LeavingInv  BY <1>1, <1>3 DEF Init, LeavingInv
<1>14. NoOrphanSession  BY DEF Init, NoOrphanSession
<1>15. CountInv
  <2>1. Counting = {} /\ Counted = {} /\ Lowering = {}  BY <1>1, <1>3 DEF Init, Counting, Counted, Lowering
  <2>2. active = 0 /\ MaxSessions \in Nat  BY LimitsAssumption DEF Init
  <2>3. QED  BY <1>8, <1>9, <2>1, <2>2 DEF CountInv
<1>16. SlotsAreAccounted
  <2>1. {r \in Requests : req[r].reserved} = {}  BY <1>1, <1>3
  <2>2. ASSUME NEW t \in Tokens PROVE BoundTo(t) = {} /\ ReservedBy(t) = {} /\ tokens.counts[t] = 0
    BY <1>1, <1>3, <1>5, <2>2, NamesAssumption DEF BoundTo, ReservedBy
  <2>3. MaxSessionsPerToken \in Nat  BY LimitsAssumption
  <2>4. tokens.pending = Cardinality({r \in Requests : req[r].reserved})  BY <1>5, <1>9, <2>1
  <2>5. ASSUME NEW t \in Tokens
        PROVE  /\ tokens.counts[t] = Cardinality(BoundTo(t)) + Cardinality(ReservedBy(t))
               /\ tokens.counts[t] <= MaxSessionsPerToken
    <3>1. tokens.counts[t] = 0 /\ Cardinality(BoundTo(t)) = 0 /\ Cardinality(ReservedBy(t)) = 0
      BY <1>9, <2>2
    <3>2. QED  BY <2>3, <3>1
  <2>6. QED  BY <2>4, <2>5 DEF SlotsAreAccounted
<1>17. ChargeInv  BY <1>1, <1>3, <1>5, <1>8 DEF ChargeInv
<1>18. TargetInv
  <2>1. \A r \in Requests, d \in Targets : d \notin req[r].permits /\ req[r].arcs[d] = None  BY <1>1, <1>3
  <2>2. \A d \in Targets : {r \in Requests : d \in req[r].permits} = {}  BY <2>1
  <2>3. MaxPerTarget \in Nat  BY LimitsAssumption
  <2>4. TargetsWithinLimit
    <3>1. 0 <= MaxPerTarget  BY <2>3
    <3>2. \A d \in Targets : Cardinality({r \in Requests : d \in req[r].permits}) = 0  BY <1>9, <2>2
    <3>3. QED  BY <3>1, <3>2 DEF TargetsWithinLimit
  <2>5. QED  BY <1>1, <1>3, <2>1, <2>4 DEF TargetInv
<1>19. QED
  BY <1>4, <1>10, <1>11, <1>12, <1>13, <1>14, <1>15, <1>16, <1>17, <1>18 DEF AllInv, SessionInv

LEMMA RequestStepInv ==
    ASSUME AllInv, NEW r \in Requests,
           \/ Accept(r) \/ Admit(r) \/ Pass(r) \/ Register(r) \/ Handle(r)
           \/ Settle(r) \/ EndBody(r) \/ Cancel(r)
    PROVE  AllInv'
<1>1. RequestTypes /\ TargetInv /\ SessionInv  BY DEF AllInv
<1>2. RequestTypes' /\ TargetInv'
  <2>1. CASE HoldStep(r)
    <3>1. Held(r) /\ registry' = registry /\ limits' = limits  BY <1>1, <2>1, HoldSteps
    <3>2. QED  BY <1>1, <3>1, HeldTargets DEF Held, RequestTypes
  <2>2. CASE \E named \in SUBSET Targets : ResolveTargets(r, named)  BY <1>1, <2>2, ResolveTargetsInv
  <2>3. CASE \E d \in Targets : AcquireTarget(r, d)  BY <1>1, <2>3, AcquireTargetInv
  <2>4. QED  BY <2>1, <2>2, <2>3 DEF HoldStep, Pass
<1>3. SessionInv'
  <2>1. CASE \/ Accept(r) \/ AcquireToken(r) \/ CheckCapacity(r) \/ Pass(r)
             \/ AnswerWithoutSession(r) \/ AnswerOverCap(r) \/ AnswerCall(r) \/ AnswerDelete(r) \/ EndBody(r)
    BY <1>1, <2>1, QuietInv
  <2>2. CASE Reserve(r)
    <3>1. CASE UNCHANGED tokens
      <4>1. Leaves(r)
        <5>1. tokens.pending # tokens.pending + 1  BY <1>1 DEF SessionInv, SessionTypes, TokenState
        <5>2. tokens' = [tokens EXCEPT !.counts[TokenOf[r]] = @ + 1, !.pending = @ + 1]
                 => tokens'.pending = tokens.pending + 1
          BY <1>1 DEF SessionInv, SessionTypes, TokenState
        <5>3. QED  BY <2>2, <3>1, <5>1, <5>2 DEF Reserve
      <4>2. QED  BY <1>1, <2>2, <3>1, <4>1, QuietInv
    <3>2. QED  BY <1>1, <2>2, <3>1, ReserveInv
  <2>3. CASE Register(r)
    BY <1>1, <2>3, CountSessionInv, TrackInv, RollBackInv, CleanupInv DEF Register
  <2>4. CASE CreateInner(r) \/ CloseInner(r) \/ UnregisterClosed(r)
    BY <1>1, <2>4, CreateInv, CloseInnerInv, UnregisterInv
  <2>5. CASE \E succeeds \in BOOLEAN : AnswerInitialize(r, succeeds)  BY <1>1, <2>5, InitializeInv
  <2>6. CASE Settle(r) \/ Cancel(r)  BY <1>1, <2>6, SettleInv, CancelInv
  <2>7. QED  BY <2>1, <2>2, <2>3, <2>4, <2>5, <2>6 DEF Admit, Handle
<1>4. QED  BY <1>2, <1>3 DEF AllInv

LEMMA OtherStepInv ==
    ASSUME AllInv,
           \/ \E s \in Requests : WorkerEnds(s)
           \/ \E l \in leaving : Unregister(l)
           \/ Tick \/ Reaper
    PROVE  AllInv'
<1>1. RequestTypes /\ TargetInv /\ SessionInv  BY DEF AllInv
<1>2. UNCHANGED <<limits, req, registry>>
  BY DEF WorkerEnds, Unregister, RemoveEntry, LowerCount, ReleaseToken, CleanUpInner, Tick, Reaper,
     ReapSweep, Reap
<1>3. RequestTypes' /\ TargetInv'
  BY <1>1, <1>2 DEF RequestTypes, TargetInv, TargetsWithinLimit
<1>4. SessionInv'
  <2>1. CASE \E s \in Requests : WorkerEnds(s)  BY <1>1, <2>1, WorkerInv
  <2>2. CASE \E l \in leaving : Unregister(l)
    BY <1>1, <2>2, RemoveInv, LowerInv, ReleaseInv, CleanUpInv DEF Unregister
  <2>3. CASE Tick \/ Reaper  BY <1>1, <2>3, ClockInv, ReapInv DEF Reaper
  <2>4. QED  BY <2>1, <2>2, <2>3
<1>5. QED  BY <1>3, <1>4 DEF AllInv

LEMMA StutterInv ==
    ASSUME AllInv, UNCHANGED vars
    PROVE  AllInv'
<1>1. UNCHANGED <<limits, req, registry, tokens, active, activity, inner, workers, leaving, expired>>
  BY DEF vars
<1>2. Tracked' = Tracked /\ Known' = Known /\ Counting' = Counting /\ Counted' = Counted
      /\ Lowering' = Lowering
  BY <1>1 DEF Tracked, Known, Counting, Counted, Lowering
<1>3. RequestTypes' /\ TargetInv'
  BY <1>1 DEF AllInv, RequestTypes, TargetInv, TargetsWithinLimit
<1>4. RequestInv' /\ Onward  BY <1>1, Still DEF AllInv, SessionInv
<1>5. SessionTypes' /\ NoOrphanSession' /\ CountInv' /\ LeavingInv'
  BY <1>1, <1>2 DEF AllInv, SessionInv, SessionTypes, NoOrphanSession, CountInv, LeavingInv
<1>6. OrderInv'  BY <1>1, <1>2, <1>4, <1>5, OrderKeep DEF AllInv, SessionInv
<1>7. SlotsAreAccounted'  BY <1>1, SlotKeep DEF AllInv, SessionInv
<1>8. ChargeInv'
  <2>1. \A s : Live(s)' <=> Live(s)  BY <1>1, <1>2 DEF Live
  <2>2. QED  BY <1>1, <1>2, <2>1 DEF AllInv, SessionInv, ChargeInv
<1>9. QED  BY <1>3, <1>4, <1>5, <1>6, <1>7, <1>8 DEF AllInv, SessionInv

\* Every reachable state of the transport satisfies the inductive invariant.
THEOREM TransportInvariant == Spec => []AllInv
<1>1. AllInv /\ [Next]_vars => AllInv'
  BY RequestStepInv, OtherStepInv, StutterInv DEF Next
<1>2. QED  BY <1>1, InitInv, PTL DEF Spec

\* A token's count is its bound sessions plus its reservations under way and never
\* exceeds max_sessions_per_token, and tracked sessions are charged to their token,
\* whatever the order of commits, drops, cancellations, closes and reaping.
THEOREM SessionsStayAccounted == Spec => []SessionsAreAccounted
<1>1. AllInv => SessionsAreAccounted
  BY DEF AllInv, SessionInv, ChargeInv, Live, SessionsAreAccounted, SessionsAreCharged
<1>2. QED  BY <1>1, TransportInvariant, PTL

\* The session counter counts what it should, the tracked sessions stay within
\* max_sessions, and every device within max_inflight_requests_per_device.
THEOREM LimitsStayHeld == Spec => []LimitsHold
<1>1. AllInv => LimitsHold
  <2> SUFFICES ASSUME AllInv PROVE LimitsHold  OBVIOUS
  <2>1. TargetsWithinLimit /\ CountInv /\ SessionTypes  BY DEF AllInv, TargetInv, SessionInv
  <2>2. {Cardinality(Tracked), Cardinality(Counted)} \subseteq Nat  BY <2>1, CountedSets
  <2>3. Cardinality(Tracked) <= MaxSessions  BY <2>1, <2>2, LimitsAssumption DEF CountInv
  <2>4. SessionCapHolds  BY <2>1, <2>3 DEF CountInv, SessionCapHolds, Counting, Lowering
  <2>5. QED  BY <2>1, <2>4 DEF LimitsHold
<1>2. QED  BY <1>1, TransportInvariant, PTL

\* No session is left with rmcp's manager that neither the reaper nor a cleanup
\* under way will find, wherever the client disconnects.
THEOREM NoSessionIsOrphaned == Spec => []NoOrphanSession
<1>1. AllInv => NoOrphanSession  BY DEF AllInv, SessionInv
<1>2. QED  BY <1>1, TransportInvariant, PTL
=============================================================================
