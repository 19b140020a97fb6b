---------------------------- MODULE MCCallsReturn ----------------------------
(***************************************************************************)
(* Every call comes back: the change-set calls and the operation calls,    *)
(* each on its own, under the fairness of the runtime.  A behaviour moves  *)
(* one of the two.                                                         *)
(***************************************************************************)
EXTENDS ChangeSets

CONSTANTS OpIds, Endpoints, EndpointOf, Entry, MaxOperations, RequiresLock, Retain,
          TaintedStage, ForeignEdits, MaxFaults, Mgmt

VARIABLES ops, opFile, opUp, opGuard, opCalls, handles, candidate, running, lock, sent,
          faults, opMinted, intents, committed

Op == INSTANCE Operations
      WITH file <- opFile, up <- opUp, guard <- opGuard, calls <- opCalls, minted <- opMinted

opVars == <<ops, opFile, opUp, opGuard, opCalls, handles, candidate, running, lock, sent,
            faults, opMinted, intents, committed>>

VARIABLE part  \* the part that moves

OneEndpoint == {Mgmt}
Aliased == [d \in Devices |-> Mgmt]

CallsInit == Init /\ Op!Init /\ part \in {"change sets", "operations"}

CallsNext ==
    /\ UNCHANGED part
    /\ \/ part = "change sets" /\ Next /\ UNCHANGED opVars
       \/ part = "operations" /\ Op!Next /\ UNCHANGED vars

\* The fairness of each module, for the part that moves.
Proceeds(c) ==
    \/ part = "change sets" /\ Proceed(c) /\ UNCHANGED <<part, opVars>>
    \/ part = "operations" /\ Op!Advance(c) /\ UNCHANGED <<part, vars>>
TakesGuard(c) ==
    \/ part = "change sets" /\ TakeGuard(c) /\ UNCHANGED <<part, opVars>>
    \/ part = "operations" /\ Op!TakeGuard(c) /\ UNCHANGED <<part, vars>>

callsVars == <<part, vars, opVars>>

CallsSpec ==
    /\ CallsInit /\ [][CallsNext]_callsVars
    /\ \A c \in Callers : WF_callsVars(Proceeds(c)) /\ SF_callsVars(TakesGuard(c))

Busy(c) == calls[c].step # "idle" \/ opCalls[c].kind # "idle"

\* Every call returns: nobody waits for ever on a device guard, because every way out
\* of apply_change_set, stage, validate, commit and discard drops the guard it took.
CallsReturn == \A c \in Callers : Busy(c) ~> ~Busy(c)
=============================================================================
