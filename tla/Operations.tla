----------------------------- MODULE Operations -----------------------------
(***************************************************************************)
(* The operation half of mecmcp-changeset: stage, validate, commit and     *)
(* discard against a device's candidate configuration, the store of        *)
(* operation records behind them, restart recovery and offline resolution. *)
(*                                                                         *)
(* A call holds a guard keyed on the device's NAME, alternates device RPCs *)
(* with writes of its record, and may be cut off by a crash between any    *)
(* two of them.  Every write stores a snapshot of the whole map; it can    *)
(* fail with nothing written ("lost") or after the rename ("unsure").      *)
(*                                                                         *)
(* The device is external.  Its candidate and running configurations are   *)
(* reduced to a tag: the operation whose actions they hold, "Base", or     *)
(* "Drift" for what another administrator put there.  The fingerprint is   *)
(* the candidate's tag.  The RPCs keep the contract DeviceTransaction      *)
(* states: a commit that returns Err did not reach the device, a lock that *)
(* returns Err is not held.                                                *)
(***************************************************************************)
EXTENDS Naturals, FiniteSets

CONSTANTS
    OpIds,          \* operation ids new_operation_id() can draw
    Devices,        \* inventory names
    Endpoints,      \* canonical endpoints
    EndpointOf,     \* two names may resolve to one endpoint
    Callers,        \* concurrent API calls
    NoOne,          \* "None" in an optional operation, device or caller
    Entry,          \* which entry points stage: stage_operation, apply_change_set
    MaxOperations,  \* limits.max_operations
    RequiresLock,   \* requires_config_lock()
    Retain,         \* staged_recovery = StagedRecovery::Retain
    TaintedStage,   \* a failed stage() may fail to revert its first actions
    ForeignEdits,   \* another administrator may edit the candidate
    MaxFaults       \* bound: writes of the state file that may fail

ASSUME ConstantsAssumption ==
    /\ EndpointOf \in [Devices -> Endpoints]
    /\ NoOne \notin OpIds \cup Devices \cup Callers
    /\ {"Base", "Drift"} \cap OpIds = {}
    /\ Entry \subseteq {"stage", "apply"}
    /\ MaxOperations \in Nat \ {0}
    /\ {RequiresLock, Retain, TaintedStage, ForeignEdits} \subseteq BOOLEAN
    /\ MaxFaults \in Nat

VARIABLES
    ops,            \* the coordinator's in-memory map (state.operations)
    file,           \* the same map as the state file holds it
    up,             \* the server process is running
    guard,          \* endpoint_locks: which call holds a device's guard
    calls,          \* where each API call stands
    handles,        \* operations whose T::Staged handle some caller holds
    candidate,      \* per endpoint: the candidate configuration
    running,        \* per endpoint: the running configuration
    lock,           \* per endpoint: the operation holding the device lock
    sent,           \* operations whose commit the device may still carry out
    faults,         \* failed writes so far
    \* History.
    minted,         \* the device an id was drawn for (ids are never reused)
    intents,        \* operations with an apply-intent evidence record
    committed       \* operations whose change took effect on the device

store == <<ops, file>>
device == <<candidate, running, lock, sent, committed>>
vars == <<ops, file, up, guard, calls, handles, candidate, running, lock,
          sent, faults, minted, intents, committed>>

-----------------------------------------------------------------------------
(* Records *)

LifecycleState == {"Staging", "Staged", "Validating", "Validated", "Committing",
                   "Committed", "Failed", "Discarded", "Indeterminate"}

Content == {"Base", "Drift"} \cup OpIds

OperationRecord ==
    [state: LifecycleState \cup {"Absent"},
     device: Devices \cup {NoOne},
     current: Content,            \* the candidate fingerprint it stands on
     config_lock_held: BOOLEAN]

NoRecord == [state |-> "Absent", device |-> NoOne, current |-> "Base",
             config_lock_held |-> FALSE]

terminal(s) == s \in {"Committed", "Discarded"}

Exists(r) == r.state # "Absent"
Active(r) == Exists(r) /\ ~terminal(r.state)

Kinds == {"stage", "apply", "validate", "commit", "discard"}

\* A call's local record; want is the fingerprint its caller observed, locked
\* is device_lock_acquired.
Call == [kind: Kinds \cup {"idle"},
         step: {"idle", "guard", "begin", "claim", "risk", "lock", "check",
                "touch", "stage", "after", "staged", "note", "release", "drop",
                "validating", "validate", "committing", "commit", "reverting",
                "rollback", "reverted", "unlock", "reread", "settle"},
         op: OpIds \cup {NoOne},
         device: Devices \cup {NoOne},
         want: Content,
         locked: BOOLEAN,
         rec: OperationRecord]

IdleCall == [kind |-> "idle", step |-> "idle", op |-> NoOne, device |-> NoOne,
             want |-> "Base", locked |-> FALSE, rec |-> NoRecord]

At(c, s) == up /\ calls[c].step = s
End(c) == EndpointOf[calls[c].device]     \* the endpoint a call talks to
Go(c, s) == calls' = [calls EXCEPT ![c].step = s]
GoWith(c, s, r) == calls' = [calls EXCEPT ![c].step = s, ![c].rec = r]

\* The call's future is dropped, and the guard with it.
Return(c) ==
    /\ calls' = [calls EXCEPT ![c] = IdleCall]
    /\ guard' = [d \in Devices |-> IF guard[d] = c THEN NoOne ELSE guard[d]]

-----------------------------------------------------------------------------
(* The store *)

Outcomes == {"ok", "lost", "unsure"}

\* What a write of the map "next" leaves on disk.
persist_locked(next, outcome) ==
    /\ outcome # "ok" => faults < MaxFaults
    /\ faults' = IF outcome = "ok" THEN faults ELSE faults + 1
    /\ file' = IF outcome = "lost" THEN file ELSE next

\* coordinator.update(): upsert, rolled back in memory when the write fails.
update(o, r, outcome) ==
    LET next == [ops EXCEPT ![o] = r] IN
    /\ persist_locked(next, outcome)
    /\ ops' = IF outcome = "ok" THEN next ELSE ops

\* coordinator.remove(): gone from memory whether or not the write succeeds.
remove(o, outcome) ==
    LET next == [ops EXCEPT ![o] = NoRecord] IN
    persist_locked(next, outcome) /\ ops' = next

Count(m) == Cardinality({o \in OpIds : Exists(m[o])})

\* insert() makes room by dropping every terminal record, in memory only.
Evicted ==
    IF Count(ops) >= MaxOperations
    THEN [o \in OpIds |-> IF terminal(ops[o].state) THEN NoRecord ELSE ops[o]]
    ELSE ops

SameName(r, d) == r.device = d                                      \* mutant
SameDevice(r, d) == r.device = d \/ EndpointOf[r.device] = EndpointOf[d]

Admits(m, d) ==
    /\ Count(m) < MaxOperations
    /\ \A o \in OpIds : Active(m[o]) => ~SameDevice(m[o], d)

\* coordinator.insert(): refused (with the eviction kept), or written and
\* taken back out when the write fails.
insert(o, r, outcome) ==
    LET next == [Evicted EXCEPT ![o] = r] IN
    /\ persist_locked(next, outcome)
    /\ ops' = IF outcome = "ok" THEN next ELSE Evicted

-----------------------------------------------------------------------------
(* A call begins: the first read of the record, then the guard *)

\* device_guard() waits.  A caller that stages names the candidate fingerprint
\* it has seen; the other calls are refused unless it is the current one.
Begin(c, kind, o, d, want, seen) ==
    /\ up
    /\ calls[c].kind = "idle"
    /\ calls' = [calls EXCEPT ![c] = [kind |-> kind, step |-> "guard", op |-> o,
                    device |-> d, want |-> want, locked |-> FALSE,
                    rec |-> seen]]
    /\ UNCHANGED <<ops, file, up, guard, handles, device, faults, minted, intents>>

stage_operation(c) == \E d \in Devices :
    "stage" \in Entry /\ Begin(c, "stage", NoOne, d, candidate[EndpointOf[d]], NoRecord)

apply_change_set(c) == \E d \in Devices :
    "apply" \in Entry /\ Begin(c, "apply", NoOne, d, candidate[EndpointOf[d]], NoRecord)

validate_operation(c) == \E o \in handles :
    /\ ops[o].state = "Staged"
    /\ Begin(c, "validate", o, ops[o].device, "Base", ops[o])

commit_operation(c) == \E o \in handles :
    Exists(ops[o]) /\ Begin(c, "commit", o, ops[o].device, "Base", ops[o])

Undiscardable == {"Validating", "Committing", "Committed", "Discarded",
                  "Indeterminate"}

discard_operation(c) == \E o \in OpIds :
    /\ Exists(ops[o])
    /\ ops[o].state \notin Undiscardable
    /\ Begin(c, "discard", o, ops[o].device, "Base", ops[o])

TakeGuard(c) ==
    /\ At(c, "guard")
    /\ guard[calls[c].device] = NoOne
    /\ guard' = [guard EXCEPT ![calls[c].device] = c]
    /\ Go(c, "begin")
    /\ UNCHANGED <<store, up, handles, device, faults, minted, intents>>

\* The token fires while the call waits for the guard or just after.
Cancel(c) ==
    /\ At(c, "guard") \/ At(c, "begin")
    /\ Return(c)
    /\ UNCHANGED <<store, up, handles, device, faults, minted, intents>>

-----------------------------------------------------------------------------
(* Staging: stage_operation and apply_change_set *)

StagingRecord(c) == [state |-> "Staging", device |-> calls[c].device,
                     current |-> calls[c].want, config_lock_held |-> FALSE]

IsStaging(c) == calls[c].kind \in {"stage", "apply"}

\* The record reserves the endpoint before the device is touched.  An apply
\* reads the fingerprint before it as well.
Reserve(c) == \E o \in OpIds, outcome \in Outcomes :
    /\ At(c, "begin") /\ IsStaging(c)
    /\ calls[c].kind = "apply" => candidate[End(c)] = calls[c].want
    /\ minted[o] = NoOne
    /\ minted' = [minted EXCEPT ![o] = calls[c].device]
    /\ Admits(Evicted, calls[c].device)
    /\ insert(o, StagingRecord(c), outcome)
    /\ IF outcome = "ok"
       THEN /\ calls' = [calls EXCEPT ![c].op = o, ![c].rec = StagingRecord(c),
                            ![c].step = CASE calls[c].kind = "apply" -> "claim"
                                          [] RequiresLock -> "risk"
                                          [] OTHER -> "check"]
            /\ UNCHANGED guard
       ELSE Return(c)
    /\ UNCHANGED <<up, handles, device, intents>>

\* No room, or the device is busy; what was evicted stays evicted.
ReserveRefused(c) ==
    /\ At(c, "begin") /\ IsStaging(c)
    /\ ~Admits(Evicted, calls[c].device)
    /\ ops' = Evicted
    /\ Return(c)
    /\ UNCHANGED <<file, up, handles, device, faults, minted, intents>>

\* An apply claims its change set and links the operation to it.  Either
\* write may be refused; the link's write stores the operations too.
Claim(c) ==
    /\ At(c, "claim")
    /\ \/ Go(c, "risk") /\ file' = ops
       \/ Go(c, "drop") /\ file' \in {file, ops}
    /\ UNCHANGED <<ops, up, guard, handles, device, faults, minted, intents>>

LockRisk(r) == [r EXCEPT !.config_lock_held = TRUE]

\* Where an error before the device was touched leads.  stage_operation
\* releases a lock it took and keeps the record unless the release is sure.
Untouched(c) == IF calls[c].locked THEN "release" ELSE "drop"

\* The lock risk is written before the lock is taken ...
RecordRisk(c) == \E outcome \in Outcomes :
    /\ At(c, "risk")
    /\ update(calls[c].op, LockRisk(calls[c].rec), outcome)
    /\ IF outcome = "ok"
       THEN GoWith(c, IF RequiresLock THEN "lock" ELSE "check", LockRisk(calls[c].rec))
       ELSE GoWith(c, "drop", LockRisk(calls[c].rec))
    /\ UNCHANGED <<up, guard, handles, device, minted, intents>>

TakeDeviceLock(c) ==
    /\ At(c, "lock")
    /\ \/ /\ lock[End(c)] = NoOne
          /\ lock' = [lock EXCEPT ![End(c)] = calls[c].op]
          /\ calls' = [calls EXCEPT ![c].step = "check", ![c].locked = TRUE]
       \/ Go(c, "drop") /\ UNCHANGED lock
    /\ UNCHANGED <<store, up, guard, handles, candidate, running, sent, committed,
                   faults, minted, intents>>

SkipCheck(c) == TRUE                                                \* mutant
Unmoved(c) == candidate[End(c)] = calls[c].want

\* The fingerprint is compared under the lock.  The read may fail.
CheckFingerprint(c) ==
    /\ At(c, "check")
    /\ \/ /\ Unmoved(c)
          /\ Go(c, IF calls[c].kind = "stage" THEN "touch" ELSE "stage")
       \/ Go(c, Untouched(c))
    /\ UNCHANGED <<store, up, guard, handles, device, faults, minted, intents>>

\* ... and once more before stage(), which may take a lock of its own.
RecordTouch(c) == \E outcome \in Outcomes :
    /\ At(c, "touch")
    /\ update(calls[c].op, LockRisk(calls[c].rec), outcome)
    /\ GoWith(c, IF outcome = "ok" THEN "stage" ELSE Untouched(c), LockRisk(calls[c].rec))
    /\ UNCHANGED <<up, guard, handles, device, minted, intents>>

DropAfterFailedStage(c) == Go(c, "drop")                            \* mutant

\* stage_operation keeps an Indeterminate record once staging began.  An
\* apply relies on stage() being all-or-none and drops the reservation.
AfterFailedStage(c) ==
    IF calls[c].kind = "stage"
    THEN GoWith(c, "settle", [calls[c].rec EXCEPT !.state = "Indeterminate"])
    ELSE Go(c, "drop")

StageRpc(c) == LET e == End(c) IN
    /\ At(c, "stage")
    /\ \/ /\ candidate' = [candidate EXCEPT ![e] = calls[c].op]
          /\ \/ UNCHANGED lock
             \/ ~RequiresLock /\ lock[e] = NoOne
                /\ lock' = [lock EXCEPT ![e] = calls[c].op]
          /\ Go(c, "after")
       \/ /\ candidate' \in {candidate} \cup
                IF TaintedStage THEN {[candidate EXCEPT ![e] = calls[c].op]} ELSE {}
          /\ AfterFailedStage(c)
          /\ UNCHANGED lock
    /\ UNCHANGED <<store, up, guard, handles, running, sent, committed, faults,
                   minted, intents>>

\* The fingerprint after staging, which may fail to be read.
ReadAfter(c) ==
    /\ At(c, "after")
    /\ \/ GoWith(c, "staged", [calls[c].rec EXCEPT !.state = "Staged",
                                  !.current = candidate[End(c)]])
       \/ GoWith(c, "settle", [calls[c].rec EXCEPT !.state = "Indeterminate"])
    /\ UNCHANGED <<store, up, guard, handles, device, faults, minted, intents>>

\* Staged is written and the handle returned.  When the write fails both
\* paths note Indeterminate; an apply returns its handle all the same.
RecordStaged(c) == \E outcome \in Outcomes :
    /\ At(c, "staged")
    /\ update(calls[c].op, calls[c].rec, outcome)
    /\ IF outcome = "ok"
       THEN handles' = handles \cup {calls[c].op} /\ Return(c)
       ELSE /\ GoWith(c, IF calls[c].kind = "stage" THEN "settle" ELSE "note",
                      [calls[c].rec EXCEPT !.state = "Indeterminate"])
            /\ UNCHANGED <<handles, guard>>
    /\ UNCHANGED <<up, device, minted, intents>>

NoteAndReturnHandle(c) == \E outcome \in Outcomes :
    /\ At(c, "note")
    /\ update(calls[c].op, calls[c].rec, outcome)
    /\ handles' = handles \cup {calls[c].op}
    /\ Return(c)
    /\ UNCHANGED <<up, device, minted, intents>>

\* What unlock() may answer, and what it did to the device lock of o at e.
Unlocked(e, o) == [lock EXCEPT ![e] = IF @ = o THEN NoOne ELSE @]
UnlockReply(e, o, reply) ==
    \/ reply = "Released" /\ lock' = Unlocked(e, o)
    \/ reply = "Unsupported" /\ UNCHANGED lock
    \/ reply = "Err" /\ lock' \in {lock, Unlocked(e, o)}
UnlockReplies == {"Released", "Unsupported", "Err"}

ForgetUnconfirmed(kind, reply) == TRUE                              \* mutant
\* An apply ignores the answer.
ReleaseIsConfirmed(kind, reply) == kind = "apply" \/ reply = "Released"

ReleaseRpc(c) == \E reply \in UnlockReplies :
    /\ At(c, "release")
    /\ UnlockReply(End(c), calls[c].op, reply)
    /\ IF ReleaseIsConfirmed(calls[c].kind, reply)
       THEN Go(c, "drop")
       ELSE GoWith(c, "settle", [calls[c].rec EXCEPT !.state = "Indeterminate"])
    /\ UNCHANGED <<store, up, guard, handles, candidate, running, sent, committed,
                   faults, minted, intents>>

\* The reservation is dropped and the error returned.
Drop(c) == \E outcome \in Outcomes :
    /\ At(c, "drop")
    /\ remove(calls[c].op, outcome)
    /\ Return(c)
    /\ UNCHANGED <<up, handles, device, minted, intents>>

\* The last write of a call, whatever came before it; its failure is only
\* reported to the caller.
Settle(c) == \E outcome \in Outcomes :
    /\ At(c, "settle")
    /\ update(calls[c].op, calls[c].rec, outcome)
    /\ Return(c)
    /\ UNCHANGED <<up, handles, device, minted, intents>>

-----------------------------------------------------------------------------
(* Validate, commit, discard: re-read under the guard, then go on *)

StaleRead(c) == calls[c].rec                                        \* mutant
Reread(c) == ops[calls[c].op]

\* require_operation_fingerprint()
Unchanged(c, r) == Exists(r) /\ r.current = candidate[End(c)]

\* A check under the guard refuses: wrong state, moved candidate, changed
\* policy, a read error, an evidence spool that does not accept the intent.
Refuse(c) ==
    /\ At(c, "begin")
    /\ Return(c)
    /\ UNCHANGED <<store, up, handles, device, faults, minted, intents>>

StartValidate(c) == LET r == Reread(c) IN
    /\ At(c, "begin") /\ calls[c].kind = "validate"
    /\ r.state = "Staged"
    /\ Unchanged(c, r)
    /\ GoWith(c, "validating", [r EXCEPT !.state = "Validating"])
    /\ UNCHANGED <<store, up, guard, handles, device, faults, minted, intents>>

\* The intent is on record before Committing is, and both before the device
\* is told.
RecordIntent(c) == intents' = intents \cup {calls[c].op}

StartCommit(c) == LET r == Reread(c) IN
    /\ At(c, "begin") /\ calls[c].kind = "commit"
    /\ r.state = "Validated"
    /\ Unchanged(c, r)
    /\ RecordIntent(c)
    /\ GoWith(c, "committing", [r EXCEPT !.state = "Committing"])
    /\ UNCHANGED <<store, up, guard, handles, device, faults, minted>>

StartDiscard(c) == LET r == Reread(c) IN
    /\ At(c, "begin") /\ calls[c].kind = "discard"
    /\ r.state \notin Undiscardable
    /\ Unchanged(c, r)
    /\ GoWith(c, "reverting", [r EXCEPT !.state = "Indeterminate"])
    /\ UNCHANGED <<store, up, guard, handles, device, faults, minted, intents>>

\* The in-flight state is written before the RPC it announces.
RpcAfter == [validating |-> "validate", committing |-> "commit",
             reverting |-> "rollback", reverted |-> "unlock"]

Announce(c) == \E outcome \in Outcomes :
    /\ up /\ calls[c].step \in DOMAIN RpcAfter
    /\ update(calls[c].op, calls[c].rec, outcome)
    /\ IF outcome = "ok"
       THEN Go(c, RpcAfter[calls[c].step]) /\ UNCHANGED guard
       ELSE Return(c)
    /\ UNCHANGED <<up, handles, device, minted, intents>>

ValidateRpc(c) == \E verdict \in {"Validated", "Failed"} :
    /\ At(c, "validate")
    /\ GoWith(c, "settle", [calls[c].rec EXCEPT !.state = verdict])
    /\ UNCHANGED <<store, up, guard, handles, device, faults, minted, intents>>

\* The device makes the candidate at e the running configuration; the lock of
\* o goes with it.
TakesEffect(o, e) ==
    /\ running' = [running EXCEPT ![e] = candidate[e]]
    /\ lock' = Unlocked(e, o)
    /\ committed' = committed \cup {o}

CommitRecordLosesUnknown(r, outcome) ==                             \* mutant
    IF outcome = "unknown" THEN [r EXCEPT !.state = "Failed"]
    ELSE [r EXCEPT !.state = IF outcome = "succeeded" THEN "Committed" ELSE @]

\* What the record says after a commit that answered.
CommitRecord(r, outcome) ==
    CASE outcome = "succeeded" ->
            [r EXCEPT !.state = "Committed", !.config_lock_held = FALSE]
      [] outcome = "awaiting" -> [r EXCEPT !.config_lock_held = FALSE]
      [] outcome = "detached" -> r
      [] outcome = "unknown" -> [r EXCEPT !.state = "Indeterminate"]
      [] outcome \in {"rejected", "unreached"} -> [r EXCEPT !.state = "Failed"]

\* A detached job, a timeout or a cancelled wait leaves the commit to the
\* device ("sent"); a provisional commit takes effect at once.
CommitRpc(c) == LET o == calls[c].op
                    e == End(c) IN
    /\ At(c, "commit")
    /\ \/ /\ TakesEffect(o, e)
          /\ \E outcome \in {"succeeded", "awaiting"} :
                /\ GoWith(c, "settle", CommitRecord(calls[c].rec, outcome))
                /\ sent' = IF outcome = "awaiting" THEN sent \cup {o} ELSE sent
       \/ /\ \E outcome \in {"detached", "unknown"} :
                GoWith(c, "settle", CommitRecord(calls[c].rec, outcome))
          /\ sent' = sent \cup {o}
          /\ UNCHANGED <<running, lock, committed>>
       \/ /\ \E outcome \in {"rejected", "unreached"} :
                GoWith(c, "settle", CommitRecord(calls[c].rec, outcome))
          /\ UNCHANGED <<running, lock, sent, committed>>
    /\ UNCHANGED <<store, up, guard, handles, candidate, faults, minted, intents>>

Reverted(e) == [candidate EXCEPT ![e] = running[e]]

\* An error is ambiguous: the device may have reverted and the reply got lost.
RollbackRpc(c) ==
    /\ At(c, "rollback")
    /\ \/ candidate' = Reverted(End(c)) /\ Go(c, "reverted")
       \/ /\ UNCHANGED candidate
          /\ GoWith(c, "settle", [calls[c].rec EXCEPT !.state = "Failed"])
       \/ /\ candidate' \in {candidate, Reverted(End(c))}
          /\ Go(c, "settle")
    /\ UNCHANGED <<store, up, guard, handles, running, lock, sent, committed,
                   faults, minted, intents>>

\* Only a confirmed release makes the discard terminal.
UnlockRecord(r, reply) ==
    IF reply = "Released"
    THEN [r EXCEPT !.config_lock_held = FALSE, !.state = "Discarded"]
    ELSE r

UnlockRpc(c) == \E reply \in UnlockReplies :
    /\ At(c, "unlock")
    /\ UnlockReply(End(c), calls[c].op, reply)
    /\ GoWith(c, IF reply = "Released" THEN "reread" ELSE "settle",
              UnlockRecord(calls[c].rec, reply))
    /\ UNCHANGED <<store, up, guard, handles, candidate, running, sent, committed,
                   faults, minted, intents>>

\* The fingerprint after a discard; a failed read leaves it unsettled.
ReadReverted(c) ==
    /\ At(c, "reread")
    /\ \/ GoWith(c, "settle", [calls[c].rec EXCEPT !.current = candidate[End(c)]])
       \/ GoWith(c, "settle", [calls[c].rec EXCEPT !.state = "Indeterminate"])
    /\ UNCHANGED <<store, up, guard, handles, device, faults, minted, intents>>

-----------------------------------------------------------------------------
(* Restart, offline resolution, and the world outside the process *)

\* The process stops.  A session-bound device lock dies with it, a
\* device-owned one stays.
Crash ==
    /\ up
    /\ up' = FALSE
    /\ ops' = [o \in OpIds |-> NoRecord]
    /\ guard' = [d \in Devices |-> NoOne]
    /\ calls' = [c \in Callers |-> IdleCall]
    /\ handles' = {}
    /\ \E gone \in SUBSET Endpoints :
          lock' = [e \in Endpoints |-> IF e \in gone THEN NoOne ELSE lock[e]]
    /\ UNCHANGED <<file, candidate, running, sent, committed, faults, minted, intents>>

RecoverAsInterrupted(r) ==                                           \* mutant
    IF Active(r) THEN [r EXCEPT !.state = "Interrupted"] ELSE r

RecoverOperation(r) ==
    IF \/ r.state \in {"Staging", "Validating", "Committing"}
       \/ r.state = "Staged" /\ ~Retain
    THEN [r EXCEPT !.state = "Indeterminate"]
    ELSE r

Recovered == [o \in OpIds |-> RecoverOperation(file[o])]

\* load(): recovered records are written back; if that fails the server does
\* not start.  A vendor that retains Staged operations rebuilds their handles.
load == \E outcome \in Outcomes :
    /\ ~up
    /\ IF Recovered = file
       THEN outcome = "ok" /\ UNCHANGED <<file, faults>>
       ELSE persist_locked(Recovered, outcome)
    /\ IF outcome = "ok"
       THEN /\ up' = TRUE
            /\ ops' = Recovered
            /\ handles' = {o \in OpIds : Recovered[o].state = "Staged"}
       ELSE UNCHANGED <<up, ops, handles>>
    /\ UNCHANGED <<guard, calls, device, minted, intents>>

Resolvable(r) == Active(r)

\* resolve_persisted_operation(), refused while a server owns the file.  The
\* operator has reconciled the device first and says what is true of it.
resolve_persisted_operation(o) == \E disposition \in {"Committed", "Discarded"},
                                     outcome \in Outcomes :
    LET e == EndpointOf[file[o].device]
        done == [file EXCEPT ![o].state = disposition, ![o].config_lock_held = FALSE]
    IN
    /\ ~up
    /\ Resolvable(file[o])
    /\ o \notin sent
    /\ disposition = (IF o \in committed THEN "Committed" ELSE "Discarded")
    /\ persist_locked(done, outcome)
    /\ lock' = Unlocked(e, o)
    /\ candidate' = IF candidate[e] = o /\ o \notin committed THEN Reverted(e) ELSE candidate
    /\ UNCHANGED <<ops, up, guard, calls, handles, running, sent, committed, minted,
                   intents>>

\* A write of another part of the store snapshots the operations as well.
PersistOther ==
    /\ up
    /\ file' = ops
    /\ UNCHANGED <<ops, up, guard, calls, handles, device, faults, minted, intents>>

\* Another administrator edits the candidate; a device lock keeps them out.
ForeignEdit(e) ==
    /\ ForeignEdits
    /\ lock[e] = NoOne
    /\ candidate' = [candidate EXCEPT ![e] = "Drift"]
    /\ UNCHANGED <<store, up, guard, calls, handles, running, lock, sent, committed,
                   faults, minted, intents>>

\* The device finishes a commit nobody waited for (its lock may survive it),
\* or it fails; a provisional commit is confirmed out of band or rolled back.
DeviceFinishes(o) == LET e == EndpointOf[minted[o]] IN
    /\ o \in sent
    /\ sent' = sent \ {o}
    /\ \/ /\ o \notin committed
          /\ running' = [running EXCEPT ![e] = candidate[e]]
          /\ lock' \in {lock, Unlocked(e, o)}
          /\ committed' = committed \cup {o}
          /\ UNCHANGED candidate
       \/ /\ o \in committed
          /\ running' = [running EXCEPT ![e] = "Base"]
          /\ candidate' = [candidate EXCEPT ![e] = "Base"]
          /\ committed' = committed \ {o}
          /\ UNCHANGED lock
       \/ UNCHANGED <<candidate, running, lock, committed>>
    /\ UNCHANGED <<store, up, guard, calls, handles, faults, minted, intents>>

-----------------------------------------------------------------------------

Init ==
    /\ ops = [o \in OpIds |-> NoRecord]
    /\ file = [o \in OpIds |-> NoRecord]
    /\ up = TRUE
    /\ guard = [d \in Devices |-> NoOne]
    /\ calls = [c \in Callers |-> IdleCall]
    /\ handles = {}
    /\ candidate = [e \in Endpoints |-> "Base"]
    /\ running = [e \in Endpoints |-> "Base"]
    /\ lock = [e \in Endpoints |-> NoOne]
    /\ sent = {}
    /\ faults = 0
    /\ minted = [o \in OpIds |-> NoOne]
    /\ intents = {}
    /\ committed = {}

StageStep(c) ==
    Reserve(c) \/ ReserveRefused(c) \/ Claim(c) \/ RecordRisk(c) \/ TakeDeviceLock(c)
    \/ CheckFingerprint(c) \/ RecordTouch(c) \/ StageRpc(c) \/ ReadAfter(c)
    \/ RecordStaged(c) \/ NoteAndReturnHandle(c) \/ ReleaseRpc(c) \/ Drop(c)

LaterStep(c) ==
    StartValidate(c) \/ StartCommit(c) \/ StartDiscard(c) \/ Announce(c)
    \/ ValidateRpc(c) \/ CommitRpc(c) \/ RollbackRpc(c) \/ UnlockRpc(c)
    \/ ReadReverted(c) \/ Settle(c)

Request(c) ==
    stage_operation(c) \/ apply_change_set(c) \/ validate_operation(c)
    \/ commit_operation(c) \/ discard_operation(c)

\* What the process does for a call without waiting for anyone outside.
Advance(c) == StageStep(c) \/ LaterStep(c) \/ Refuse(c)

Environment ==
    \/ Crash \/ load \/ PersistOther
    \/ \E o \in OpIds : resolve_persisted_operation(o) \/ DeviceFinishes(o)
    \/ \E e \in Endpoints : ForeignEdit(e)

Next ==
    \/ \E c \in Callers : Request(c) \/ TakeGuard(c) \/ Cancel(c) \/ Advance(c)
    \/ Environment

Spec == Init /\ [][Next]_vars

\* A call's future is polled to completion: every RPC has a timeout and every
\* write returns.  tokio's Mutex is FIFO, so a waiter is not overtaken for ever.
Fairness == \A c \in Callers : WF_vars(Advance(c)) /\ SF_vars(TakeGuard(c))

FairSpec == Spec /\ Fairness

-----------------------------------------------------------------------------
(* Properties *)

TypeOK ==
    /\ ops \in [OpIds -> OperationRecord]
    /\ file \in [OpIds -> OperationRecord]
    /\ up \in BOOLEAN
    /\ guard \in [Devices -> Callers \cup {NoOne}]
    /\ calls \in [Callers -> Call]
    /\ handles \subseteq OpIds
    /\ candidate \in [Endpoints -> Content]
    /\ running \in [Endpoints -> Content]
    /\ lock \in [Endpoints -> OpIds \cup {NoOne}]
    /\ sent \subseteq OpIds
    /\ faults \in 0..MaxFaults
    /\ minted \in [OpIds -> Devices \cup {NoOne}]
    /\ intents \subseteq OpIds
    /\ committed \subseteq OpIds

\* A device lock an operation took is never without a record that says so: at
\* every instant, so also after a crash, the state file holds an unsettled
\* record of the holder with config_lock_held set.
LockIsRecorded == \A e \in Endpoints :
    lock[e] # NoOne => Active(file[lock[e]]) /\ file[lock[e]].config_lock_held

\* Uncommitted changes an operation left in a candidate are never without an
\* unsettled record in the state file, whichever reply or write was lost.
ResidueIsRecorded == \A e \in Endpoints : \A o \in OpIds \ committed :
    candidate[e] = o => Active(file[o])

\* One unsettled operation per endpoint, in memory and on disk, although the
\* guard is keyed on the device name and two names may share an endpoint.
OneActivePerEndpoint == \A m \in {ops, file} : \A o, p \in OpIds :
    (o # p /\ Active(m[o]) /\ Active(m[p]))
        => EndpointOf[m[o].device] # EndpointOf[m[p].device]

LeavesStagedAlone == \A o \in OpIds :
    ops[o].state \in {"Staged", "Validating", "Validated"} =>
        LET e == EndpointOf[ops[o].device] IN
        candidate'[e] \in {candidate[e], "Drift"} /\ running'[e] = running[e]

\* While an operation is between stage and commit no other operation, through
\* whatever name or restart, replaces, reverts or commits the candidate under
\* it; only another administrator can still move it.
StagedUndisturbed == [][LeavesStagedAlone]_vars

\* What the state file says of a finished operation is true of the device: a
\* change that took effect has its intent on record and is never filed as
\* failed, discarded or not yet committed; one filed as Committed took effect;
\* one filed as Discarded left neither lock nor changes nor a pending commit.
RecordsTellTheTruth == \A o \in OpIds :
    /\ o \in committed =>
         /\ o \in intents
         /\ file[o].state \in {"Committing", "Committed", "Indeterminate", "Absent"}
    /\ file[o].state = "Committed" => o \in committed
    /\ file[o].state = "Discarded" =>
         /\ o \notin committed \cup sent
         /\ \A e \in Endpoints : lock[e] # o /\ candidate[e] # o

LeavesSettledAlone == \A o \in OpIds :
    (up /\ up' /\ terminal(ops[o].state)) => ops'[o] \in {ops[o], NoRecord}

\* A settled operation is never reopened or settled otherwise by a call that
\* read it earlier; it can only be evicted.
SettledStaysSettled == [][LeavesSettledAlone]_vars

StagesWhatWasObserved == \A e \in Endpoints, o \in OpIds :
    (candidate'[e] = o /\ o \notin {candidate[e], running[e]}) => file[o].current = candidate[e]

\* With a device lock, actions are only ever staged onto the candidate the
\* record says was observed: no other session's edit slips in between the
\* fingerprint check and stage().
StagedOnWhatWasObserved == [][StagesWhatWasObserved]_vars

=============================================================================
