----------------------------- MODULE ChangeSets -----------------------------
(***************************************************************************)
(* The change-set half of mecmcp-changeset: the two-person approval gate   *)
(* and the store behind it.                                                *)
(*                                                                         *)
(* A change set is planned by its owner, approved by a second principal    *)
(* (or waived), claimed once, and settled.  Every API call reads a record  *)
(* under the coordinator's mutex, decides with the mutex released, and     *)
(* writes the record back under the mutex again; a call in that gap is the *)
(* value of calls[c].  The store lives in memory and in the state file,    *)
(* and a write can fail in two ways: nothing reached the file ("lost"), or *)
(* the rename happened and the directory sync did not ("unsure").          *)
(*                                                                         *)
(* Digests and fingerprints are left out: a mismatch is an early return    *)
(* that changes nothing.  A preview is reduced to a version number.        *)
(***************************************************************************)
EXTENDS Naturals, FiniteSets

CONSTANTS
    Ids,            \* change-set ids new_operation_id() can draw
    Principals,     \* authenticated callers
    Humans,         \* the callers whose ActorType is Human
    Devices,
    Callers,        \* concurrent API calls
    NoOne,          \* "None" in an optional owner, approver, device, caller
    Recorder,       \* with_evidence(): an evidence recorder is attached
    LabModes,       \* the --lab-mode settings the server may start with
    ApprovalTtl,    \* approval_ttl, in clock ticks
    MaxChangeSets,  \* limits.max_change_sets
    MaxClock        \* bound: how far the wall clock advances

ASSUME ConstantsAssumption ==
    /\ Humans \subseteq Principals
    /\ NoOne \notin Principals \cup Devices \cup Callers
    /\ Recorder \in BOOLEAN
    /\ LabModes \subseteq BOOLEAN /\ LabModes # {}
    /\ ApprovalTtl \in Nat \ {0}
    /\ MaxChangeSets \in Nat \ {0}
    /\ MaxClock \in Nat

VARIABLES
    changeSets,     \* the coordinator's in-memory map (state.change_sets)
    file,           \* the same map as the state file holds it
    up,             \* the server process is running and holds the store
    labMode,        \* lab_mode of the running coordinator
    clock,          \* now_unix()
    guard,          \* endpoint_locks: which call holds a device's guard
    calls,          \* where each API call stands between two awaits
    \* History: what callers were told and did.
    minted,         \* ids drawn for an insert (ids are random, never reused)
    runs,           \* how many times a claim of the change set was granted
    retired,        \* ids some caller was told are Cancelled or Expired
    consent,        \* whose approve or waive call was carried out
    trail           \* approvals in the evidence trail, <<id, whose>>

store == <<changeSets, file>>
process == <<up, labMode>>
history == <<minted, runs, retired, consent, trail>>
vars == <<changeSets, file, up, labMode, clock, guard, calls, minted, runs,
          retired, consent, trail>>

-----------------------------------------------------------------------------
(* Records *)

ChangeSetState == {"Planned", "Approved", "Applying", "Applied", "Expired",
                   "Failed", "Cancelled"}

\* "timed" is an operator waiver with an expiry; the other two never lapse.
WaiverKind == {"none", "lab", "operator", "timed"}

ChangeSetRecord ==
    [state: ChangeSetState \cup {"Absent"},
     owner: Principals \cup {NoOne},
     device: Devices \cup {NoOne},
     approver: Principals \cup {NoOne},
     waiver: WaiverKind,
     until: Nat,           \* when a timed waiver lapses
     expires: Nat,         \* expires_at_unix
     preview: {0, 1},      \* which rendering is attached
     signed: {0, 1},       \* the rendering the approval digest covers
     task: BOOLEAN,        \* task_id is Some
     noHandle: BOOLEAN]    \* apply_without_handle

\* An id the map does not hold.
NoRecord ==
    [state |-> "Absent", owner |-> NoOne, device |-> NoOne,
     approver |-> NoOne, waiver |-> "none", until |-> 0, expires |-> 0,
     preview |-> 0, signed |-> 0, task |-> FALSE, noHandle |-> FALSE]

Steps == {"idle", "update", "overwrite", "emit", "queued", "claim", "link",
          "settle", "vendor"}

\* step: what the call does next; observed: the state it read; next: the
\* record it is about to write.
Call == [step: Steps, id: Ids \cup {NoOne}, observed: ChangeSetState \cup {"Absent"},
         next: ChangeSetRecord]

IdleCall == [step |-> "idle", id |-> NoOne, observed |-> "Absent", next |-> NoRecord]

Outcomes == {"ok", "lost", "unsure"}

Exists(r) == r.state # "Absent"
PendingUnlessClaimed(s) == s \in {"Planned", "Approved"}   \* mutant
is_pending(s) == s \in {"Planned", "Approved", "Applying"}
is_expirable(s) == s \in {"Planned", "Approved"}
Terminal(s) == s \in {"Applied", "Expired", "Failed", "Cancelled"}

waiver_lapsed(r, now) == r.waiver = "timed" /\ now >= r.until

\* The sweep's two deadlines: the approval TTL and the waiver's expiry.
PastDeadline(r, now) ==
    is_expirable(r.state) /\ (r.expires <= now \/ waiver_lapsed(r, now))

-----------------------------------------------------------------------------
(* The write gate *)

change_set_transition_allowed(from, to) ==
    \/ from = to
    \/ <<from, to>> \in {<<"Planned", "Approved">>, <<"Planned", "Expired">>,
                         <<"Planned", "Cancelled">>, <<"Approved", "Expired">>,
                         <<"Approved", "Cancelled">>, <<"Applying", "Applied">>,
                         <<"Applying", "Failed">>, <<"Expired", "Cancelled">>,
                         <<"Failed", "Cancelled">>, <<"Applied", "Failed">>}

normalise_apply_marker(r) ==
    IF r.state = "Applying" THEN r ELSE [r EXCEPT !.noHandle = FALSE]

WriteGateWithoutFreeze(current, next, via) ==   \* mutant
    /\ Exists(current)
    /\ next.owner = current.owner /\ next.device = current.device
    /\ IF current.state = "Approved" /\ next.state = "Applying"
       THEN via = "ApplyClaim"
       ELSE /\ next.approver # next.owner
            /\ change_set_transition_allowed(current.state, next.state)

\* Every change-set write passes here.  A granted approval never changes and
\* freezes the preview it signed; Approved -> Applying is the claim's alone.
check_change_set_write(current, next, via) ==
    /\ Exists(current)
    /\ next.owner = current.owner /\ next.device = current.device
    /\ IF current.state = "Approved" /\ next.state = "Applying"
       THEN via = "ApplyClaim"
       ELSE /\ current.approver # NoOne =>
                   /\ next.approver = current.approver
                   /\ next.waiver = current.waiver
                   /\ next.signed = current.signed
                   /\ next.preview = current.preview
            /\ next.approver # next.owner
            /\ change_set_transition_allowed(current.state, next.state)
            /\ (current.state = "Applying" /\ next.state = "Applying"
                /\ current.noHandle) => next.noHandle

\* What a write leaves in the file: the new content unless it was lost.
FileAfter(old, new, outcome) == IF outcome = "lost" THEN old ELSE new

\* persist_locked with rollback: memory keeps the new map only if the write
\* is known to have succeeded.
PersistWithoutRollBack(old, new, outcome) ==   \* mutant
    /\ changeSets' = new
    /\ file' = FileAfter(file, new, outcome)

PersistOrRollBack(old, new, outcome) ==
    /\ changeSets' = IF outcome = "ok" THEN new ELSE old
    /\ file' = FileAfter(file, new, outcome)

-----------------------------------------------------------------------------
(* Calls *)

Begins(c) == up /\ calls[c].step = "idle"

\* The call returns to its caller; dropping its guard frees the device.
Return(c) == calls' = [calls EXCEPT ![c] = IdleCall]
KeepGuard(c) == guard' = guard   \* mutant
ReleaseGuard(c) == guard' = [d \in Devices |-> IF guard[d] = c THEN NoOne ELSE guard[d]]

Continue(c, step, id, observed, next) ==
    calls' = [calls EXCEPT ![c] =
        [step |-> step, id |-> id, observed |-> observed, next |-> next]]

Count(m) == Cardinality({i \in Ids : Exists(m[i])})

Sweep(m, now) ==
    [i \in Ids |-> IF PastDeadline(m[i], now)
                   THEN [m[i] EXCEPT !.state = "Expired"] ELSE m[i]]

StoreFull(m) == Count(m) >= MaxChangeSets

EvictTerminal(m) ==
    IF StoreFull(m)
    THEN [i \in Ids |-> IF Terminal(m[i].state) THEN NoRecord ELSE m[i]]
    ELSE m

Blocked(m, owner, device) ==
    \E i \in Ids : m[i].owner = owner /\ m[i].device = device /\ is_pending(m[i].state)

\* insert_change_set, one critical section: retire what is past its deadline,
\* evict at capacity, persist both before any refusal, then insert the record.
insert_change_set(id, record) ==
    LET kept == EvictTerminal(Sweep(changeSets, clock))
        refused == StoreFull(kept) \/ Blocked(kept, record.owner, record.device)
        inserted == [kept EXCEPT ![id] = record]
    IN  \/ \* the sweep could not be written: undone, the insert fails
           /\ kept # changeSets
           /\ \E outcome \in {"lost", "unsure"} :
                 PersistOrRollBack(changeSets, kept, outcome)
           /\ UNCHANGED minted
        \/ \* the sweep is kept although the insert is refused
           /\ kept # changeSets /\ refused
           /\ PersistOrRollBack(changeSets, kept, "ok")
           /\ UNCHANGED minted
        \/ /\ ~refused
           /\ minted' = minted \cup {id}
           /\ \E outcome \in Outcomes :
                 /\ changeSets' = IF outcome = "ok" THEN inserted ELSE kept
                 /\ file' = FileAfter(IF kept = changeSets THEN file ELSE kept,
                                      inserted, outcome)

\* A Planned record under a fresh id, whose deadline is ApprovalTtl away.
create_change_set(c, id, owner, device) ==
    /\ Begins(c)
    /\ id \notin minted
    /\ insert_change_set(id,
          [NoRecord EXCEPT !.state = "Planned", !.owner = owner,
                           !.device = device, !.expires = clock + ApprovalTtl])
    /\ UNCHANGED <<process, clock, guard, calls, runs, retired, consent, trail>>

\* Only a human other than the owner approves.
AnyoneButTheOwner(r, p) == r.owner # p   \* mutant
MayApprove(r, p) == r.owner # p /\ p \in Humans

\* The read half of approve_change_set.
approve_change_set(c, id, p) ==
    LET r == changeSets[id] IN
    /\ Begins(c)
    /\ r.state = "Planned" /\ MayApprove(r, p)
    /\ Continue(c, "update", id, r.state,
          IF clock >= r.expires THEN [r EXCEPT !.state = "Expired"]
          ELSE [r EXCEPT !.state = "Approved", !.approver = p, !.signed = r.preview])
    /\ UNCHANGED <<store, process, clock, guard, history>>

\* The read half of waive_approval (owner only, lab mode only).
waive_approval(c, id) ==
    LET r == changeSets[id] IN
    /\ Begins(c)
    /\ labMode
    /\ r.state = "Planned"
    /\ Continue(c, "update", id, r.state,
          IF clock >= r.expires THEN [r EXCEPT !.state = "Expired"]
          ELSE [r EXCEPT !.state = "Approved", !.waiver = "lab"])
    /\ UNCHANGED <<store, process, clock, guard, history>>

\* The read half of waive_approval_operator: no lab mode, and an expiry that
\* is not already past.
waive_approval_operator(c, id, kind, until) ==
    LET r == changeSets[id] IN
    /\ Begins(c)
    /\ r.state = "Planned"
    /\ \/ /\ clock >= r.expires
          /\ Continue(c, "update", id, r.state, [r EXCEPT !.state = "Expired"])
       \/ /\ clock < r.expires
          /\ kind = "timed" => until > clock
          /\ Continue(c, "update", id, r.state,
                [r EXCEPT !.state = "Approved", !.waiver = kind, !.until = until])
    /\ UNCHANGED <<store, process, clock, guard, history>>

\* The read half of change_set_status with retire_if_deadline_passed: a record
\* past a deadline is about to be written Expired, any other is reported as read.
change_set_status(c, id) ==
    LET r == changeSets[id]
        due == \/ r.state = "Planned" /\ clock >= r.expires
               \/ is_expirable(r.state) /\ waiver_lapsed(r, clock)
    IN  /\ Begins(c) /\ Exists(r)
        /\ \/ /\ due
              /\ Continue(c, "update", id, r.state, [r EXCEPT !.state = "Expired"])
              /\ UNCHANGED retired
           \/ /\ ~due /\ r.state \in {"Cancelled", "Expired"}
              /\ retired' = retired \cup {id}
              /\ UNCHANGED calls
        /\ UNCHANGED <<store, process, clock, guard, minted, runs, consent, trail>>

\* The read half of cancel_change_set, by the owner or the approver; a repeat
\* on a cancelled record reports it again.
cancel_change_set(c, id, p) ==
    LET r == changeSets[id] IN
    /\ Begins(c)
    /\ \/ /\ r.state = "Cancelled"
          /\ retired' = retired \cup {id}
          /\ UNCHANGED calls
       \/ /\ r.state \in {"Planned", "Approved", "Expired", "Failed"}
          /\ p \in {r.owner, r.approver}
          /\ Continue(c, "update", id, r.state, [r EXCEPT !.state = "Cancelled"])
          /\ UNCHANGED retired
    /\ UNCHANGED <<store, process, clock, guard, minted, runs, consent, trail>>

\* A vendor server attaches a new rendering of the plan.
VendorRendersPreview(c, id) ==
    LET r == changeSets[id] IN
    /\ Begins(c)
    /\ is_expirable(r.state)
    /\ Continue(c, "overwrite", id, r.state, [r EXCEPT !.preview = 1 - r.preview])
    /\ UNCHANGED <<store, process, clock, guard, history>>

-----------------------------------------------------------------------------
(* Writes *)

\* The state a compare-and-set writer read must still hold.
Unmoved(call) == changeSets[call.id].state = call.observed

\* The caller hears of success, and the trail of an approval, only after a
\* write known to have succeeded.
AnyOutcomeSucceeds(outcome) == TRUE   \* mutant
Succeeded(outcome) == outcome = "ok"

\* Whose consent an Approved record stands on: the approver's, or the owner's
\* when the approval was waived.
Authority(r) == IF r.approver # NoOne THEN r.approver ELSE r.owner

\* update_change_set_from: the write half of approve, waive, status and cancel.
\* An approval or a waiver is reported to the evidence trail afterwards.
update_change_set_from(c) ==
    LET k == calls[c]
        next == normalise_apply_marker(k.next)
        accepted == Unmoved(k) /\ check_change_set_write(changeSets[k.id], next, "Update")
    IN  /\ up /\ k.step = "update"
        /\ \/ /\ ~accepted
              /\ Return(c)
              /\ UNCHANGED <<store, retired, consent>>
           \/ /\ accepted
              /\ consent' = IF next.state = "Approved"
                            THEN [consent EXCEPT ![k.id] = @ \cup {Authority(next)}] ELSE consent
              /\ \E outcome \in Outcomes :
                    /\ PersistOrRollBack(changeSets, [changeSets EXCEPT ![k.id] = next], outcome)
                    /\ retired' = IF Succeeded(outcome) /\ next.state \in {"Cancelled", "Expired"}
                                  THEN retired \cup {k.id} ELSE retired
                    /\ IF Recorder /\ Succeeded(outcome) /\ next.state = "Approved"
                       THEN Continue(c, "emit", k.id, k.observed, next)
                       ELSE Return(c)
        /\ UNCHANGED <<process, clock, guard, minted, runs, trail>>

\* evidence.approval or evidence.approval_waived, after the state write.
RecordEvidence(c) ==
    /\ up /\ calls[c].step = "emit"
    /\ trail' = trail \cup {<<calls[c].id, Authority(calls[c].next)>>}
    /\ Return(c)
    /\ UNCHANGED <<store, process, clock, guard, minted, runs, retired, consent>>

\* update_change_set: the same gate without the compare-and-set.
update_change_set(c) ==
    LET k == calls[c]
        next == normalise_apply_marker(k.next)
        accepted == check_change_set_write(changeSets[k.id], next, "Update")
    IN  /\ up /\ k.step = "overwrite"
        /\ \/ /\ ~accepted
              /\ UNCHANGED <<store, retired>>
           \/ /\ accepted
              /\ \E outcome \in Outcomes :
                    /\ PersistOrRollBack(changeSets, [changeSets EXCEPT ![k.id] = next], outcome)
                    /\ retired' = IF Succeeded(outcome) /\ next.state = "Expired"
                                  THEN retired \cup {k.id} ELSE retired
        /\ Return(c)
        /\ ReleaseGuard(c)
        /\ UNCHANGED <<process, clock, minted, runs, consent, trail>>

-----------------------------------------------------------------------------
(* Apply *)

\* What apply_change_set requires of the approval it is about to spend.
ApplyGate(r) ==
    /\ r.state = "Approved"
    /\ ~waiver_lapsed(r, clock)
    /\ r.approver # NoOne \/ r.waiver # "none"
    /\ r.approver # r.owner
    /\ r.waiver # "none" => labMode

\* apply_change_set up to the device guard.
apply_change_set(c, id) ==
    LET r == changeSets[id] IN
    /\ Begins(c)
    /\ ApplyGate(r)
    /\ IF clock >= r.expires
       THEN Continue(c, "overwrite", id, r.state, [r EXCEPT !.state = "Expired"])
       ELSE Continue(c, "queued", id, r.state, r)
    /\ UNCHANGED <<store, process, clock, guard, history>>

\* The call is cancelled while it waits for the guard.
CancelQueued(c) ==
    /\ up /\ calls[c].step = "queued"
    /\ Return(c)
    /\ UNCHANGED <<store, process, clock, guard, history>>

\* device_guard granted: the record is read and judged again.
TakeGuard(c) ==
    LET k == calls[c]
        r == changeSets[k.id]
        stands == r.state = "Approved" /\ ~waiver_lapsed(r, clock)
    IN  /\ up /\ k.step = "queued"
        /\ guard[k.next.device] = NoOne
        /\ \/ /\ ~stands
              /\ Return(c)
              /\ UNCHANGED guard
           \/ /\ stands
              /\ guard' = [guard EXCEPT ![k.next.device] = c]
              /\ IF clock >= r.expires
                 THEN Continue(c, "overwrite", k.id, r.state, [r EXCEPT !.state = "Expired"])
                 ELSE Continue(c, "claim", k.id, r.state, r)
        /\ UNCHANGED <<store, process, clock, history>>

\* The device moved, the policy signature is missing, or the operation could
\* not be reserved: apply gives up before the claim.
GiveUpBeforeClaim(c) ==
    /\ up /\ calls[c].step = "claim"
    /\ Return(c) /\ ReleaseGuard(c)
    /\ UNCHANGED <<store, process, clock, history>>

Claimable(r) == r.state = "Approved"

\* A claim stays in memory whatever became of the write.
RollBackClaim(old, held, outcome) == IF outcome = "ok" THEN held ELSE old   \* mutant
MemoryAfterClaim(old, held, outcome) == held

\* claim_change_set_for_apply: check and transition under one lock.  A claim
\* whose persist failed stays in memory and is reported as an error.
claim_change_set_for_apply(c, id, noHandle, step) ==
    LET claimed == [changeSets[id] EXCEPT !.state = "Applying", !.noHandle = noHandle]
        held == [changeSets EXCEPT ![id] = claimed]
    IN  \/ /\ ~Claimable(changeSets[id])
           /\ Return(c) /\ ReleaseGuard(c)
           /\ UNCHANGED <<store, runs>>
        \/ /\ Claimable(changeSets[id])
           /\ check_change_set_write(changeSets[id], claimed, "ApplyClaim")
           /\ \E outcome \in Outcomes :
                 /\ changeSets' = MemoryAfterClaim(changeSets, held, outcome)
                 /\ file' = FileAfter(file, held, outcome)
                 /\ \/ /\ outcome = "ok"
                       /\ runs' = [runs EXCEPT ![id] = @ + 1]
                       /\ Continue(c, step, id, "Applying", claimed)
                       /\ UNCHANGED guard
                    \/ /\ outcome # "ok"
                       /\ UNCHANGED runs
                       /\ Return(c) /\ ReleaseGuard(c)

ClaimForApply(c) ==
    /\ up /\ calls[c].step = "claim"
    /\ claim_change_set_for_apply(c, calls[c].id, FALSE, "link")
    /\ UNCHANGED <<process, clock, minted, retired, consent, trail>>

\* A vendor server claims without apply_change_set.
VendorClaims(c, id, noHandle) ==
    /\ Begins(c)
    /\ Claimable(changeSets[id])
    /\ claim_change_set_for_apply(c, id, noHandle, "vendor")
    /\ UNCHANGED <<process, clock, minted, retired, consent, trail>>

\* apply_change_set writes the operation id into the claimed record, and
\* stops there if that write fails.
LinkOperation(c) ==
    LET k == calls[c]
        accepted == check_change_set_write(changeSets[k.id], k.next, "Update")
    IN  /\ up /\ k.step = "link"
        /\ \E outcome \in Outcomes :
              /\ accepted \/ outcome = "lost"
              /\ PersistOrRollBack(changeSets,
                    IF accepted THEN [changeSets EXCEPT ![k.id] = k.next] ELSE changeSets,
                    outcome)
              /\ IF outcome = "ok"
                 THEN Continue(c, "settle", k.id, "Applying", k.next) /\ UNCHANGED guard
                 ELSE Return(c) /\ ReleaseGuard(c)
        /\ UNCHANGED <<process, clock, history>>

\* The vendor server writes the task handle it was given.
VendorRecordsTask(c) ==
    LET k == calls[c]
        next == [k.next EXCEPT !.task = TRUE]
    IN  /\ up /\ k.step = "vendor" /\ ~k.next.noHandle /\ ~k.next.task
        /\ check_change_set_write(changeSets[k.id], next, "Update")
        /\ \E outcome \in Outcomes :
              PersistOrRollBack(changeSets, [changeSets EXCEPT ![k.id] = next], outcome)
        /\ Continue(c, "vendor", k.id, "Applying", next)
        /\ UNCHANGED <<process, clock, guard, history>>

\* The apply ends: Applied, or Failed.  A failed write is ignored.
SettleApply(c) ==
    LET k == calls[c] IN
    /\ up /\ k.step \in {"settle", "vendor"}
    /\ \E s \in {"Applied", "Failed"} :
          LET next == normalise_apply_marker([k.next EXCEPT !.state = s])
              accepted == check_change_set_write(changeSets[k.id], next, "Update")
          IN  \E outcome \in Outcomes :
                 /\ accepted \/ outcome = "lost"
                 /\ PersistOrRollBack(changeSets, [changeSets EXCEPT ![k.id] = next], outcome)
    /\ Return(c) /\ ReleaseGuard(c)
    /\ UNCHANGED <<process, clock, history>>

\* After a restart the vendor server probes the task, or the device, of a
\* record left Applying and settles it.
VendorReprobes(id) ==
    LET r == changeSets[id] IN
    /\ up
    /\ r.state = "Applying" /\ (r.task \/ r.noHandle)
    /\ \A c \in Callers : calls[c].id # id
    /\ \E s \in {"Applied", "Failed"}, outcome \in Outcomes :
          LET next == normalise_apply_marker([r EXCEPT !.state = s]) IN
          /\ check_change_set_write(r, next, "Update")
          /\ PersistOrRollBack(changeSets, [changeSets EXCEPT ![id] = next], outcome)
    /\ UNCHANGED <<process, clock, guard, calls, history>>

-----------------------------------------------------------------------------
(* Process *)

\* The server stops between any two steps; memory, guards and calls are gone.
Crash ==
    /\ up
    /\ up' = FALSE
    /\ changeSets' = [i \in Ids |-> NoRecord]
    /\ guard' = [d \in Devices |-> NoOne]
    /\ calls' = [c \in Callers |-> IdleCall]
    /\ UNCHANGED <<file, labMode, clock, history>>

\* validate_state on one record: one bad record refuses the whole file.
Loadable(r) ==
    Exists(r) => /\ r.approver # r.owner
                 /\ r.approver # NoOne => r.waiver = "none" /\ r.signed = r.preview

\* An apply that never had a way to be asked about is settled as Failed.
RecoverToApproved(r) ==   \* mutant
    IF r.state = "Applying" /\ ~r.task /\ ~r.noHandle
    THEN [r EXCEPT !.state = "Approved"] ELSE r

RecoverToIndeterminate(r) ==   \* mutant
    IF r.state = "Applying" /\ ~r.task /\ ~r.noHandle
    THEN [r EXCEPT !.state = "Indeterminate"] ELSE r

RecoverChangeSet(r) ==
    IF r.state = "Applying" /\ ~r.task /\ ~r.noHandle
    THEN [r EXCEPT !.state = "Failed"] ELSE r

Recover(m) == [i \in Ids |-> RecoverChangeSet(m[i])]

\* load_with_recovery: read, recover, write back only what changed; a failed
\* write-back refuses to start.
load(lab) ==
    LET recovered == Recover(file) IN
    /\ ~up
    /\ \A i \in Ids : Loadable(file[i])
    /\ \/ /\ recovered # file
          /\ file' = recovered
          /\ UNCHANGED <<up, labMode, changeSets>>
       \/ /\ up' = TRUE
          /\ labMode' = lab
          /\ changeSets' = recovered
          /\ file' = recovered
    /\ UNCHANGED <<clock, guard, calls, history>>

Tick ==
    /\ clock < MaxClock
    /\ clock' = clock + 1
    /\ UNCHANGED <<store, process, guard, calls, history>>

-----------------------------------------------------------------------------
(* Specification *)

Init ==
    /\ changeSets = [i \in Ids |-> NoRecord]
    /\ file = [i \in Ids |-> NoRecord]
    /\ up = TRUE
    /\ labMode \in LabModes
    /\ clock = 0
    /\ guard = [d \in Devices |-> NoOne]
    /\ calls = [c \in Callers |-> IdleCall]
    /\ minted = {}
    /\ runs = [i \in Ids |-> 0]
    /\ retired = {}
    /\ consent = [i \in Ids |-> {}]
    /\ trail = {}

\* A step of the call c that is already under way.
Proceed(c) ==
    \/ update_change_set_from(c)
    \/ RecordEvidence(c)
    \/ update_change_set(c)
    \/ TakeGuard(c)
    \/ ClaimForApply(c)
    \/ LinkOperation(c)
    \/ SettleApply(c)

\* A new call, or a step only its caller decides to take.
Request(c) ==
    \/ CancelQueued(c)
    \/ GiveUpBeforeClaim(c)
    \/ VendorRecordsTask(c)
    \/ \E id \in Ids :
          \/ \E p \in Principals, d \in Devices : create_change_set(c, id, p, d)
          \/ \E p \in Principals : approve_change_set(c, id, p)
          \/ waive_approval(c, id)
          \/ waive_approval_operator(c, id, "operator", 0)
          \/ \E until \in 1 .. MaxClock : waive_approval_operator(c, id, "timed", until)
          \/ change_set_status(c, id)
          \/ \E p \in Principals : cancel_change_set(c, id, p)
          \/ VendorRendersPreview(c, id)
          \/ apply_change_set(c, id)
          \/ \E noHandle \in BOOLEAN : VendorClaims(c, id, noHandle)

Next ==
    \/ \E c \in Callers : Proceed(c) \/ Request(c)
    \/ \E id \in Ids : VendorReprobes(id)
    \/ Crash
    \/ \E lab \in LabModes : load(lab)
    \/ Tick

Spec == Init /\ [][Next]_vars

\* A call that can take its next step takes it: the runtime polls every ready
\* task, and the guard is a fair (first come, first served) async mutex.
Fairness == \A c \in Callers : WF_vars(Proceed(c)) /\ SF_vars(TakeGuard(c))

FairSpec == Spec /\ Fairness

-----------------------------------------------------------------------------
(* Properties *)

TypeOK ==
    /\ changeSets \in [Ids -> ChangeSetRecord]
    /\ file \in [Ids -> ChangeSetRecord]
    /\ up \in BOOLEAN
    /\ labMode \in BOOLEAN
    /\ clock \in 0 .. MaxClock
    /\ guard \in [Devices -> Callers \cup {NoOne}]
    /\ calls \in [Callers -> Call]
    /\ minted \subseteq Ids
    /\ runs \in [Ids -> Nat]
    /\ retired \subseteq Ids
    /\ consent \in [Ids -> SUBSET Principals]
    /\ trail \subseteq Ids \X Principals

\* One approval, one execution: no interleaving of applies, failed claims,
\* crashes and restarts grants two claims of a change set.
OneApprovalOneRun == \A i \in Ids : runs[i] <= 1

\* A change set some caller was told is cancelled or expired is never claimed
\* afterwards, restarts included.
RetiredNeverRuns == [][\A i \in Ids : i \in retired => runs'[i] = runs[i]]_vars

\* A claim spends an approval somebody gave: the recorded approver is a human
\* other than the owner who made the approve call, or the owner called a waiver.
RunsAreAuthorised ==
    [][\A i \in Ids : runs'[i] # runs[i] =>
          LET r == changeSets[i] IN
          \/ r.approver \in (consent[i] \cap Humans) \ {r.owner}
          \/ r.approver = NoOne /\ r.waiver # "none" /\ r.owner \in consent[i]]_vars

\* A claim the file already records is never forgotten by the running process,
\* so an "unsure" claim cannot be claimed a second time.
ClaimNotForgotten ==
    up => \A i \in Ids : file[i].state = "Applying" => changeSets[i].state = "Applying"

\* At most one pending change set per owner and device, in memory and in the
\* file (so also after a restart).
OnePendingPerOwnerAndDevice ==
    \A m \in {changeSets, file} : \A i, j \in Ids :
        (/\ {m[i].state, m[j].state} \subseteq {"Planned", "Approved", "Applying"}
         /\ m[i].owner = m[j].owner /\ m[i].device = m[j].device) => i = j

\* The store never holds more than max_change_sets records.
WithinCapacity == Count(changeSets) <= MaxChangeSets /\ Count(file) <= MaxChangeSets

\* The store keeps both of its bounds, in memory and in the file, through the sweep,
\* the eviction and every failure of the two writes (insert_change_set).
StoreWithinLimits == OnePendingPerOwnerAndDevice /\ WithinCapacity

\* The trail never claims an approval or a waiver the coordinator failed to
\* persist: the file keeps it for as long as it keeps the record.
TrailIsPersisted ==
    \A e \in trail : LET r == file[e[1]] IN
        Exists(r) => Authority(r) = e[2] /\ (r.approver # NoOne \/ r.waiver # "none")

\* Whatever is written can be read back: no sequence of calls produces a file
\* the next start refuses.
FileLoadable == \A i \in Ids : Loadable(file[i])

\* The abstract promise: consent, then at most one run, never after the change
\* set was reported retired.
OneShot == INSTANCE OneShotApproval WITH
    consented <- consent, ran <- runs, closed <- retired

\* The store, its file and its restarts implement that promise.
ImplementsOneShot == OneShot!Spec

-----------------------------------------------------------------------------
(* A statement of the repository's documentation that the code contradicts *)


=============================================================================
